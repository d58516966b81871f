-------------------------- MODULE ContainerProofs ---------------------------
(***************************************************************************)
(* Proofs about RakNet's queue, memory pool, delta serializer and linked   *)
(* list: Queue, MemoryPool and LinkedList for any size, DeltaSerializer    *)
(* for any number of variables.                                            *)
(* The queue's ring is a sequence: an operation is first said with the     *)
(* positions of the ring, then with the sequence they are.  The pool's     *)
(* rings are linked pages, which may be numbered from any of them on; the  *)
(* list's is numbered from its root, and its sort has one result only.     *)
(***************************************************************************)
EXTENDS Queue, MemoryPool, DeltaSerializer, LinkedList, Induction, SequenceTheorems

-----------------------------------------------------------------------------
(***************************************************************************)
(* The ring.                                                               *)
(***************************************************************************)
RingOK ==
  /\ allocation_size \in Nat /\ head \in Nat /\ tail \in Nat
  /\ IF allocation_size = 0 THEN head = 0 /\ tail = 0
     ELSE head < allocation_size /\ tail < allocation_size
  /\ array \in [0 .. allocation_size - 1 -> Elements \union {NoElement}]
QueueInv == RingOK /\ \A p \in 0 .. QueueSize - 1 : array[Cell(p)] \in Elements

\* Positions are distinct cells, from head to tail.
LEMMA Cells ==
  ASSUME RingOK, allocation_size > 0
  PROVE  /\ QueueSize \in 0 .. allocation_size - 1
         /\ Cell(0) = head /\ Cell(QueueSize) = tail
         /\ \A p \in 0 .. allocation_size - 1 : Cell(p) \in 0 .. allocation_size - 1
         /\ \A p, q \in 0 .. allocation_size - 1 : Cell(p) = Cell(q) => p = q
         /\ \A p \in 0 .. allocation_size - 2 :
              Succ(Cell(p)) = Cell(p + 1) /\ Pred(Cell(p + 1)) = Cell(p)
<1> USE DEF RingOK
<1>1. QueueSize \in 0 .. allocation_size - 1 /\ Cell(QueueSize) = tail
  BY DEF QueueSize, Cell
<1>2. Cell(0) = head
  BY DEF Cell
<1>3. \A p \in 0 .. allocation_size - 1 : Cell(p) \in 0 .. allocation_size - 1
  BY DEF Cell
<1>4. \A p, q \in 0 .. allocation_size - 1 : Cell(p) = Cell(q) => p = q
  BY DEF Cell
<1>5. \A p \in 0 .. allocation_size - 2 : Succ(Cell(p)) = Cell(p + 1) /\ Pred(Cell(p + 1)) = Cell(p)
  BY DEF Cell, Succ, Pred
<1> QED BY <1>1, <1>2, <1>3, <1>4, <1>5

\* The content is a sequence of elements, before a step and after it.
IsContent ==
  /\ QueueSize \in Nat /\ Content \in Seq(Elements) /\ Len(Content) = QueueSize
  /\ \A k \in 1 .. QueueSize : Content[k] = array[Cell(k - 1)]

LEMMA ContentIsSeq == QueueInv => IsContent
<1> SUFFICES ASSUME QueueInv PROVE IsContent
  OBVIOUS
<1>1. QueueSize \in Nat
  BY DEF QueueInv, RingOK, QueueSize
<1>2. \A k \in 1 .. QueueSize : array[Cell(k - 1)] \in Elements
  BY <1>1 DEF QueueInv
<1>3. Content \in [1 .. QueueSize -> Elements]
  BY <1>2 DEF Content
<1> QED BY <1>1, <1>3 DEF Content, IsContent

LEMMA PrimedContent == QueueInv' => IsContent'
BY ContentIsSeq, PTL

-----------------------------------------------------------------------------
(***************************************************************************)
(* The four things a step does to the positions, and what they are to the  *)
(* sequence.                                                               *)
(***************************************************************************)
Grown(index, e) ==
  /\ index \in 0 .. QueueSize /\ e \in Elements /\ QueueSize' = QueueSize + 1
  /\ \A p \in 0 .. QueueSize : array'[Cell(p)'] = IF p < index THEN array[Cell(p)]
                                            ELSE IF p = index THEN e ELSE array[Cell(p - 1)]
Shrunk(index) ==
  /\ index \in 0 .. QueueSize - 1 /\ QueueSize' = QueueSize - 1
  /\ \A p \in 0 .. QueueSize - 2 :
       array'[Cell(p)'] = IF p < index THEN array[Cell(p)] ELSE array[Cell(p + 1)]
Unmoved ==
  /\ QueueSize' = QueueSize
  /\ \A p \in 0 .. QueueSize - 1 : array'[Cell(p)'] = array[Cell(p)]

LEMMA GrownPuts ==
  ASSUME QueueInv, RingOK', NEW index, NEW e, Grown(index, e)
  PROVE  QueueInv' /\ index \in 0 .. Len(Content) /\ e \in Elements
         /\ Content' = Put(Content, index, e)
<1>1. QueueSize \in Nat /\ index \in 0 .. QueueSize /\ e \in Elements
  BY ContentIsSeq DEF Grown, IsContent
<1>2. QueueInv'
  <2>1. ASSUME NEW p \in 0 .. QueueSize' - 1 PROVE array'[Cell(p)'] \in Elements
    <3>1. p \in 0 .. QueueSize
      BY <1>1 DEF Grown
    <3>2. p \in 0 .. QueueSize - 1 => array[Cell(p)] \in Elements
      BY DEF QueueInv
    <3>3. p > index => array[Cell(p - 1)] \in Elements
      BY <1>1, <3>1 DEF QueueInv
    <3> QED BY <1>1, <3>1, <3>2, <3>3 DEF Grown
  <2> QED BY <2>1 DEF QueueInv
<1>3. \A k \in 1 .. Len(Content') :
        Content'[k] = IF k <= index THEN Content[k]
                      ELSE IF k = index + 1 THEN e ELSE Content[k - 1]
  <2> SUFFICES ASSUME NEW k \in 1 .. Len(Content')
               PROVE  Content'[k] = IF k <= index THEN Content[k]
                                    ELSE IF k = index + 1 THEN e ELSE Content[k - 1]
    OBVIOUS
  <2>1. k \in 1 .. QueueSize + 1 /\ Content'[k] = array'[Cell(k - 1)']
    BY <1>2, PrimedContent DEF Grown, IsContent
  <2>2. Content'[k] = IF k - 1 < index THEN array[Cell(k - 1)]
                      ELSE IF k - 1 = index THEN e ELSE array[Cell(k - 1 - 1)]
    <3>1. k - 1 \in 0 .. QueueSize
      BY <1>1, <2>1
    <3> QED BY <2>1, <3>1 DEF Grown
  <2>3. k <= index => Content[k] = array[Cell(k - 1)]
    BY <1>1, <2>1, ContentIsSeq DEF IsContent
  <2>4. k > index + 1 => Content[k - 1] = array[Cell(k - 1 - 1)]
    BY <1>1, <2>1, ContentIsSeq DEF IsContent
  <2> QED BY <1>1, <2>1, <2>2, <2>3, <2>4
<1>4. Len(Content') = Len(Content) + 1 /\ index \in 0 .. Len(Content)
  BY <1>1, <1>2, ContentIsSeq, PrimedContent DEF Grown, IsContent
<1>5. Content \in Seq(Elements) /\ Content' \in Seq(Elements)
  BY <1>2, ContentIsSeq, PrimedContent DEF IsContent
<1>6. Content' = Put(Content, index, e)
  BY <1>1, <1>3, <1>4, <1>5, PutIs
<1> QED BY <1>1, <1>2, <1>4, <1>6

LEMMA ShrunkTakes ==
  ASSUME QueueInv, RingOK', NEW index, Shrunk(index)
  PROVE  QueueInv' /\ index \in 0 .. Len(Content) - 1 /\ Content' = Taken(Content, index)
<1>1. QueueSize \in Nat /\ index \in 0 .. QueueSize - 1
  BY ContentIsSeq DEF Shrunk, IsContent
<1>2. QueueInv'
  <2>1. ASSUME NEW p \in 0 .. QueueSize' - 1 PROVE array'[Cell(p)'] \in Elements
    <3>1. p \in 0 .. QueueSize - 2
      BY <1>1 DEF Shrunk
    <3>2. array[Cell(p)] \in Elements /\ array[Cell(p + 1)] \in Elements
      BY <1>1, <3>1 DEF QueueInv
    <3> QED BY <3>1, <3>2 DEF Shrunk
  <2> QED BY <2>1 DEF QueueInv
<1>3. \A k \in 1 .. Len(Content') :
        Content'[k] = IF k <= index THEN Content[k] ELSE Content[k + 1]
  <2> SUFFICES ASSUME NEW k \in 1 .. Len(Content')
               PROVE  Content'[k] = IF k <= index THEN Content[k] ELSE Content[k + 1]
    OBVIOUS
  <2>1. k \in 1 .. QueueSize - 1 /\ Content'[k] = array'[Cell(k - 1)']
    BY <1>2, PrimedContent DEF Shrunk, IsContent
  <2>2. Content'[k] = IF k - 1 < index THEN array[Cell(k - 1)] ELSE array[Cell(k - 1 + 1)]
    BY <1>1, <2>1 DEF Shrunk
  <2>3. Content[k] = array[Cell(k - 1)] /\ Content[k + 1] = array[Cell(k + 1 - 1)]
    BY <1>1, <2>1, ContentIsSeq DEF IsContent
  <2>4. k - 1 + 1 = k + 1 - 1
    BY <2>1
  <2> QED BY <1>1, <2>1, <2>2, <2>3, <2>4
<1>4. Len(Content') = Len(Content) - 1 /\ index \in 0 .. Len(Content) - 1
  BY <1>1, <1>2, ContentIsSeq, PrimedContent DEF Shrunk, IsContent
<1>5. Content \in Seq(Elements) /\ Content' \in Seq(Elements)
  BY <1>2, ContentIsSeq, PrimedContent DEF IsContent
<1>6. Content' = Taken(Content, index)
  BY <1>3, <1>4, <1>5, TakenIs
<1> QED BY <1>2, <1>4, <1>6

LEMMA UnmovedStutters ==
  ASSUME QueueInv, RingOK', Unmoved
  PROVE  QueueInv' /\ Content' = Content
<1>1. QueueInv'
  BY DEF QueueInv, Unmoved
<1>2. \A k \in 1 .. QueueSize : Content'[k] = Content[k]
  BY <1>1, ContentIsSeq, PrimedContent DEF Unmoved, IsContent
<1>3. /\ Content \in Seq(Elements) /\ Content' \in Seq(Elements)
      /\ Len(Content) = QueueSize /\ Len(Content') = QueueSize
  BY <1>1, ContentIsSeq, PrimedContent DEF Unmoved, IsContent
<1> QED BY <1>1, <1>2, <1>3, SeqEqual

-----------------------------------------------------------------------------
(***************************************************************************)
(* What each operation does to the positions.                              *)
(***************************************************************************)
\* The tail a cell further in the same ring: one more position, where it was.
LEMMA TailOn ==
  ASSUME RingOK, allocation_size > 0, Succ(tail) # head,
         tail' = Succ(tail), head' = head, allocation_size' = allocation_size
  PROVE  /\ QueueSize' = QueueSize + 1 /\ QueueSize < allocation_size - 1
         /\ tail' \in 0 .. allocation_size - 1
         /\ \A p \in 0 .. allocation_size - 1 : Cell(p)' = Cell(p)
BY DEF RingOK, QueueSize, Cell, Succ

LEMMA TailBack ==
  ASSUME RingOK, head # tail,
         tail' = Pred(tail), head' = head, allocation_size' = allocation_size
  PROVE  /\ QueueSize' = QueueSize - 1 /\ QueueSize > 0 /\ allocation_size > 0
         /\ tail' \in 0 .. allocation_size - 1
         /\ \A p \in 0 .. allocation_size - 1 : Cell(p)' = Cell(p)
BY DEF RingOK, QueueSize, Cell, Pred

LEMMA HeadOn ==
  ASSUME RingOK, head # tail,
         head' = Succ(head), tail' = tail, allocation_size' = allocation_size
  PROVE  /\ QueueSize' = QueueSize - 1 /\ QueueSize > 0 /\ allocation_size > 0
         /\ head' \in 0 .. allocation_size - 1
         /\ \A p \in 0 .. allocation_size - 2 : Cell(p)' = Cell(p + 1)
BY DEF RingOK, QueueSize, Cell, Succ

\* A new ring, filled from its first cell.
LEMMA NewRing ==
  ASSUME head' = 0, tail' \in Nat, allocation_size' \in Nat, tail' < allocation_size'
  PROVE  QueueSize' = tail' /\ \A p \in 0 .. tail' : Cell(p)' = p
<1>1. QueueSize' = tail'
  <2>1. QueueSize' = IF head' <= tail' THEN tail' - head' ELSE allocation_size' - head' + tail'
    BY Zenon DEF QueueSize
  <2>2. \A n \in Nat : 0 <= n /\ n - 0 = n
    OBVIOUS
  <2>3. 0 <= tail' /\ tail' - 0 = tail'
    BY <2>2, Zenon
  <2>4. head' <= tail' /\ tail' - head' = tail'
    BY <2>3
  <2> QED BY <2>1, <2>4
<1>2. ASSUME NEW p \in 0 .. tail' PROVE Cell(p)' = p
  <2>1. p \in Nat /\ p < allocation_size' /\ head' + p = p
    OBVIOUS
  <2>2. ~(p >= allocation_size')
    BY <2>1
  <2> QED BY <2>1, <2>2 DEF Cell
<1> QED BY <1>1, <1>2

LEMMA FullRing ==
  ASSUME RingOK, allocation_size > 0, Succ(tail) = head
  PROVE  QueueSize = allocation_size - 1
BY DEF RingOK, QueueSize, Succ

LEMMA QueuePushGrows ==
  ASSUME QueueInv, NEW input \in Elements, QueuePush(input)
  PROVE  RingOK' /\ Grown(QueueSize, input)
<1>1. RingOK
  BY DEF QueueInv
<1>2. CASE allocation_size = 0
  <2>1. /\ array' = [c \in 0 .. FirstRing - 1 |-> IF c = 0 THEN input ELSE NoElement]
        /\ head' = 0 /\ tail' = 1 /\ allocation_size' = FirstRing
    BY <1>2 DEF QueuePush
  <2>2. QueueSize = 0
    BY <1>1, <1>2 DEF RingOK, QueueSize
  <2>3. RingOK'
    BY <2>1, QueueAssumption DEF RingOK
  <2>4. QueueSize' = 1 /\ \A p \in 0 .. 1 : Cell(p)' = p
    BY <2>1, QueueAssumption, NewRing
  <2> QED BY <2>1, <2>2, <2>3, <2>4, QueueAssumption DEF Grown
<1>3. CASE allocation_size > 0 /\ Succ(tail) # head
  <2>1. /\ array' = [array EXCEPT ![tail] = input]
        /\ tail' = Succ(tail) /\ head' = head /\ allocation_size' = allocation_size
    BY <1>1, <1>3 DEF QueuePush, RingOK
  <2>2. /\ QueueSize' = QueueSize + 1 /\ QueueSize < allocation_size - 1
        /\ tail' \in 0 .. allocation_size - 1
        /\ \A p \in 0 .. allocation_size - 1 : Cell(p)' = Cell(p)
    BY <1>1, <1>3, <2>1, TailOn
  <2>3. RingOK'
    BY <1>1, <1>3, <2>1, <2>2 DEF RingOK
  <2>4. QueueSize \in Nat /\ Cell(QueueSize) = tail
    BY <1>1, <1>3, Cells
  <2>5. ASSUME NEW p \in 0 .. QueueSize
        PROVE  array'[Cell(p)'] = IF p = QueueSize THEN input ELSE array[Cell(p)]
    <3>1. p \in 0 .. allocation_size - 1 /\ Cell(p)' = Cell(p)
      BY <1>1, <2>2, <2>4 DEF RingOK
    <3>2. Cell(p) \in DOMAIN array
      BY <1>1, <1>3, <3>1, Cells DEF RingOK
    <3>3. Cell(p) = tail <=> p = QueueSize
      BY <1>1, <1>3, <2>2, <2>4, <3>1, Cells
    <3> QED BY <1>1, <2>1, <3>1, <3>2, <3>3 DEF RingOK
  <2> QED BY <2>2, <2>3, <2>4, <2>5 DEF Grown
<1>4. CASE allocation_size > 0 /\ Succ(tail) = head
  <2>1. /\ array' = Unrolled([array EXCEPT ![tail] = input], allocation_size, 2 * allocation_size)
        /\ head' = 0 /\ tail' = allocation_size
        /\ allocation_size' = 2 * allocation_size
    BY <1>1, <1>4 DEF QueuePush, RingOK
  <2>2. QueueSize = allocation_size - 1 /\ Cell(QueueSize) = tail
    BY <1>1, <1>4, FullRing, Cells
  <2>3. QueueSize' = allocation_size /\ \A p \in 0 .. allocation_size : Cell(p)' = p
    BY <1>1, <1>4, <2>1, NewRing DEF RingOK
  <2>4. ASSUME NEW c \in 0 .. allocation_size - 1
        PROVE  array'[c] = IF c = QueueSize THEN input ELSE array[Cell(c)]
    <3>1. Cell(c) \in DOMAIN array /\ (Cell(c) = tail <=> c = QueueSize)
      BY <1>1, <1>4, <2>2, Cells DEF RingOK
    <3> QED BY <1>1, <2>1, <3>1 DEF Unrolled, RingOK
  <2>5. \A c \in 0 .. allocation_size - 1 : Cell(c) \in 0 .. allocation_size - 1
    BY <1>1, <1>4, Cells
  <2>6. RingOK'
    <3>1. array' \in [0 .. 2 * allocation_size - 1 -> Elements \union {NoElement}]
      BY <1>1, <2>1, <2>5, SMTT(30) DEF Unrolled, RingOK
    <3>2. allocation_size \in Nat \ {0}
      BY <1>1, <1>4 DEF RingOK
    <3>3. 2 * allocation_size \in Nat \ {0} /\ allocation_size < 2 * allocation_size
      BY <3>2
    <3>4. allocation_size' # 0 /\ head' < allocation_size' /\ tail' < allocation_size'
      BY <2>1, <3>2, <3>3
    <3>5. array' \in [0 .. allocation_size' - 1 -> Elements \union {NoElement}]
      BY <2>1, <3>1
    <3> QED BY <2>1, <3>2, <3>3, <3>4, <3>5 DEF RingOK
  <2>7. \A p \in 0 .. QueueSize : array'[Cell(p)'] = IF p = QueueSize THEN input ELSE array[Cell(p)]
    BY <1>1, <2>2, <2>3, <2>4 DEF RingOK
  <2>8. QueueSize \in 0 .. QueueSize /\ QueueSize' = QueueSize + 1
    BY <1>1, <2>2, <2>3, <1>4 DEF RingOK
  <2> QED BY <2>6, <2>7, <2>8 DEF Grown
<1> QED BY <1>1, <1>2, <1>3, <1>4 DEF RingOK

LEMMA PushAtHeadGrows ==
  ASSUME QueueInv, NEW input \in Elements, NEW index \in Nat, PushAtHead(input, index)
  PROVE  RingOK' /\ Grown(index, input)
<1>1. RingOK /\ index < QueueSize
  BY DEF QueueInv, PushAtHead
<1>2. allocation_size \in Nat \ {0} /\ allocation_size > 0 /\ QueueSize \in 0 .. allocation_size - 1
  <2>1. allocation_size # 0
    BY <1>1 DEF RingOK, QueueSize
  <2>2. allocation_size \in Nat \ {0} /\ allocation_size > 0
    BY <1>1, <2>1 DEF RingOK
  <2> QED BY <1>1, <2>2, Cells
<1>3. CASE Succ(tail) # head
  <2>1. /\ array' = [c \in DOMAIN array |->
                       IF c = Cell(index) THEN input
                       ELSE IF \E p \in index + 1 .. QueueSize : c = Cell(p)
                         THEN array[Pred(c)] ELSE array[c]]
        /\ tail' = Succ(tail) /\ head' = head /\ allocation_size' = allocation_size
    BY <1>3 DEF PushAtHead
  <2>2. /\ QueueSize' = QueueSize + 1 /\ QueueSize < allocation_size - 1
        /\ tail' \in 0 .. allocation_size - 1
        /\ \A p \in 0 .. allocation_size - 1 : Cell(p)' = Cell(p)
    BY <1>1, <1>2, <1>3, <2>1, TailOn
  <2>3. ASSUME NEW c \in 0 .. allocation_size - 1, NEW p \in index + 1 .. QueueSize, c = Cell(p)
        PROVE  Pred(c) = Cell(p - 1) /\ Pred(c) \in DOMAIN array
    <3>1. p - 1 \in 0 .. allocation_size - 2 /\ p - 1 + 1 = p
      BY <1>2
    <3>2. Pred(Cell(p - 1 + 1)) = Cell(p - 1) /\ Cell(p - 1) \in 0 .. allocation_size - 1
      BY <1>1, <1>2, <3>1, Cells
    <3> QED BY <1>1, <2>3, <3>1, <3>2 DEF RingOK
  <2>4. RingOK'
    <3>1. array' \in [0 .. allocation_size - 1 -> Elements \union {NoElement}]
      BY <1>1, <2>1, <2>3 DEF RingOK
    <3> QED BY <1>1, <1>2, <2>1, <2>2, <3>1 DEF RingOK
  <2>5. ASSUME NEW p \in 0 .. QueueSize
        PROVE  array'[Cell(p)'] = IF p < index THEN array[Cell(p)]
                                  ELSE IF p = index THEN input ELSE array[Cell(p - 1)]
    <3>0. p \in 0 .. allocation_size - 1
      BY <1>2
    <3>1. Cell(p)' = Cell(p) /\ Cell(p) \in DOMAIN array
      BY <1>1, <1>2, <2>2, <3>0, Cells DEF RingOK
    <3>2. \A q \in 0 .. QueueSize : Cell(p) = Cell(q) <=> p = q
      BY <1>1, <1>2, <3>0, Cells
    <3>5. index \in 0 .. QueueSize
      BY <1>1, <1>2
    <3>6. (\E q \in index + 1 .. QueueSize : Cell(p) = Cell(q)) <=> p \in index + 1 .. QueueSize
      BY <3>2, <3>5
    <3>3. array'[Cell(p)] = IF p = index THEN input
                            ELSE IF p \in index + 1 .. QueueSize THEN array[Pred(Cell(p))]
                            ELSE array[Cell(p)]
      BY <2>1, <3>1, <3>2, <3>5, <3>6
    <3>4. p > index => Pred(Cell(p)) = Cell(p - 1)
      BY <1>1, <2>3, <3>1 DEF RingOK
    <3> QED BY <3>1, <3>3, <3>4
  <2> QED BY <1>1, <1>2, <2>2, <2>4, <2>5 DEF Grown
<1>4. CASE Succ(tail) = head
  <2>1. /\ array' = [c \in 0 .. 2 * allocation_size - 1 |->
                       IF c = index THEN input
                       ELSE IF c < index THEN array[Cell(c)]
                       ELSE IF c < allocation_size THEN array[Cell(c - 1)] ELSE NoElement]
        /\ head' = 0 /\ tail' = allocation_size
        /\ allocation_size' = 2 * allocation_size
    BY <1>4 DEF PushAtHead
  <2>2. QueueSize = allocation_size - 1
    BY <1>1, <1>2, <1>4, FullRing
  <2>3. QueueSize' = allocation_size /\ \A p \in 0 .. allocation_size : Cell(p)' = p
    BY <1>1, <1>2, <2>1, NewRing DEF RingOK
  <2>4. \A c \in 0 .. allocation_size - 1 : array[Cell(c)] \in Elements \union {NoElement}
    BY <1>1, <1>2, Cells DEF RingOK
  <2>5. RingOK'
    <3>1. array' \in [0 .. 2 * allocation_size - 1 -> Elements \union {NoElement}]
      BY <1>1, <1>2, <2>1, <2>4 DEF RingOK
    <3> QED BY <1>1, <1>2, <2>1, <3>1 DEF RingOK
  <2>6. \A p \in 0 .. QueueSize :
          array'[Cell(p)'] = IF p < index THEN array[Cell(p)]
                             ELSE IF p = index THEN input ELSE array[Cell(p - 1)]
    BY <1>1, <1>2, <2>1, <2>2, <2>3 DEF RingOK
  <2>7. index \in 0 .. QueueSize /\ QueueSize' = QueueSize + 1
    BY <1>1, <1>2, <2>2, <2>3
  <2> QED BY <2>5, <2>6, <2>7 DEF Grown
<1> QED BY <1>3, <1>4

\* The head a cell further: Pop and PopDeref.
LEMMA PopShrinks ==
  ASSUME QueueInv, head # tail, head' = Succ(head), tail' = tail,
         allocation_size' = allocation_size,
         array' \in [0 .. allocation_size - 1 -> Elements \union {NoElement}],
         \A c \in 0 .. allocation_size - 1 : c # head => array'[c] = array[c]
  PROVE  RingOK' /\ Shrunk(0)
<1>1. RingOK
  BY DEF QueueInv
<1>2. /\ QueueSize' = QueueSize - 1 /\ QueueSize > 0 /\ allocation_size > 0
      /\ head' \in 0 .. allocation_size - 1
      /\ \A p \in 0 .. allocation_size - 2 : Cell(p)' = Cell(p + 1)
  BY <1>1, HeadOn
<1>3. allocation_size \in Nat \ {0} /\ QueueSize \in 1 .. allocation_size - 1 /\ Cell(0) = head
  <2>1. allocation_size \in Nat \ {0}
    BY <1>1, <1>2 DEF RingOK
  <2>2. QueueSize \in 0 .. allocation_size - 1 /\ Cell(0) = head
    BY <1>1, <1>2, Cells
  <2> QED BY <1>2, <2>1, <2>2
<1>4. RingOK'
  <2>1. tail' \in Nat /\ tail' < allocation_size'
    BY <1>1, <1>2 DEF RingOK
  <2> QED BY <1>2, <1>3, <2>1 DEF RingOK
<1>5. ASSUME NEW p \in 0 .. QueueSize - 2 PROVE array'[Cell(p)'] = array[Cell(p + 1)]
  <2>1. p \in 0 .. allocation_size - 2 /\ p + 1 \in 0 .. allocation_size - 1 /\ p + 1 # 0
    BY <1>3
  <2>2. 0 \in 0 .. allocation_size - 1
    BY <1>3
  <2>3. Cell(p + 1) \in 0 .. allocation_size - 1 /\ Cell(p + 1) # head
    BY <1>1, <1>2, <1>3, <2>1, <2>2, Cells
  <2> QED BY <1>2, <2>1, <2>3
<1>6. \A p \in 0 .. QueueSize - 2 :
        array'[Cell(p)'] = IF p < 0 THEN array[Cell(p)] ELSE array[Cell(p + 1)]
  BY <1>3, <1>5
<1> QED BY <1>2, <1>3, <1>4, <1>6 DEF Shrunk

\* The tail a cell back, the positions behind index moved: PopTail, RemoveAtIndex.
LEMMA TailShrinks ==
  ASSUME QueueInv, head # tail, tail' = Pred(tail), head' = head,
         allocation_size' = allocation_size, NEW index \in 0 .. QueueSize - 1,
         array' \in [0 .. allocation_size - 1 -> Elements \union {NoElement}],
         \A p \in 0 .. QueueSize - 2 :
           array'[Cell(p)] = IF p < index THEN array[Cell(p)] ELSE array[Cell(p + 1)]
  PROVE  RingOK' /\ Shrunk(index)
<1>1. RingOK
  BY DEF QueueInv
<1>2. /\ QueueSize' = QueueSize - 1 /\ QueueSize > 0 /\ allocation_size > 0
      /\ tail' \in 0 .. allocation_size - 1
      /\ \A p \in 0 .. allocation_size - 1 : Cell(p)' = Cell(p)
  BY <1>1, TailBack
<1>3. allocation_size \in Nat \ {0} /\ QueueSize \in 1 .. allocation_size - 1
  <2>1. allocation_size \in Nat \ {0}
    BY <1>1, <1>2 DEF RingOK
  <2>2. QueueSize \in 0 .. allocation_size - 1
    BY <1>1, <1>2, Cells
  <2> QED BY <1>2, <2>1, <2>2
<1>4. RingOK'
  <2>1. head' \in Nat /\ head' < allocation_size'
    BY <1>1, <1>2 DEF RingOK
  <2> QED BY <1>2, <1>3, <2>1 DEF RingOK
<1>5. \A p \in 0 .. QueueSize - 2 : p \in 0 .. allocation_size - 1
  BY <1>3
<1> QED BY <1>2, <1>4, <1>5 DEF Shrunk

LEMMA RemoveAtIndexShrinks ==
  ASSUME QueueInv, NEW position \in Nat, RemoveAtIndex(position)
  PROVE  RingOK' /\ Shrunk(position)
<1>1. RingOK /\ position < QueueSize
  BY DEF QueueInv, RemoveAtIndex
<1>2. /\ array' = [c \in DOMAIN array |->
                    IF \E p \in position .. QueueSize - 2 : c = Cell(p) THEN array[Succ(c)] ELSE array[c]]
      /\ tail' = Pred(tail) /\ head' = head /\ allocation_size' = allocation_size
  BY DEF RemoveAtIndex
<1>3. head # tail /\ allocation_size # 0
  BY <1>1 DEF RingOK, QueueSize
<1>4. allocation_size \in Nat \ {0} /\ allocation_size > 0
  BY <1>1, <1>3 DEF RingOK
<1>5. QueueSize \in 1 .. allocation_size - 1 /\ position \in 0 .. QueueSize - 1
  BY <1>1, <1>4, Cells
<1>6. ASSUME NEW p \in 0 .. QueueSize - 2
      PROVE  /\ Cell(p) \in DOMAIN array /\ Succ(Cell(p)) = Cell(p + 1)
             /\ Cell(p + 1) \in DOMAIN array
             /\ \A q \in 0 .. QueueSize - 2 : Cell(p) = Cell(q) <=> p = q
  <2>1. /\ p \in 0 .. allocation_size - 1 /\ p + 1 \in 0 .. allocation_size - 1
        /\ p \in 0 .. allocation_size - 2
        /\ \A q \in 0 .. QueueSize - 2 : q \in 0 .. allocation_size - 1
    BY <1>4, <1>5
  <2>2. Cell(p) \in 0 .. allocation_size - 1 /\ Cell(p + 1) \in 0 .. allocation_size - 1
    BY <1>1, <1>4, <2>1, Cells
  <2>3. Succ(Cell(p)) = Cell(p + 1)
    BY <1>1, <1>4, <2>1, Cells
  <2>4. \A q \in 0 .. QueueSize - 2 : Cell(p) = Cell(q) <=> p = q
    BY <1>1, <1>4, <2>1, Cells
  <2> QED BY <1>1, <2>2, <2>3, <2>4 DEF RingOK
<1>7. array' \in [0 .. allocation_size - 1 -> Elements \union {NoElement}]
  <2>1. ASSUME NEW c \in DOMAIN array, NEW p \in position .. QueueSize - 2, c = Cell(p)
        PROVE  Succ(c) \in DOMAIN array
    BY <1>5, <1>6, <2>1
  <2> QED BY <1>1, <1>2, <2>1 DEF RingOK
<1>8. ASSUME NEW p \in 0 .. QueueSize - 2
      PROVE  array'[Cell(p)] = IF p < position THEN array[Cell(p)] ELSE array[Cell(p + 1)]
  <2>1. (\E q \in position .. QueueSize - 2 : Cell(p) = Cell(q)) <=> ~(p < position)
    BY <1>5, <1>6
  <2> QED BY <1>2, <1>6, <2>1
<1> QED BY <1>2, <1>3, <1>5, <1>7, <1>8, TailShrinks

\* The same positions in a ring of another size: QueueCopy and Compress.
LEMMA RefitKeeps ==
  ASSUME QueueInv, NEW extent \in Nat, QueueSize < extent, allocation_size > 0, Refit(extent)
  PROVE  RingOK' /\ Unmoved
<1>1. RingOK /\ QueueSize \in 0 .. allocation_size - 1
  BY Cells DEF QueueInv
<1>2. array' = Unrolled(array, QueueSize, extent) /\ head' = 0 /\ tail' = QueueSize /\ allocation_size' = extent
  BY DEF Refit
<1>3. QueueSize \in Nat /\ \A p \in 0 .. QueueSize - 1 : array[Cell(p)] \in Elements
  BY <1>1 DEF QueueInv, RingOK
<1>4. QueueSize' = QueueSize /\ \A p \in 0 .. QueueSize : Cell(p)' = p
  BY <1>2, <1>3, NewRing
<1>5. \A c \in 0 .. QueueSize - 1 : c \in 0 .. extent - 1 /\ array'[c] = array[Cell(c)]
  BY <1>2, <1>3 DEF Unrolled
<1>6. array' \in [0 .. extent - 1 -> Elements \union {NoElement}]
  BY <1>2, <1>3 DEF Unrolled
<1>7. RingOK'
  <2>1. extent # 0 /\ head' < extent /\ tail' < extent /\ head' \in Nat /\ tail' \in Nat
    BY <1>2, <1>3
  <2> QED BY <1>2, <1>6, <2>1 DEF RingOK
<1> QED BY <1>3, <1>4, <1>5, <1>7 DEF Unmoved

\* An empty ring of any size.
LEMMA EmptyRingIsEmpty ==
  ASSUME head' = 0, tail' = 0, allocation_size' \in Nat,
         array' \in [0 .. allocation_size' - 1 -> Elements \union {NoElement}]
  PROVE  QueueInv' /\ Content' = << >>
<1>1. RingOK'
  <2>1. allocation_size' # 0 => 0 < allocation_size'
    OBVIOUS
  <2> QED BY <2>1 DEF RingOK
<1>2. QueueSize' = 0
  BY DEF QueueSize
<1>3. QueueInv'
  BY <1>1, <1>2 DEF QueueInv
<1>4. Content' \in Seq(Elements) /\ Len(Content') = 0
  BY <1>2, <1>3, PrimedContent DEF IsContent
<1> QED BY <1>3, <1>4, EmptySeq

-----------------------------------------------------------------------------
(***************************************************************************)
(* The steps of the queue as steps of its promise.                         *)
(***************************************************************************)
LEMMA GrownPromised ==
  ASSUME QueueInv, RingOK', NEW index, NEW e, Grown(index, e)
  PROVE  QueueInv' /\ Promise!Next
<1>1. /\ QueueInv' /\ index \in 0 .. Len(Content) /\ e \in Elements
      /\ Content' = Put(Content, index, e)
  BY GrownPuts
<1>2. Content' = Promise!Inserted(index, e)
  BY <1>1 DEF Put, Promise!Inserted
<1> QED BY <1>1, <1>2 DEF Promise!Next

LEMMA ShrunkPromised ==
  ASSUME QueueInv, RingOK', NEW index, Shrunk(index)
  PROVE  QueueInv' /\ Promise!Next
<1>1. QueueInv' /\ index \in 0 .. Len(Content) - 1 /\ Content' = Taken(Content, index)
  BY ShrunkTakes
<1>2. Content' = Promise!Removed(index)
  BY <1>1 DEF Taken, Promise!Removed
<1> QED BY <1>1, <1>2 DEF Promise!Next

LEMMA QueueStep ==
  ASSUME QueueInv, [QueueNext]_queueVars
  PROVE  QueueInv' /\ [Promise!Next]_Content
<1>1. RingOK
  BY DEF QueueInv
<1>2. ASSUME NEW input \in Elements, QueuePush(input)
      PROVE  QueueInv' /\ Promise!Next
  BY <1>2, QueuePushGrows, GrownPromised
<1>3. ASSUME NEW input \in Elements, NEW index \in 0 .. MaxRing - 1, PushAtHead(input, index)
      PROVE  QueueInv' /\ Promise!Next
  <2>1. index \in Nat
    BY QueueAssumption
  <2> QED BY <1>3, <2>1, PushAtHeadGrows, GrownPromised
<1>4. CASE QueuePop \/ PopDeref
  <2>1. /\ head # tail /\ head' = Succ(head) /\ tail' = tail /\ allocation_size' = allocation_size
        /\ array' \in {array, [array EXCEPT ![head] = NoElement]}
    BY <1>4 DEF QueuePop, PopDeref, IsEmpty
  <2>2. /\ array' \in [0 .. allocation_size - 1 -> Elements \union {NoElement}]
        /\ \A c \in 0 .. allocation_size - 1 : c # head => array'[c] = array[c]
    BY <1>1, <2>1 DEF RingOK
  <2> QED BY <2>1, <2>2, PopShrinks, ShrunkPromised
<1>5. CASE PopTail
  <2>1. /\ head # tail /\ tail' = Pred(tail) /\ head' = head /\ array' = array
        /\ allocation_size' = allocation_size
    BY <1>5 DEF PopTail, IsEmpty
  <2>2. QueueSize \in Nat /\ QueueSize > 0
    BY <1>1, <2>1, TailBack, ContentIsSeq DEF IsContent
  <2>3. /\ QueueSize - 1 \in 0 .. QueueSize - 1
        /\ array' \in [0 .. allocation_size - 1 -> Elements \union {NoElement}]
        /\ \A p \in 0 .. QueueSize - 2 :
             array'[Cell(p)] = IF p < QueueSize - 1 THEN array[Cell(p)] ELSE array[Cell(p + 1)]
    BY <1>1, <2>1, <2>2 DEF RingOK
  <2>4. RingOK' /\ Shrunk(QueueSize - 1)
    BY <2>1, <2>3, TailShrinks
  <2> QED BY <2>4, ShrunkPromised
<1>6. ASSUME NEW position \in 0 .. MaxRing - 1, RemoveAtIndex(position)
      PROVE  QueueInv' /\ Promise!Next
  <2>1. position \in Nat
    BY QueueAssumption
  <2> QED BY <1>6, <2>1, RemoveAtIndexShrinks, ShrunkPromised
<1>7. CASE QueueClear
  <2>1. head' = 0 /\ tail' = 0 /\ allocation_size' \in Nat
    BY <1>1, <1>7 DEF QueueClear, RingOK
  <2>2. array' \in [0 .. allocation_size' - 1 -> Elements \union {NoElement}]
    <3>1. CASE allocation_size > KeptRing
      BY <1>7, <3>1 DEF QueueClear
    <3>2. CASE ~(allocation_size > KeptRing)
      BY <1>1, <1>7, <3>2 DEF QueueClear, RingOK
    <3> QED BY <3>1, <3>2
  <2> QED BY <2>1, <2>2, EmptyRingIsEmpty DEF Promise!Next
<1>8. CASE QueueCopy
  <2>1. QueueSize > 0 /\ Refit(QueueSize + 1) /\ QueueSize \in Nat
    BY <1>8, ContentIsSeq DEF QueueCopy, IsContent
  <2>2. allocation_size > 0
    BY <1>1, <2>1 DEF RingOK, QueueSize
  <2> QED BY <2>1, <2>2, RefitKeeps, UnmovedStutters
<1>9. CASE Compress
  <2>1. QueueSize \in Nat
    BY ContentIsSeq DEF IsContent
  <2>2. PICK extent \in QueueSize + 1 .. 2 * QueueSize + 1 : Refit(extent)
    BY <1>9 DEF Compress
  <2>3. extent \in Nat /\ QueueSize < extent /\ allocation_size > 0
    BY <1>9, <2>1 DEF Compress
  <2> QED BY <2>2, <2>3, RefitKeeps, UnmovedStutters
<1>10. ASSUME NEW extent \in 0 .. FirstRing, ClearAndForceAllocation(extent)
       PROVE  QueueInv' /\ Promise!Next
  <2>1. /\ head' = 0 /\ tail' = 0 /\ allocation_size' = extent /\ extent \in Nat
        /\ array' = [c \in 0 .. extent - 1 |-> NoElement]
    BY <1>10, QueueAssumption DEF ClearAndForceAllocation
  <2>2. array' \in [0 .. allocation_size' - 1 -> Elements \union {NoElement}]
    BY <2>1
  <2> QED BY <2>1, <2>2, EmptyRingIsEmpty DEF Promise!Next
<1>11. CASE UNCHANGED queueVars
  <2>1. RingOK' /\ Unmoved
    BY <1>1, <1>11 DEF queueVars, RingOK, Unmoved, QueueSize, Cell
  <2> QED BY <2>1, UnmovedStutters
<1> QED
  BY <1>2, <1>3, <1>4, <1>5, <1>6, <1>7, <1>8, <1>9, <1>10, <1>11 DEF QueueNext

LEMMA QueueStart == QueueInit => QueueInv /\ Promise!Init
<1> SUFFICES ASSUME QueueInit PROVE QueueInv /\ Promise!Init
  OBVIOUS
<1>1. QueueSize = 0
  BY DEF QueueInit, QueueSize
<1>2. RingOK
  BY DEF QueueInit, RingOK
<1>3. QueueInv
  BY <1>1, <1>2 DEF QueueInv
<1>4. Content = << >>
  BY <1>1, <1>3, ContentIsSeq, EmptySeq DEF IsContent
<1> QED BY <1>3, <1>4 DEF Promise!Init

\* The indices are inside the ring and no cell between them is a fresh one.
THEOREM QueueInvariance == QueueSpec => []QueueInv
<1>1. QueueInv /\ [QueueNext]_queueVars => QueueInv'
  BY QueueStep
<1> QED BY <1>1, QueueStart, PTL DEF QueueSpec

\* IsASequence: Queue of DS_Queue.h, through any calls, wraps and reallocations,
\* is the sequence of QueuePromise.
THEOREM QueueCorrect == QueueSpec => IsASequence
<1>1. QueueInv /\ [QueueNext]_queueVars => [Promise!Next]_Content
  BY QueueStep
<1> QED BY <1>1, QueueStart, QueueInvariance, PTL DEF QueueSpec, IsASequence, Promise!Spec


-----------------------------------------------------------------------------
(***************************************************************************)
(* MemoryPool: both rings of pages, numbered from a page on.               *)
(***************************************************************************)
PoolPages == [availableStackSize : Int, next : Int, prev : Int]

\* The pages of a ring are numbered from one of them on: c[n] is c[0] again.
RingOf(c, n, pages, P) ==
  /\ n \in Nat /\ n > 0 /\ c \in [0 .. n -> P] /\ c[n] = c[0]
  /\ \A i \in 0 .. n - 1 : pages[c[i]].next = c[i + 1] /\ pages[c[i + 1]].prev = c[i]
  /\ \A i, j \in 0 .. n - 1 : c[i] = c[j] => i = j
  /\ \A p \in P : \E i \in 0 .. n - 1 : c[i] = p

\* Pages of P have the same neighbours.
SameLinks(P, pages, after) ==
  \A q \in P : after[q].next = pages[q].next /\ after[q].prev = pages[q].prev
SameStacks(D, pages, after) ==
  \A q \in D : after[q].availableStackSize = pages[q].availableStackSize

\* The links after the first page of a ring is gone, and with p before the first.
FirstGone(c, n, pages, P, after) ==
  \A q \in P \ {c[0]} :
    /\ after[q].next = IF q = c[n - 1] THEN c[1] ELSE pages[q].next
    /\ after[q].prev = IF q = c[1] THEN c[n - 1] ELSE pages[q].prev
LastCome(c, n, pages, P, p, after) ==
  /\ \A q \in P : /\ after[q].next = IF q = c[n - 1] THEN p ELSE pages[q].next
                  /\ after[q].prev = IF q = c[0] THEN p ELSE pages[q].prev
  /\ after[p].next = c[0] /\ after[p].prev = c[n - 1]

\* A ring may be numbered from any of its pages on.
LEMMA NumberedFromNext ==
  ASSUME NEW c, NEW n, NEW pages, NEW P, RingOf(c, n, pages, P)
  PROVE  \E d : RingOf(d, n, pages, P) /\ d[0] = c[1]
<1> DEFINE d == [i \in 0 .. n |-> IF i = n THEN c[1] ELSE c[i + 1]]
<1>1. n \in Nat /\ n > 0
  BY DEF RingOf
<1>2. /\ c \in [0 .. n -> P] /\ c[n] = c[0]
      /\ \A i \in 0 .. n - 1 : pages[c[i]].next = c[i + 1] /\ pages[c[i + 1]].prev = c[i]
      /\ \A i, j \in 0 .. n - 1 : c[i] = c[j] => i = j
      /\ \A p \in P : \E i \in 0 .. n - 1 : c[i] = p
  BY DEF RingOf
<1>3. \A i \in 0 .. n - 1 : i + 1 \in 0 .. n /\ d[i] = c[i + 1]
  BY <1>1
<1>4. d[n] = c[1] /\ d[0] = c[1] /\ d \in [0 .. n -> P]
  <2>1. 1 \in 0 .. n /\ n \in 0 .. n /\ 0 \in 0 .. n - 1 /\ 0 + 1 = 1
    BY <1>1
  <2>2. d[n] = c[1] /\ d[0] = c[1]
    BY <1>3, <2>1
  <2>3. ASSUME NEW i \in 0 .. n PROVE d[i] \in P
    <3>1. CASE i = n
      BY <1>2, <2>1, <2>2, <3>1
    <3>2. CASE i # n
      <4>1. i \in 0 .. n - 1
        BY <1>1, <3>2
      <4>2. i + 1 \in 0 .. n /\ d[i] = c[i + 1]
        BY <1>3, <4>1
      <4> HIDE DEF d
      <4> QED BY <1>2, <4>2
    <3> QED BY <3>1, <3>2
  <2> QED BY <2>2, <2>3
<1> HIDE DEF d
\* Which number an element has in the old numbering.
<1>5. \A i \in 0 .. n - 1 : \E x \in 0 .. n - 1 :
        d[i] = c[x] /\ x = IF i + 1 = n THEN 0 ELSE i + 1
  <2> SUFFICES ASSUME NEW i \in 0 .. n - 1
               PROVE  \E x \in 0 .. n - 1 : d[i] = c[x] /\ x = IF i + 1 = n THEN 0 ELSE i + 1
    OBVIOUS
  <2>1. CASE i + 1 = n
    <3>1. 0 \in 0 .. n - 1
      BY <1>1
    <3> QED BY <1>2, <1>3, <2>1, <3>1
  <2>2. CASE i + 1 # n
    <3>1. i + 1 \in 0 .. n - 1
      BY <1>1, <2>2
    <3> QED BY <1>3, <2>2, <3>1
  <2> QED BY <2>1, <2>2
<1>6. ASSUME NEW i \in 0 .. n - 1
      PROVE  pages[d[i]].next = d[i + 1] /\ pages[d[i + 1]].prev = d[i]
  <2>1. PICK x \in 0 .. n - 1 : d[i] = c[x] /\ x = IF i + 1 = n THEN 0 ELSE i + 1
    BY <1>5
  <2>2. d[i + 1] = c[x + 1]
    <3>1. CASE i + 1 = n
      <4>1. x + 1 = 1
        BY <2>1, <3>1
      <4> QED BY <1>4, <3>1, <4>1
    <3>2. CASE i + 1 # n
      <4>1. i + 1 \in 0 .. n - 1 /\ x = i + 1
        BY <1>1, <2>1, <3>2
      <4> QED BY <1>3, <4>1
    <3> QED BY <3>1, <3>2
  <2> QED BY <1>2, <2>1, <2>2
<1>7. ASSUME NEW i \in 0 .. n - 1, NEW j \in 0 .. n - 1, d[i] = d[j] PROVE i = j
  <2>1. PICK x \in 0 .. n - 1 : d[i] = c[x] /\ x = IF i + 1 = n THEN 0 ELSE i + 1
    BY <1>5
  <2>2. PICK y \in 0 .. n - 1 : d[j] = c[y] /\ y = IF j + 1 = n THEN 0 ELSE j + 1
    BY <1>5
  <2>3. c[x] = c[y]
    BY <1>7, <2>1, <2>2
  <2>4. x = y
    BY <1>2, <2>3
  <2> QED BY <1>1, <2>1, <2>2, <2>4
<1>8. ASSUME NEW p \in P PROVE \E i \in 0 .. n - 1 : d[i] = p
  <2>1. PICK x \in 0 .. n - 1 : c[x] = p
    BY <1>2
  <2>2. CASE x = 0
    <3>1. n - 1 \in 0 .. n - 1 /\ (n - 1) + 1 = n
      BY <1>1
    <3>2. d[n - 1] = c[n]
      <4>1. d[n - 1] = c[(n - 1) + 1]
        BY <1>3, <3>1
      <4> QED BY <3>1, <4>1
    <3> QED BY <1>2, <2>1, <2>2, <3>1, <3>2
  <2>3. CASE x # 0
    <3>1. x - 1 \in 0 .. n - 1 /\ (x - 1) + 1 = x
      BY <1>1, <2>3
    <3>2. d[x - 1] = c[x]
      <4>1. d[x - 1] = c[(x - 1) + 1]
        BY <1>3, <3>1
      <4> QED BY <3>1, <4>1
    <3> QED BY <2>1, <3>1, <3>2
  <2> QED BY <2>2, <2>3
<1>9. RingOf(d, n, pages, P)
  BY <1>1, <1>4, <1>6, <1>7, <1>8 DEF RingOf
<1> QED BY <1>4, <1>9

LEMMA NumberedFrom ==
  ASSUME NEW c, NEW n, NEW pages, NEW P, RingOf(c, n, pages, P), NEW p \in P
  PROVE  \E d : RingOf(d, n, pages, P) /\ d[0] = p
<1> DEFINE S == {i \in Nat : \E d : RingOf(d, n, pages, P) /\ d[0] = c[i]}
<1>1. 0 \in S
  OBVIOUS
<1>2. ASSUME NEW i \in 0 .. n - 1, i \in S PROVE i + 1 \in S
  <2>1. PICK d : RingOf(d, n, pages, P) /\ d[0] = c[i]
    BY <1>2
  <2>2. PICK e : RingOf(e, n, pages, P) /\ e[0] = d[1]
    BY <2>1, NumberedFromNext
  <2>3. d[1] = c[i + 1]
    <3>1. 0 \in 0 .. n - 1 /\ 0 + 1 = 1
      BY DEF RingOf
    <3>2. pages[d[0]].next = d[0 + 1]
      BY <2>1, <3>1 DEF RingOf
    <3>3. pages[c[i]].next = c[i + 1]
      BY DEF RingOf
    <3> QED BY <2>1, <3>1, <3>2, <3>3
  <2>4. i + 1 \in Nat
    BY DEF RingOf
  <2> QED BY <2>2, <2>3, <2>4
<1>3. PICK i \in 0 .. n - 1 : c[i] = p
  BY DEF RingOf
<1>4. n \in Nat /\ n > 0
  BY DEF RingOf
<1>5. 0 .. n \subseteq S
  <2> HIDE DEF S
  <2> QED BY <1>1, <1>2, <1>4, UpToInSet
<1>6. i \in S
  <2>1. i \in 0 .. n
    BY <1>4
  <2> HIDE DEF S
  <2> QED BY <1>5, <2>1
<1> QED BY <1>3, <1>6
\* What links the pages of a ring is all that matters to it.
LEMMA SameRing ==
  ASSUME NEW c, NEW n, NEW pages, NEW P, RingOf(c, n, pages, P), NEW after,
         SameLinks(P, pages, after)
  PROVE  RingOf(c, n, after, P)
<1>1. n \in Nat /\ n > 0
  BY DEF RingOf
<1>2. \A i \in 0 .. n - 1 : c[i] \in P /\ c[i + 1] \in P
  <2>1. \A i \in 0 .. n - 1 : i \in 0 .. n /\ i + 1 \in 0 .. n
    BY <1>1
  <2> QED BY <2>1 DEF RingOf
<1>3. \A i \in 0 .. n - 1 : after[c[i]].next = c[i + 1] /\ after[c[i + 1]].prev = c[i]
  BY <1>2 DEF RingOf, SameLinks
<1> QED BY <1>3 DEF RingOf

\* A ring without its first page.
LEMMA RingWithout ==
  ASSUME NEW c, NEW n, NEW pages, NEW P, RingOf(c, n, pages, P), n > 1, NEW after,
         FirstGone(c, n, pages, P, after)
  PROVE  \E d : RingOf(d, n - 1, after, P \ {c[0]}) /\ d[0] = c[1]
<1> DEFINE m == n - 1
           Q == P \ {c[0]}
           d == [i \in 0 .. m |-> IF i = m THEN c[1] ELSE c[i + 1]]
<1>1. n \in Nat /\ m \in Nat /\ m > 0 /\ m + 1 = n
  BY DEF RingOf
<1>2. /\ c \in [0 .. n -> P] /\ c[n] = c[0]
      /\ \A i \in 0 .. n - 1 : pages[c[i]].next = c[i + 1] /\ pages[c[i + 1]].prev = c[i]
      /\ \A i, j \in 0 .. n - 1 : c[i] = c[j] => i = j
      /\ \A p \in P : \E i \in 0 .. n - 1 : c[i] = p
  BY DEF RingOf
<1>3. \A i \in 0 .. m - 1 : i + 1 \in 1 .. m /\ d[i] = c[i + 1]
  BY <1>1
<1>4. \A x \in 1 .. m : x \in 0 .. n - 1 /\ x \in 0 .. n /\ c[x] \in Q
  <2> SUFFICES ASSUME NEW x \in 1 .. m PROVE x \in 0 .. n - 1 /\ x \in 0 .. n /\ c[x] \in Q
    OBVIOUS
  <2>1. x \in 0 .. n - 1 /\ x \in 0 .. n /\ 0 \in 0 .. n - 1 /\ x # 0
    BY <1>1
  <2>2. c[x] # c[0] /\ c[x] \in P
    BY <1>2, <2>1
  <2> QED BY <2>1, <2>2
<1>5. d[m] = c[1] /\ d[0] = c[1] /\ d \in [0 .. m -> Q]
  <2>1. 1 \in 1 .. m /\ m \in 0 .. m /\ 0 \in 0 .. m - 1 /\ 0 + 1 = 1
    BY <1>1
  <2>2. d[m] = c[1] /\ d[0] = c[1]
    BY <1>3, <2>1
  <2>3. ASSUME NEW i \in 0 .. m PROVE d[i] \in Q
    <3>1. CASE i = m
      <4> HIDE DEF d, Q, m
      <4> QED BY <1>4, <2>1, <2>2, <3>1
    <3>2. CASE i # m
      <4>1. i \in 0 .. m - 1
        BY <1>1, <3>2
      <4>2. i + 1 \in 1 .. m /\ d[i] = c[i + 1]
        BY <1>3, <4>1
      <4> HIDE DEF d, Q, m
      <4> QED BY <1>4, <4>2
    <3> QED BY <3>1, <3>2
  <2> QED BY <2>2, <2>3
<1> HIDE DEF d
<1>6. ASSUME NEW x \in 1 .. m, x < m
      PROVE  after[c[x]].next = c[x + 1] /\ after[c[x + 1]].prev = c[x]
  <2>1. /\ x + 1 \in 1 .. m /\ x \in 0 .. n - 1 /\ x + 1 \in 0 .. n - 1
        /\ n - 1 \in 0 .. n - 1 /\ x # n - 1 /\ 1 \in 0 .. n - 1 /\ x + 1 # 1
    BY <1>1, <1>6
  <2>2. c[x] \in Q /\ c[x + 1] \in Q
    BY <1>4, <2>1
  <2>3. c[x] # c[n - 1] /\ c[x + 1] # c[1]
    BY <1>2, <2>1
  <2>4. pages[c[x]].next = c[x + 1] /\ pages[c[x + 1]].prev = c[x]
    BY <1>2, <2>1
  <2> QED BY <2>2, <2>3, <2>4 DEF FirstGone
<1>7. after[c[m]].next = c[1] /\ after[c[1]].prev = c[m]
  <2>1. m \in 1 .. m /\ 1 \in 1 .. m /\ n - 1 = m
    BY <1>1
  <2>2. c[m] \in Q /\ c[1] \in Q
    BY <1>4, <2>1
  <2> QED BY <2>1, <2>2 DEF FirstGone
<1>8. ASSUME NEW i \in 0 .. m - 1 PROVE after[d[i]].next = d[i + 1] /\ after[d[i + 1]].prev = d[i]
  <2>1. i + 1 \in 1 .. m /\ d[i] = c[i + 1]
    BY <1>3
  <2>2. CASE i + 1 = m
    BY <1>5, <1>7, <2>1, <2>2
  <2>3. CASE i + 1 # m
    <3>1. i + 1 \in 0 .. m - 1 /\ i + 1 < m
      BY <1>1, <2>1, <2>3
    <3>2. d[i + 1] = c[(i + 1) + 1]
      BY <1>3, <3>1
    <3> QED BY <1>6, <2>1, <3>1, <3>2
  <2> QED BY <2>2, <2>3
<1>9. ASSUME NEW i \in 0 .. m - 1, NEW j \in 0 .. m - 1, d[i] = d[j] PROVE i = j
  <2>1. i + 1 \in 1 .. m /\ j + 1 \in 1 .. m /\ c[i + 1] = c[j + 1]
    BY <1>3, <1>9
  <2>2. i + 1 = j + 1
    BY <1>2, <1>4, <2>1
  <2> QED BY <1>1, <2>2
<1>10. ASSUME NEW p \in Q PROVE \E i \in 0 .. m - 1 : d[i] = p
  <2>1. PICK x \in 0 .. n - 1 : c[x] = p
    BY <1>2
  <2>2. x - 1 \in 0 .. m - 1 /\ (x - 1) + 1 = x
    <3>1. x # 0
      BY <2>1
    <3> QED BY <1>1, <3>1
  <2>3. d[x - 1] = c[(x - 1) + 1]
    BY <1>3, <2>2
  <2> QED BY <2>1, <2>2, <2>3
<1>11. RingOf(d, m, after, Q)
  <2> HIDE DEF m, Q
  <2> QED BY <1>1, <1>5, <1>8, <1>9, <1>10 DEF RingOf
<1> QED BY <1>5, <1>11

\* A ring with another page, before its first.
LEMMA RingWith ==
  ASSUME NEW c, NEW n, NEW pages, NEW P, RingOf(c, n, pages, P), NEW p, p \notin P, NEW after,
         LastCome(c, n, pages, P, p, after)
  PROVE  \E d : RingOf(d, n + 1, after, P \union {p}) /\ d[0] = c[0]
<1> DEFINE m == n + 1
           Q == P \union {p}
           d == [i \in 0 .. m |-> IF i < n THEN c[i] ELSE IF i = n THEN p ELSE c[0]]
<1>1. n \in Nat /\ n > 0 /\ m \in Nat /\ m > 0 /\ m - 1 = n
  BY DEF RingOf
<1>2. /\ c \in [0 .. n -> P] /\ c[n] = c[0]
      /\ \A i \in 0 .. n - 1 : pages[c[i]].next = c[i + 1] /\ pages[c[i + 1]].prev = c[i]
      /\ \A i, j \in 0 .. n - 1 : c[i] = c[j] => i = j
      /\ \A q \in P : \E i \in 0 .. n - 1 : c[i] = q
  BY DEF RingOf
<1>3. \A i \in 0 .. n - 1 : d[i] = c[i] /\ c[i] \in P
  <2>1. \A i \in 0 .. n - 1 : i \in 0 .. n /\ i \in 0 .. m /\ i < n
    BY <1>1
  <2> QED BY <1>2, <2>1
<1>4. d[n] = p /\ d[m] = c[0] /\ d[0] = c[0]
  <2>1. n \in 0 .. m /\ m \in 0 .. m /\ 0 \in 0 .. n - 1 /\ ~(n < n) /\ ~(m < n) /\ m # n
    BY <1>1
  <2> QED BY <1>3, <2>1
<1> HIDE DEF d
<1>5. d \in [0 .. m -> Q]
  <2>1. ASSUME NEW i \in 0 .. m PROVE d[i] \in Q
    <3>1. CASE i \in 0 .. n - 1
      BY <1>3, <3>1
    <3>2. CASE i \notin 0 .. n - 1
      <4>1. i = n \/ i = m
        BY <1>1, <3>2
      <4>2. c[0] \in P
        <5>1. 0 \in 0 .. n - 1
          BY <1>1
        <5> QED BY <1>3, <5>1
      <4> HIDE DEF m
      <4> QED BY <1>4, <4>1, <4>2
    <3> QED BY <3>1, <3>2
  <2> QED BY <2>1 DEF d
<1>6. ASSUME NEW i \in 0 .. m - 1 PROVE after[d[i]].next = d[i + 1] /\ after[d[i + 1]].prev = d[i]
  <2>1. CASE i < n - 1
    <3>1. i \in 0 .. n - 1 /\ i + 1 \in 0 .. n - 1 /\ n - 1 \in 0 .. n - 1 /\ 0 \in 0 .. n - 1
          /\ i # n - 1 /\ i + 1 # 0
      BY <1>1, <2>1
    <3>2. /\ d[i] = c[i] /\ d[i + 1] = c[i + 1] /\ c[i] \in P /\ c[i + 1] \in P
          /\ c[i] # c[n - 1] /\ c[i + 1] # c[0]
      BY <1>2, <1>3, <3>1
    <3>3. pages[c[i]].next = c[i + 1] /\ pages[c[i + 1]].prev = c[i]
      BY <1>2, <3>1
    <3> QED BY <3>2, <3>3 DEF LastCome
  <2>2. CASE i = n - 1
    <3>1. i \in 0 .. n - 1 /\ i + 1 = n
      BY <1>1, <2>2
    <3>2. d[i] = c[n - 1] /\ c[n - 1] \in P /\ d[i + 1] = p
      BY <1>3, <1>4, <2>2, <3>1
    <3> QED BY <3>2 DEF LastCome
  <2>3. CASE i = n
    <3>1. i + 1 = m /\ 0 \in 0 .. n - 1
      BY <1>1, <2>3
    <3>2. d[i] = p /\ d[i + 1] = c[0] /\ c[0] \in P
      BY <1>3, <1>4, <2>3, <3>1
    <3> QED BY <3>2 DEF LastCome
  <2>4. i < n - 1 \/ i = n - 1 \/ i = n
    BY <1>1
  <2> QED BY <2>1, <2>2, <2>3, <2>4
<1>7. ASSUME NEW i \in 0 .. m - 1, NEW j \in 0 .. m - 1, d[i] = d[j] PROVE i = j
  <2>1. \A k \in 0 .. m - 1 : (k = n /\ d[k] = p) \/ (k \in 0 .. n - 1 /\ d[k] = c[k] /\ d[k] # p)
    <3> SUFFICES ASSUME NEW k \in 0 .. m - 1, k # n
                 PROVE  k \in 0 .. n - 1 /\ d[k] = c[k] /\ d[k] # p
      BY <1>4
    <3>1. k \in 0 .. n - 1
      BY <1>1
    <3> QED BY <1>3, <3>1
  <2> HIDE DEF m
  <2> QED BY <1>2, <1>7, <2>1
<1>8. ASSUME NEW q \in Q PROVE \E i \in 0 .. m - 1 : d[i] = q
  <2>1. n \in 0 .. m - 1 /\ \A i \in 0 .. n - 1 : i \in 0 .. m - 1
    BY <1>1
  <2>2. CASE q = p
    <3> HIDE DEF m
    <3> QED BY <1>4, <2>1, <2>2
  <2>3. CASE q \in P
    <3>1. PICK i \in 0 .. n - 1 : c[i] = q
      BY <1>2, <2>3
    <3>2. d[i] = q /\ i \in 0 .. m - 1
      BY <1>3, <2>1, <3>1
    <3> QED BY <3>2
  <2> QED BY <2>2, <2>3
<1>9. RingOf(d, m, after, Q)
  <2> HIDE DEF m, Q
  <2> QED BY <1>1, <1>4, <1>5, <1>6, <1>7, <1>8 DEF RingOf
<1> QED BY <1>4, <1>9
LEMMA RingCounts ==
  ASSUME NEW c, NEW n, NEW pages, NEW P, RingOf(c, n, pages, P)
  PROVE  IsFiniteSet(P) /\ Cardinality(P) = n
<1>1. n \in Nat /\ \A i \in 0 .. n - 1 : c[i] \in P
  BY DEF RingOf
<1>2. /\ \A i, j \in 0 .. n - 1 : c[i] = c[j] => i = j
      /\ \A p \in P : \E i \in 0 .. n - 1 : c[i] = p
  BY DEF RingOf
<1> QED BY <1>1, <1>2, CountedByNumbers

-----------------------------------------------------------------------------
(***************************************************************************)
(* The invariant.                                                          *)
(***************************************************************************)
Ring(n, pages, P) == IF n = 0 THEN P = {} ELSE \E c : RingOf(c, n, pages, P)
RingFrom(first, n, pages, P) == Ring(n, pages, P) /\ (n # 0 => first \in P)

With(pages)    == {p \in DOMAIN pages : pages[p].availableStackSize > 0}
Without(pages) == {p \in DOMAIN pages : pages[p].availableStackSize = 0}

MemoryTypeOK ==
  /\ DOMAIN page \subseteq 1 .. MaxPoolPages /\ page \in [DOMAIN page -> PoolPages]
  /\ \A p \in DOMAIN page : page[p].availableStackSize >= 0
  /\ given \in [DOMAIN page -> Int] /\ blocks \in [DOMAIN page -> Int]
  /\ availablePagesSize \in Nat /\ unavailablePagesSize \in Nat
  /\ BlocksPerPage \in BlockCounts

Accounted == \A p \in DOMAIN page : page[p].availableStackSize + given[p] = blocks[p]
PoolInOrder ==
  /\ MemoryTypeOK
  /\ RingFrom(availablePages, availablePagesSize, page, With(page))
  /\ RingFrom(unavailablePages, unavailablePagesSize, page, Without(page))
  /\ Accounted
MemoryInv == ~misused => PoolInOrder

\* A page taken out of its ring.
LEMMA OutOfRingIs ==
  ASSUME NEW D, NEW pages \in [D -> PoolPages], NEW p \in D,
         pages[p].next \in D, pages[p].prev \in D
  PROVE  /\ OutOfRing(pages, p) \in [D -> PoolPages]
         /\ \A q \in D :
              /\ OutOfRing(pages, p)[q].availableStackSize = pages[q].availableStackSize
              /\ OutOfRing(pages, p)[q].next = IF q = pages[p].prev THEN pages[p].next ELSE pages[q].next
              /\ OutOfRing(pages, p)[q].prev = IF q = pages[p].next THEN pages[p].prev ELSE pages[q].prev
<1> DEFINE joined == [pages EXCEPT ![pages[p].next].prev = pages[p].prev]
<1>1. joined \in [D -> PoolPages]
  BY DEF PoolPages
<1>2. \A q \in D : /\ joined[q].availableStackSize = pages[q].availableStackSize
                   /\ joined[q].next = pages[q].next
                   /\ joined[q].prev = IF q = pages[p].next THEN pages[p].prev ELSE pages[q].prev
  BY DEF PoolPages
<1>3. joined[p].prev = pages[p].prev /\ joined[p].next = pages[p].next
  BY <1>2
<1>4. OutOfRing(pages, p) = [joined EXCEPT ![joined[p].prev].next = joined[p].next]
  BY DEF OutOfRing
<1> HIDE DEF joined
<1>5. OutOfRing(pages, p) = [joined EXCEPT ![pages[p].prev].next = pages[p].next]
  BY <1>3, <1>4
<1>6. pages[p].next \in Int
  BY DEF PoolPages
<1>7. OutOfRing(pages, p) \in [D -> PoolPages]
  BY <1>1, <1>5, <1>6 DEF PoolPages
<1>8. \A q \in D :
        /\ OutOfRing(pages, p)[q].availableStackSize = joined[q].availableStackSize
        /\ OutOfRing(pages, p)[q].next = IF q = pages[p].prev THEN pages[p].next ELSE joined[q].next
        /\ OutOfRing(pages, p)[q].prev = joined[q].prev
  BY <1>1, <1>5, <1>6 DEF PoolPages
<1> QED BY <1>2, <1>7, <1>8

\* A page put at the end of a ring, before its first.
Joins(D, pages, p, first, after) ==
  \A q \in D :
    /\ after[q].availableStackSize = pages[q].availableStackSize
    /\ after[q].next = IF q = p THEN first ELSE IF q = pages[first].prev THEN p ELSE pages[q].next
    /\ after[q].prev = IF q = p THEN pages[first].prev ELSE IF q = first THEN p ELSE pages[q].prev

LEMMA LinkedLastIs ==
  ASSUME NEW D, D \subseteq Int, NEW pages \in [D -> PoolPages], NEW p \in D, NEW first \in D, first # p,
         pages[first].prev \in D, pages[first].prev # p, NEW extent, extent # 0
  PROVE  /\ LinkedLast(pages, p, first, extent) \in [D -> PoolPages]
         /\ Joins(D, pages, p, first, LinkedLast(pages, p, first, extent))
<1> DEFINE last == pages[first].prev
           a == [pages EXCEPT ![p].next = first]
           b == [a EXCEPT ![p].prev = last]
           c == [b EXCEPT ![last].next = p]
           d == [c EXCEPT ![first].prev = p]
<1>1. last \in D /\ last \in Int /\ p \in Int /\ first \in Int
  BY DEF PoolPages
<1>2. /\ a \in [D -> PoolPages]
      /\ \A q \in D : /\ a[q].availableStackSize = pages[q].availableStackSize
                      /\ a[q].next = IF q = p THEN first ELSE pages[q].next
                      /\ a[q].prev = pages[q].prev
  BY <1>1 DEF PoolPages
<1>3. LinkedLast(pages, p, first, extent) = d
  BY DEF LinkedLast
<1> HIDE DEF a, last
<1>4. /\ b \in [D -> PoolPages]
      /\ \A q \in D : /\ b[q].availableStackSize = a[q].availableStackSize
                      /\ b[q].next = a[q].next
                      /\ b[q].prev = IF q = p THEN last ELSE a[q].prev
  BY <1>1, <1>2 DEF PoolPages
<1> HIDE DEF b
<1>5. /\ c \in [D -> PoolPages]
      /\ \A q \in D : /\ c[q].availableStackSize = b[q].availableStackSize
                      /\ c[q].next = IF q = last THEN p ELSE b[q].next
                      /\ c[q].prev = b[q].prev
  BY <1>1, <1>4 DEF PoolPages
<1> HIDE DEF c
<1>6. /\ d \in [D -> PoolPages]
      /\ \A q \in D : /\ d[q].availableStackSize = c[q].availableStackSize
                      /\ d[q].next = c[q].next
                      /\ d[q].prev = IF q = first THEN p ELSE c[q].prev
  BY <1>1, <1>5 DEF PoolPages
<1> HIDE DEF d
<1>7. last # p
  BY DEF last
<1>8. ASSUME NEW q \in D
      PROVE  /\ d[q].availableStackSize = pages[q].availableStackSize
             /\ d[q].next = IF q = p THEN first ELSE IF q = last THEN p ELSE pages[q].next
             /\ d[q].prev = IF q = p THEN last ELSE IF q = first THEN p ELSE pages[q].prev
  BY <1>2, <1>4, <1>5, <1>6, <1>7
<1>9. Joins(D, pages, p, first, d)
  BY <1>8 DEF Joins, last
<1> QED BY <1>3, <1>6, <1>9

\* A ring the pages of which are not touched.
LEMMA RingElsewhere ==
  ASSUME NEW n, NEW pages, NEW P, Ring(n, pages, P), NEW after, SameLinks(P, pages, after)
  PROVE  Ring(n, after, P)
BY SameRing DEF Ring

\* A ring of some of the pages D; it without a page and with another page, the rest
\* of the pages as they were.
OneRing(D, pages, n, P) ==
  pages \in [D -> PoolPages] /\ P \subseteq D /\ n \in Nat /\ Ring(n, pages, P)
TakenOut(D, pages, n, P, p, after) ==
  /\ n > 0 /\ (n > 1 => pages[p].next \in P \ {p})
  /\ after \in [D -> PoolPages] /\ SameStacks(D, pages, after)
  /\ Ring(n - 1, after, P \ {p}) /\ SameLinks(D \ P, pages, after)
LinkedIn(D, pages, n, P, p, after) ==
  /\ after \in [D -> PoolPages] /\ SameStacks(D, pages, after)
  /\ Ring(n + 1, after, P \union {p}) /\ SameLinks(D \ (P \union {p}), pages, after)

LEMMA RingLess ==
  ASSUME NEW D, NEW pages, NEW P, NEW n, OneRing(D, pages, n, P), NEW p \in P
  PROVE  TakenOut(D, pages, n, P, p, OutOfRing(pages, p))
<1> DEFINE after == OutOfRing(pages, p)
<1>0. pages \in [D -> PoolPages] /\ P \subseteq D /\ n \in Nat /\ Ring(n, pages, P)
  BY DEF OneRing
<1>1. n > 0
  BY <1>0 DEF Ring
<1>2. PICK c : RingOf(c, n, pages, P) /\ c[0] = p
  BY <1>0, <1>1, NumberedFrom DEF Ring
<1>3. /\ 0 \in 0 .. n - 1 /\ n - 1 \in 0 .. n - 1 /\ 0 + 1 = 1 /\ (n - 1) + 1 = n
      /\ 1 \in 0 .. n /\ n - 1 \in 0 .. n
  BY <1>0, <1>1
<1>4. pages[p].next = c[1] /\ pages[p].prev = c[n - 1] /\ c[1] \in P /\ c[n - 1] \in P
  <2>1. pages[c[0]].next = c[0 + 1] /\ pages[c[(n - 1) + 1]].prev = c[n - 1]
    BY <1>2, <1>3 DEF RingOf
  <2>2. c[n] = c[0] /\ c[1] \in P /\ c[n - 1] \in P
    BY <1>2, <1>3 DEF RingOf
  <2> QED BY <1>2, <1>3, <2>1, <2>2
<1>5. pages[p].next \in D /\ pages[p].prev \in D /\ p \in D
  BY <1>0, <1>4
<1>6. /\ after \in [D -> PoolPages]
      /\ \A q \in D :
           /\ after[q].availableStackSize = pages[q].availableStackSize
           /\ after[q].next = IF q = pages[p].prev THEN pages[p].next ELSE pages[q].next
           /\ after[q].prev = IF q = pages[p].next THEN pages[p].prev ELSE pages[q].prev
  BY <1>0, <1>5, OutOfRingIs
<1> HIDE DEF after
<1>7. SameStacks(D, pages, after)
  BY <1>6 DEF SameStacks
<1>8. FirstGone(c, n, pages, P, after)
  BY <1>0, <1>4, <1>6 DEF FirstGone
<1>9. SameLinks(D \ P, pages, after)
  BY <1>4, <1>6 DEF SameLinks
<1>10. Ring(n - 1, after, P \ {p}) /\ (n > 1 => pages[p].next \in P \ {p})
  <2>1. CASE n = 1
    <3>1. P \ {p} = {}
      <4>1. \A q \in P : q = c[0]
        <5>1. 0 .. n - 1 = {0}
          BY <2>1
        <5> QED BY <1>2, <5>1 DEF RingOf
      <4> QED BY <1>2, <4>1
    <3> QED BY <2>1, <3>1 DEF Ring
  <2>2. CASE n > 1
    <3>1. PICK d : RingOf(d, n - 1, after, P \ {c[0]})
      BY <1>2, <1>8, <2>2, RingWithout
    <3>2. Ring(n - 1, after, P \ {p})
      <4>1. n - 1 # 0
        BY <2>2
      <4> QED BY <1>2, <3>1, <4>1 DEF Ring
    <3>3. c[1] # c[0]
      <4>1. 1 \in 0 .. n - 1
        BY <1>0, <2>2
      <4> QED BY <1>2, <1>3, <4>1 DEF RingOf
    <3> QED BY <1>2, <1>4, <3>2, <3>3
  <2> QED BY <1>0, <1>1, <2>1, <2>2
<1>11. TakenOut(D, pages, n, P, p, after)
  BY <1>1, <1>6, <1>7, <1>9, <1>10 DEF TakenOut
<1> QED BY <1>11 DEF after

\* A ring with another page, which becomes its last.
LEMMA RingMore ==
  ASSUME NEW D, D \subseteq Int, NEW pages, NEW P, NEW n, OneRing(D, pages, n, P),
         NEW p \in D, p \notin P, NEW first, n # 0 => first \in P
  PROVE  LinkedIn(D, pages, n, P, p, LinkedLast(pages, p, first, n))
<1> DEFINE after == LinkedLast(pages, p, first, n)
<1>0. pages \in [D -> PoolPages] /\ P \subseteq D /\ n \in Nat /\ Ring(n, pages, P)
  BY DEF OneRing
<1>1. CASE n = 0
  <2> DEFINE a == [pages EXCEPT ![p].next = p]
             b == [a EXCEPT ![p].prev = p]
  <2>1. P = {} /\ p \in Int
    BY <1>0, <1>1 DEF Ring
  <2>2. after = b
    BY <1>1 DEF LinkedLast
  <2>3. /\ a \in [D -> PoolPages]
        /\ \A q \in D : /\ a[q].availableStackSize = pages[q].availableStackSize
                        /\ a[q].next = IF q = p THEN p ELSE pages[q].next
                        /\ a[q].prev = pages[q].prev
    BY <1>0, <2>1 DEF PoolPages
  <2> HIDE DEF a
  <2>4. /\ b \in [D -> PoolPages]
        /\ \A q \in D : /\ b[q].availableStackSize = a[q].availableStackSize
                        /\ b[q].next = a[q].next
                        /\ b[q].prev = IF q = p THEN p ELSE a[q].prev
    BY <2>1, <2>3 DEF PoolPages
  <2> HIDE DEF b
  <2>5. b[p].next = p /\ b[p].prev = p
    BY <2>3, <2>4
  <2> DEFINE c == [i \in 0 .. 1 |-> p]
  <2>6. RingOf(c, 1, b, {p})
    BY <2>5 DEF RingOf
  <2>7. Ring(n + 1, b, P \union {p})
    <3>1. n + 1 = 1 /\ P \union {p} = {p}
      BY <1>1, <2>1
    <3> HIDE DEF c
    <3> QED BY <2>6, <3>1 DEF Ring
  <2>8. SameStacks(D, pages, b) /\ SameLinks(D \ (P \union {p}), pages, b)
    BY <2>3, <2>4 DEF SameStacks, SameLinks
  <2> HIDE DEF after
  <2>9. LinkedIn(D, pages, n, P, p, after)
    BY <2>2, <2>4, <2>7, <2>8 DEF LinkedIn
  <2> QED BY <2>9 DEF after
<1>2. CASE n # 0
  <2>1. PICK c : RingOf(c, n, pages, P) /\ c[0] = first
    BY <1>0, <1>2, NumberedFrom DEF Ring
  <2>2. n - 1 \in 0 .. n - 1 /\ (n - 1) + 1 = n
    BY <1>0, <1>2
  <2>3. pages[first].prev = c[n - 1] /\ c[n - 1] \in P
    <3>1. pages[c[(n - 1) + 1]].prev = c[n - 1] /\ c[n] = c[0]
      BY <2>1, <2>2 DEF RingOf
    <3>2. n - 1 \in 0 .. n
      BY <1>0, <1>2
    <3>3. c[n - 1] \in P
      BY <2>1, <3>2 DEF RingOf
    <3> QED BY <2>1, <2>2, <3>1, <3>3
  <2>4. first \in D /\ first # p /\ pages[first].prev \in D /\ pages[first].prev # p
    BY <1>0, <1>2, <2>3
  <2>5. /\ after \in [D -> PoolPages]
        /\ Joins(D, pages, p, first, after)
    BY <1>0, <1>2, <2>4, LinkedLastIs
  <2> HIDE DEF after
  <2>6. LastCome(c, n, pages, P, p, after)
    BY <1>0, <2>1, <2>3, <2>5 DEF LastCome, Joins
  <2>7. PICK d : RingOf(d, n + 1, after, P \union {p})
    BY <2>1, <2>6, RingWith
  <2>8. Ring(n + 1, after, P \union {p})
    <3>1. n + 1 # 0
      BY <1>0
    <3> QED BY <2>7, <3>1 DEF Ring
  <2>9. SameStacks(D, pages, after) /\ SameLinks(D \ (P \union {p}), pages, after)
    BY <1>0, <1>2, <2>3, <2>5 DEF SameStacks, SameLinks, Joins
  <2>10. LinkedIn(D, pages, n, P, p, after)
    BY <2>5, <2>8, <2>9 DEF LinkedIn
  <2> QED BY <2>10 DEF after
<1> QED BY <1>1, <1>2

TwoRings(D, pages, n, P, m, Q) ==
  /\ D \subseteq Int /\ pages \in [D -> PoolPages]
  /\ P \subseteq D /\ Q \subseteq D /\ P \intersect Q = {} /\ n \in Nat /\ m \in Nat
  /\ Ring(n, pages, P) /\ Ring(m, pages, Q)
Moved(D, pages, n, P, m, Q, p, after) ==
  /\ n > 0 /\ (n > 1 => pages[p].next \in P \ {p})
  /\ after \in [D -> PoolPages] /\ SameStacks(D, pages, after)
  /\ Ring(n - 1, after, P \ {p}) /\ Ring(m + 1, after, Q \union {p})

\* A page that goes from one ring to the other.
LEMMA RingToRing ==
  ASSUME NEW D, NEW pages, NEW P, NEW Q, NEW n, NEW m, TwoRings(D, pages, n, P, m, Q),
         NEW p \in P, NEW first, m # 0 => first \in Q
  PROVE  Moved(D, pages, n, P, m, Q, p, LinkedLast(OutOfRing(pages, p), p, first, m))
<1> DEFINE out == OutOfRing(pages, p)
           after == LinkedLast(out, p, first, m)
<1>1. /\ D \subseteq Int /\ pages \in [D -> PoolPages]
      /\ P \subseteq D /\ Q \subseteq D /\ P \intersect Q = {} /\ n \in Nat /\ m \in Nat
      /\ Ring(n, pages, P) /\ Ring(m, pages, Q)
  BY DEF TwoRings
<1>2. OneRing(D, pages, n, P)
  BY <1>1 DEF OneRing
<1>3. TakenOut(D, pages, n, P, p, out)
  BY <1>2, RingLess
<1> HIDE DEF out
<1>4. SameLinks(Q, pages, out)
  BY <1>1, <1>3 DEF SameLinks, TakenOut
<1>5. Ring(m, out, Q)
  BY <1>1, <1>4, RingElsewhere
<1>6. OneRing(D, out, m, Q) /\ p \in D /\ p \notin Q
  BY <1>1, <1>3, <1>5 DEF OneRing, TakenOut
<1>7. LinkedIn(D, out, m, Q, p, after)
  BY <1>1, <1>6, RingMore
<1> HIDE DEF after
<1>8. SameLinks(P \ {p}, out, after)
  BY <1>1, <1>7 DEF SameLinks, LinkedIn
<1>9. Ring(n - 1, after, P \ {p})
  BY <1>3, <1>8, RingElsewhere DEF TakenOut
<1>10. SameStacks(D, pages, after)
  BY <1>3, <1>7 DEF SameStacks, TakenOut, LinkedIn
<1>11. Moved(D, pages, n, P, m, Q, p, after)
  BY <1>3, <1>7, <1>9, <1>10 DEF Moved, TakenOut, LinkedIn
<1> QED BY <1>11 DEF after, out

LEMMA RingAlone ==
  ASSUME NEW pages, NEW p, pages[p].next = p, pages[p].prev = p
  PROVE  Ring(1, pages, {p})
<1> DEFINE c == [i \in 0 .. 1 |-> p]
<1>1. RingOf(c, 1, pages, {p})
  BY DEF RingOf
<1> HIDE DEF c
<1> QED BY <1>1 DEF Ring

-----------------------------------------------------------------------------
(***************************************************************************)
(* The actions.                                                            *)
(***************************************************************************)
\* The page p has k free blocks more, the callers have as many less of them.
FreesMore(p, k, pages) ==
  /\ pages \in [DOMAIN page -> PoolPages]
  /\ \A q \in DOMAIN page :
       /\ pages[q].availableStackSize
            = IF q = p THEN page[q].availableStackSize + k ELSE page[q].availableStackSize
       /\ pages[q].next = page[q].next /\ pages[q].prev = page[q].prev
GivenLess(p, k, held) ==
  /\ held \in [DOMAIN page -> Int]
  /\ \A q \in DOMAIN page : held[q] = IF q = p THEN given[q] - k ELSE given[q]

LEMMA FreesOne ==
  ASSUME PoolInOrder, NEW p \in DOMAIN page
  PROVE  /\ FreesMore(p, 1, Keeps(p))
         /\ FreesMore(p, -1, [page EXCEPT ![p].availableStackSize = @ - 1])
         /\ GivenLess(p, 1, [given EXCEPT ![p] = @ - 1])
         /\ GivenLess(p, -1, [given EXCEPT ![p] = @ + 1])
<1>1. page \in [DOMAIN page -> PoolPages] /\ given \in [DOMAIN page -> Int]
  BY DEF PoolInOrder, MemoryTypeOK
<1>2. FreesMore(p, 1, Keeps(p))
  BY <1>1 DEF FreesMore, Keeps, PoolPages
<1>3. FreesMore(p, -1, [page EXCEPT ![p].availableStackSize = @ - 1])
  <2>1. \A s \in Int : s + (-1) = s - 1 /\ s - 1 \in Int
    OBVIOUS
  <2> QED BY <1>1, <2>1 DEF FreesMore, PoolPages
<1>4. GivenLess(p, 1, [given EXCEPT ![p] = @ - 1])
  BY <1>1 DEF GivenLess
<1>5. GivenLess(p, -1, [given EXCEPT ![p] = @ + 1])
  <2>1. \A s \in Int : s - (-1) = s + 1 /\ s + 1 \in Int
    OBVIOUS
  <2> QED BY <1>1, <2>1 DEF GivenLess
<1> QED BY <1>2, <1>3, <1>4, <1>5

\* The blocks of every page are still accounted for.
LEMMA StaysAccounted ==
  ASSUME PoolInOrder, NEW p \in DOMAIN page, NEW k \in Int, DOMAIN page' = DOMAIN page,
         \A q \in DOMAIN page :
           page'[q].availableStackSize
             = IF q = p THEN page[q].availableStackSize + k ELSE page[q].availableStackSize,
         GivenLess(p, k, given'), blocks' = blocks
  PROVE  Accounted'
<1> SUFFICES ASSUME NEW q \in DOMAIN page
             PROVE  page'[q].availableStackSize + given'[q] = blocks[q]
  BY DEF Accounted
<1>1. page[q].availableStackSize + given[q] = blocks[q]
      /\ page[q].availableStackSize \in Int /\ given[q] \in Int
  BY DEF PoolInOrder, MemoryTypeOK, PoolPages, Accounted
<1>2. \A s, g \in Int : (s + k) + (g - k) = s + g
  OBVIOUS
<1> QED BY <1>1, <1>2 DEF GivenLess

\* A block more or less, and the page stays where it is.
LEMMA PageStays ==
  ASSUME PoolInOrder, NEW p \in DOMAIN page, NEW k \in Int,
         page[p].availableStackSize > 0, page[p].availableStackSize + k > 0,
         FreesMore(p, k, page'), GivenLess(p, k, given'),
         UNCHANGED <<availablePages, unavailablePages, availablePagesSize, unavailablePagesSize,
                     BlocksPerPage, blocks>>
  PROVE  PoolInOrder'
<1>1. DOMAIN page' = DOMAIN page
  BY DEF FreesMore
<1>2. \A q \in DOMAIN page : /\ page'[q].availableStackSize >= 0
                             /\ (page'[q].availableStackSize > 0 <=> page[q].availableStackSize > 0)
                             /\ (page'[q].availableStackSize = 0 <=> page[q].availableStackSize = 0)
  BY DEF FreesMore, PoolInOrder, MemoryTypeOK, PoolPages
<1>3. MemoryTypeOK'
  BY <1>1, <1>2 DEF PoolInOrder, MemoryTypeOK, FreesMore, GivenLess
<1>4. With(page') = With(page) /\ Without(page') = Without(page)
  <2>1. \A q \in DOMAIN page : q \in With(page') <=> q \in With(page)
    BY <1>1, <1>2 DEF With
  <2>2. \A q \in DOMAIN page : q \in Without(page') <=> q \in Without(page)
    BY <1>1, <1>2 DEF Without
  <2>3. \A q : /\ q \in With(page') \/ q \in Without(page') => q \in DOMAIN page'
               /\ q \in With(page) \/ q \in Without(page) => q \in DOMAIN page
    BY DEF With, Without
  <2> QED BY <1>1, <2>1, <2>2, <2>3
<1>5. SameLinks(With(page), page, page') /\ SameLinks(Without(page), page, page')
  BY DEF SameLinks, With, Without, FreesMore
<1>6. RingFrom(availablePages, availablePagesSize, page, With(page))'
  BY <1>4, <1>5, RingElsewhere DEF PoolInOrder, RingFrom
<1>7. RingFrom(unavailablePages, unavailablePagesSize, page, Without(page))'
  BY <1>4, <1>5, RingElsewhere DEF PoolInOrder, RingFrom
<1>8. Accounted'
  BY <1>1, StaysAccounted DEF FreesMore
<1> QED BY <1>3, <1>6, <1>7, <1>8 DEF PoolInOrder

\* A page with a block more or less that goes from one ring to the other.
LEMMA PageMoves ==
  ASSUME PoolInOrder, NEW k \in Int, NEW P, P \subseteq DOMAIN page, NEW Q, Q \subseteq DOMAIN page,
         P \intersect Q = {}, NEW n, n \in Nat, NEW m, m \in Nat,
         Ring(n, page, P), Ring(m, page, Q), NEW p \in P, NEW first, m # 0 => first \in Q,
         NEW taken, FreesMore(p, k, taken), page' = LinkedLast(OutOfRing(taken, p), p, first, m),
         GivenLess(p, k, given'), blocks' = blocks
  PROVE  /\ Ring(n - 1, page', P \ {p}) /\ Ring(m + 1, page', Q \union {p})
         /\ n > 0 /\ (n > 1 => page[p].next \in P \ {p})
         /\ DOMAIN page' = DOMAIN page /\ page' \in [DOMAIN page -> PoolPages]
         /\ \A q \in DOMAIN page :
              page'[q].availableStackSize
                = IF q = p THEN page[q].availableStackSize + k ELSE page[q].availableStackSize
         /\ Accounted'
<1> DEFINE D == DOMAIN page
           after == LinkedLast(OutOfRing(taken, p), p, first, m)
<1>1. D \subseteq Int /\ taken \in [D -> PoolPages] /\ p \in D
  BY DEF PoolInOrder, MemoryTypeOK, FreesMore
<1>2. SameLinks(P, page, taken) /\ SameLinks(Q, page, taken)
  BY <1>1 DEF SameLinks, FreesMore
<1>3. Ring(n, taken, P) /\ Ring(m, taken, Q)
  BY <1>2, RingElsewhere
<1>4. TwoRings(D, taken, n, P, m, Q)
  BY <1>1, <1>3 DEF TwoRings
<1> HIDE DEF D
<1>5. Moved(D, taken, n, P, m, Q, p, after)
  BY <1>4, RingToRing
<1>6. page' = after
  OBVIOUS
<1> HIDE DEF after
<1>7. DOMAIN page' = DOMAIN page /\ page' \in [DOMAIN page -> PoolPages]
  BY <1>5, <1>6 DEF D, Moved
<1>8. \A q \in DOMAIN page :
        page'[q].availableStackSize
          = IF q = p THEN page[q].availableStackSize + k ELSE page[q].availableStackSize
  BY <1>5, <1>6 DEF SameStacks, FreesMore, D, Moved
<1>9. Accounted'
  BY <1>1, <1>7, <1>8, StaysAccounted DEF D
<1>10. taken[p].next = page[p].next
  BY <1>1 DEF FreesMore, D
<1> QED BY <1>5, <1>6, <1>7, <1>8, <1>9, <1>10 DEF Moved

LEMMA AllocateKeeps ==
  ASSUME PoolInOrder, Allocate
  PROVE  PoolInOrder'
<1> DEFINE p == availablePages
           taken == [page EXCEPT ![p].availableStackSize = @ - 1]
<1>1. /\ p \in DOMAIN page /\ p \in With(page) /\ page[p].availableStackSize > 0
      /\ page[p].availableStackSize \in Int
  <2>1. p \in With(page)
    BY DEF PoolInOrder, RingFrom, MemoryTypeOK, Allocate
  <2> QED BY <2>1 DEF With, PoolInOrder, MemoryTypeOK, PoolPages
<1>2. FreesMore(p, -1, taken) /\ GivenLess(p, -1, given')
  BY <1>1, FreesOne DEF Allocate
<1>3. taken[p].availableStackSize = page[p].availableStackSize + (-1)
  BY <1>1, <1>2 DEF FreesMore
<1>4. -1 \in Int
  OBVIOUS
<1>5. CASE taken[p].availableStackSize > 0
  <2>1. page' = taken
    BY <1>5 DEF Allocate
  <2>2. UNCHANGED <<availablePages, unavailablePages, availablePagesSize, unavailablePagesSize,
                    BlocksPerPage, blocks>>
    BY <1>5 DEF Allocate
  <2>3. page[p].availableStackSize + (-1) > 0
    BY <1>3, <1>5
  <2> HIDE DEF taken, p
  <2>4. FreesMore(p, -1, page')
    BY <1>2, <2>1
  <2> QED BY <1>1, <1>2, <1>4, <2>2, <2>3, <2>4, PageStays
<1>6. CASE ~(taken[p].availableStackSize > 0)
  <2> DEFINE P == With(page)
             Q == Without(page)
             n == availablePagesSize
             m == unavailablePagesSize
  <2>1. /\ page' = LinkedLast(OutOfRing(taken, p), p, unavailablePages, m)
        /\ availablePages' = page[p].next /\ availablePagesSize' = n - 1
        /\ unavailablePages' = IF m = 0 THEN p ELSE unavailablePages
        /\ unavailablePagesSize' = m + 1 /\ BlocksPerPage' = BlocksPerPage /\ blocks' = blocks
    BY <1>6 DEF Allocate
  <2>2. /\ n \in Nat /\ m \in Nat /\ Ring(n, page, P) /\ Ring(m, page, Q)
        /\ m # 0 => unavailablePages \in Q
    BY DEF PoolInOrder, RingFrom, MemoryTypeOK
  <2>3. P \subseteq DOMAIN page /\ Q \subseteq DOMAIN page /\ P \intersect Q = {} /\ p \in P
    BY <1>1 DEF With, Without
  <2>4. page[p].availableStackSize = 1
    BY <1>1, <1>3, <1>6
  <2> HIDE DEF taken, P, Q, n, m, p
  <2>5. /\ Ring(n - 1, page', P \ {p}) /\ Ring(m + 1, page', Q \union {p})
        /\ n > 0 /\ (n > 1 => page[p].next \in P \ {p})
        /\ DOMAIN page' = DOMAIN page /\ page' \in [DOMAIN page -> PoolPages]
        /\ \A q \in DOMAIN page :
             page'[q].availableStackSize
               = IF q = p THEN page[q].availableStackSize + (-1) ELSE page[q].availableStackSize
        /\ Accounted'
    BY <1>2, <1>4, <2>1, <2>2, <2>3, PageMoves
  <2>6. With(page') = P \ {p} /\ Without(page') = Q \union {p}
    BY <1>1, <2>4, <2>5 DEF With, Without, P, Q
  <2>7. MemoryTypeOK'
    <3>1. \A q \in DOMAIN page : page'[q].availableStackSize >= 0
      BY <2>4, <2>5 DEF PoolInOrder, MemoryTypeOK
    <3>2. n - 1 \in Nat /\ m + 1 \in Nat
      BY <2>2, <2>5
    <3> QED BY <1>2, <2>1, <2>5, <3>1, <3>2 DEF PoolInOrder, MemoryTypeOK, GivenLess
  <2>8. RingFrom(availablePages, availablePagesSize, page, With(page))'
    BY <2>1, <2>2, <2>5, <2>6 DEF RingFrom
  <2>9. RingFrom(unavailablePages, unavailablePagesSize, page, Without(page))'
    BY <2>1, <2>2, <2>5, <2>6 DEF RingFrom
  <2> QED BY <2>5, <2>7, <2>8, <2>9 DEF PoolInOrder
<1> QED BY <1>5, <1>6

\* A block of a page without free ones comes back.
LEMMA ReleaseToFullKeeps ==
  ASSUME PoolInOrder, NEW p \in DOMAIN page, ReleaseToFull(p)
  PROVE  PoolInOrder'
<1> DEFINE P == Without(page)
           Q == With(page)
           n == unavailablePagesSize
           m == availablePagesSize
<1>1. /\ page[p].availableStackSize = 0 /\ BlocksPerPage' = BlocksPerPage /\ blocks' = blocks
      /\ page' = LinkedLast(OutOfRing(Keeps(p), p), p, availablePages, m)
      /\ unavailablePages' = IF n > 1 THEN HeadWithout(unavailablePages, p) ELSE unavailablePages
      /\ unavailablePagesSize' = n - 1
      /\ availablePages' = IF m = 0 THEN p ELSE availablePages
      /\ availablePagesSize' = m + 1
  BY DEF ReleaseToFull
<1>2. FreesMore(p, 1, Keeps(p)) /\ GivenLess(p, 1, given')
  BY FreesOne DEF ReleaseToFull
<1>3. /\ n \in Nat /\ m \in Nat /\ Ring(n, page, P) /\ Ring(m, page, Q)
      /\ (m # 0 => availablePages \in Q) /\ (n # 0 => unavailablePages \in P)
  BY DEF PoolInOrder, RingFrom, MemoryTypeOK
<1>4. P \subseteq DOMAIN page /\ Q \subseteq DOMAIN page /\ P \intersect Q = {} /\ p \in P
  BY <1>1 DEF With, Without
<1>5. 1 \in Int
  OBVIOUS
<1> HIDE DEF P, Q, n, m
<1>6. /\ Ring(n - 1, page', P \ {p}) /\ Ring(m + 1, page', Q \union {p})
      /\ n > 0 /\ (n > 1 => page[p].next \in P \ {p})
      /\ DOMAIN page' = DOMAIN page /\ page' \in [DOMAIN page -> PoolPages]
      /\ \A q \in DOMAIN page :
           page'[q].availableStackSize
             = IF q = p THEN page[q].availableStackSize + 1 ELSE page[q].availableStackSize
      /\ Accounted'
  BY <1>1, <1>2, <1>3, <1>4, <1>5, PageMoves
<1>7. With(page') = Q \union {p} /\ Without(page') = P \ {p}
  BY <1>1, <1>6 DEF With, Without, P, Q
<1>8. MemoryTypeOK'
  <2>1. \A q \in DOMAIN page : page'[q].availableStackSize >= 0
    BY <1>1, <1>6 DEF PoolInOrder, MemoryTypeOK
  <2>2. n - 1 \in Nat /\ m + 1 \in Nat
    BY <1>3, <1>6
  <2> QED BY <1>1, <1>2, <1>6, <2>1, <2>2 DEF PoolInOrder, MemoryTypeOK, GivenLess
<1>9. RingFrom(availablePages, availablePagesSize, page, With(page))'
  BY <1>1, <1>3, <1>6, <1>7 DEF RingFrom
<1>10. RingFrom(unavailablePages, unavailablePagesSize, page, Without(page))'
  BY <1>1, <1>3, <1>6, <1>7 DEF RingFrom, HeadWithout
<1> QED BY <1>6, <1>8, <1>9, <1>10 DEF PoolInOrder

\* A block of another page comes back, which may be the last the page waited for.
LEMMA ReleaseToOtherKeeps ==
  ASSUME PoolInOrder, NEW p \in DOMAIN page, ReleaseToOther(p)
  PROVE  PoolInOrder'
<1>1. /\ page \in [DOMAIN page -> PoolPages] /\ page[p].availableStackSize \in Int
      /\ page[p].availableStackSize > 0
  BY DEF PoolInOrder, MemoryTypeOK, PoolPages, ReleaseToOther
<1>2. CASE ~(/\ Keeps(p)[p].availableStackSize = BlocksPerPage
             /\ availablePagesSize >= MAX_FREE_PAGES)
  <2>1. FreesMore(p, 1, page') /\ GivenLess(p, 1, given')
    BY <1>2, FreesOne DEF ReleaseToOther
  <2>2. UNCHANGED <<availablePages, unavailablePages, availablePagesSize, unavailablePagesSize,
                    BlocksPerPage, blocks>>
    BY <1>2 DEF ReleaseToOther
  <2>3. 1 \in Int /\ page[p].availableStackSize + 1 > 0
    BY <1>1
  <2> QED BY <1>1, <2>1, <2>2, <2>3, PageStays
<1>3. CASE /\ Keeps(p)[p].availableStackSize = BlocksPerPage
           /\ availablePagesSize >= MAX_FREE_PAGES
  <2> DEFINE D == DOMAIN page
             P == With(page)
             Q == Without(page)
             n == availablePagesSize
             left == OutOfRing(page, p)
  <2>1. /\ page' = [q \in D \ {p} |-> left[q]]
        /\ blocks' = [q \in D \ {p} |-> blocks[q]] /\ given' = [q \in D \ {p} |-> given[q]]
        /\ availablePages' = HeadWithout(availablePages, p) /\ availablePagesSize' = n - 1
        /\ UNCHANGED <<unavailablePages, unavailablePagesSize, BlocksPerPage>>
    BY <1>3 DEF ReleaseToOther
  <2>2. /\ n \in Nat /\ n > 1 /\ Ring(n, page, P) /\ availablePages \in P
        /\ Ring(unavailablePagesSize, page, Q)
        /\ (unavailablePagesSize # 0 => unavailablePages \in Q)
    BY <1>3, MemoryPoolAssumption DEF PoolInOrder, RingFrom, MemoryTypeOK
  <2>3. P \subseteq D /\ Q \subseteq D /\ p \in P /\ P \intersect Q = {} /\ p \in D
    BY <1>1 DEF With, Without
  <2> HIDE DEF D, P, Q, n
  <2>4. OneRing(D, page, n, P)
    BY <1>1, <2>2, <2>3 DEF OneRing, D
  <2>5. TakenOut(D, page, n, P, p, left)
    BY <2>3, <2>4, RingLess
  <2> HIDE DEF left
  <2>6. /\ left \in [D -> PoolPages] /\ SameStacks(D, page, left) /\ SameLinks(D \ P, page, left)
        /\ Ring(n - 1, left, P \ {p}) /\ page[p].next \in P \ {p}
    BY <2>2, <2>5 DEF TakenOut
  <2>7. DOMAIN page' = D \ {p} /\ page' \in [D \ {p} -> PoolPages] /\ \A q \in D \ {p} : page'[q] = left[q]
    BY <2>1, <2>6
  <2>8. \A q \in D \ {p} : page'[q].availableStackSize = page[q].availableStackSize
    BY <2>6, <2>7 DEF SameStacks
  <2>9. With(page') = P \ {p}
    BY <2>7, <2>8 DEF With, P, D
  <2>10. Without(page') = Q
    BY <1>1, <2>7, <2>8 DEF Without, Q, D
  <2>11. SameLinks(P \ {p}, left, page') /\ SameLinks(Q, page, page')
    BY <2>3, <2>6, <2>7 DEF SameLinks
  <2>12. Ring(n - 1, page', P \ {p}) /\ Ring(unavailablePagesSize, page', Q)
    BY <2>2, <2>6, <2>11, RingElsewhere
  <2>13. MemoryTypeOK'
    <3>1. given' \in [D \ {p} -> Int] /\ blocks' \in [D \ {p} -> Int]
      BY <2>1 DEF PoolInOrder, MemoryTypeOK, D
    <3>2. D \ {p} \subseteq 1 .. MaxPoolPages /\ \A q \in D : page[q].availableStackSize >= 0
      BY DEF PoolInOrder, MemoryTypeOK, D
    <3>3. n - 1 \in Nat
      BY <2>2
    <3> QED BY <2>1, <2>7, <2>8, <3>1, <3>2, <3>3 DEF PoolInOrder, MemoryTypeOK
  <2>14. RingFrom(availablePages, availablePagesSize, page, With(page))'
    BY <2>1, <2>2, <2>6, <2>9, <2>12 DEF RingFrom, HeadWithout
  <2>15. RingFrom(unavailablePages, unavailablePagesSize, page, Without(page))'
    BY <2>1, <2>2, <2>10, <2>12 DEF RingFrom
  <2>16. Accounted'
    BY <2>1, <2>7, <2>8 DEF Accounted, PoolInOrder, D
  <2> QED BY <2>13, <2>14, <2>15, <2>16 DEF PoolInOrder
<1> QED BY <1>2, <1>3

\* A page more, with one of its blocks given.
LEMMA AllocatePageKeeps ==
  ASSUME PoolInOrder, AllocatePage
  PROVE  PoolInOrder'
<1> DEFINE D == DOMAIN page
           p == CHOOSE x \in 1 .. MaxPoolPages \ D : TRUE
           made == [availableStackSize |-> BlocksPerPage - 1, next |-> p, prev |-> p]
<1>1. /\ D \subseteq 1 .. MaxPoolPages /\ page \in [D -> PoolPages]
      /\ given \in [D -> Int] /\ blocks \in [D -> Int]
  BY DEF PoolInOrder, MemoryTypeOK
<1>2. p \in 1 .. MaxPoolPages /\ p \notin D
  <2>1. \E x \in 1 .. MaxPoolPages : x \notin D
    <3>1. SUFFICES ASSUME D = 1 .. MaxPoolPages PROVE FALSE
      BY <1>1
    <3>2. Cardinality(1 .. MaxPoolPages) = MaxPoolPages
      <4>1. MaxPoolPages \in Nat /\ 1 \in Int /\ MaxPoolPages \in Int
        BY MemoryPoolAssumption
      <4>2. Cardinality(1 .. MaxPoolPages) = IF 1 > MaxPoolPages THEN 0 ELSE MaxPoolPages - 1 + 1
        BY <4>1, FS_Interval
      <4> QED BY <4>1, <4>2
    <3> QED BY <3>1, <3>2, MemoryPoolAssumption DEF AllocatePage
  <2> QED BY <2>1
<1>3. /\ page' = [x \in D \union {p} |-> IF x = p THEN made ELSE page[x]]
      /\ blocks' = [x \in D \union {p} |-> IF x = p THEN BlocksPerPage ELSE blocks[x]]
      /\ given' = [x \in D \union {p} |-> IF x = p THEN 1 ELSE given[x]]
      /\ availablePages' = p /\ availablePagesSize = 0 /\ availablePagesSize' = 1
      /\ UNCHANGED <<unavailablePages, unavailablePagesSize, BlocksPerPage>>
  BY DEF AllocatePage
<1> HIDE DEF p, D
<1>4. BlocksPerPage \in BlockCounts /\ BlocksPerPage \in Int /\ BlocksPerPage - 1 > 0
  BY MemoryPoolAssumption DEF PoolInOrder, MemoryTypeOK
<1>5. /\ made \in PoolPages /\ made.availableStackSize = BlocksPerPage - 1
      /\ made.next = p /\ made.prev = p
  BY <1>2, <1>4 DEF PoolPages
<1> HIDE DEF made
<1>6. /\ page' \in [D \union {p} -> PoolPages] /\ DOMAIN page' = D \union {p} /\ page'[p] = made
      /\ \A q \in D : page'[q] = page[q]
  BY <1>1, <1>2, <1>3, <1>5
<1>7. /\ With(page) = {} /\ Ring(unavailablePagesSize, page, Without(page))
      /\ unavailablePagesSize # 0 => unavailablePages \in Without(page)
  BY <1>3 DEF PoolInOrder, RingFrom, Ring
<1>8. With(page') = {p}
  <2>1. \A q \in D : ~(page'[q].availableStackSize > 0)
    BY <1>6, <1>7 DEF With, D
  <2>2. page'[p].availableStackSize > 0
    BY <1>4, <1>5, <1>6
  <2> QED BY <1>6, <2>1, <2>2 DEF With
<1>9. Without(page') = Without(page)
  <2>1. page'[p].availableStackSize # 0
    BY <1>4, <1>5, <1>6
  <2> QED BY <1>6, <2>1 DEF Without, D
<1>10. SameLinks(Without(page), page, page')
  BY <1>6 DEF SameLinks, Without, D
<1>11. Ring(1, page', {p})
  BY <1>5, <1>6, RingAlone
<1>12. RingFrom(availablePages, availablePagesSize, page, With(page))'
  BY <1>3, <1>8, <1>11 DEF RingFrom
<1>13. RingFrom(unavailablePages, unavailablePagesSize, page, Without(page))'
  BY <1>3, <1>7, <1>9, <1>10, RingElsewhere DEF RingFrom
<1>14. MemoryTypeOK'
  <2>1. given' \in [D \union {p} -> Int] /\ blocks' \in [D \union {p} -> Int]
    <3>1. \A x \in D \union {p} : (IF x = p THEN 1 ELSE given[x]) \in Int
      BY <1>1
    <3>2. \A x \in D \union {p} : (IF x = p THEN BlocksPerPage ELSE blocks[x]) \in Int
      BY <1>1, <1>4
    <3>3. given' \in [D \union {p} -> Int]
      BY <1>3, <3>1
    <3>4. blocks' \in [D \union {p} -> Int]
      BY <1>3, <3>2
    <3> QED BY <3>3, <3>4
  <2>2. \A q \in D \union {p} : page'[q].availableStackSize >= 0
    <3>1. \A q \in D : page'[q].availableStackSize >= 0
      BY <1>6 DEF PoolInOrder, MemoryTypeOK, D
    <3>2. page'[p].availableStackSize >= 0
      BY <1>4, <1>5, <1>6
    <3> QED BY <3>1, <3>2
  <2>3. D \union {p} \subseteq 1 .. MaxPoolPages
    BY <1>1, <1>2
  <2> QED BY <1>3, <1>6, <2>1, <2>2, <2>3 DEF PoolInOrder, MemoryTypeOK
<1>15. Accounted'
  <2>1. page'[p].availableStackSize + given'[p] = blocks'[p]
    BY <1>3, <1>4, <1>5, <1>6
  <2>2. \A q \in D : page'[q].availableStackSize + given'[q] = blocks'[q]
    BY <1>2, <1>3, <1>6 DEF PoolInOrder, Accounted, D
  <2> QED BY <1>6, <2>1, <2>2 DEF Accounted
<1> QED BY <1>12, <1>13, <1>14, <1>15 DEF PoolInOrder

LEMMA NoPages ==
  /\ With(<< >>) = {} /\ Without(<< >>) = {} /\ DOMAIN << >> = {}
  /\ << >> \in [{} -> PoolPages] /\ << >> \in [{} -> Int]
<1>1. DOMAIN << >> = {} /\ << >> \in [{} -> PoolPages] /\ << >> \in [{} -> Int]
  OBVIOUS
<1> QED BY <1>1 DEF With, Without

\* Unless it is misused, the pool is in order.
LEMMA MemoryStarts == MemoryInit => MemoryInv
<1> SUFFICES ASSUME MemoryInit PROVE PoolInOrder
  BY DEF MemoryInv
<1>1. MemoryTypeOK
  BY NoPages DEF MemoryInit, MemoryTypeOK
<1> QED BY <1>1, NoPages DEF MemoryInit, PoolInOrder, RingFrom, Ring, Accounted

LEMMA MemoryStep == MemoryInv /\ [MemoryNext]_memoryVars => MemoryInv'
<1> SUFFICES ASSUME MemoryInv, [MemoryNext]_memoryVars, ~misused' PROVE PoolInOrder'
  BY DEF MemoryInv
<1>1. CASE UNCHANGED memoryVars
  <2>1. PoolInOrder
    BY <1>1 DEF MemoryInv, memoryVars
  <2> QED BY <1>1, <2>1 DEF memoryVars, PoolInOrder, MemoryTypeOK, Accounted, RingFrom
<1>2. CASE MemoryNext
  <2>1. PoolInOrder
    BY <1>2 DEF MemoryInv, MemoryNext
  <2>2. CASE Allocate
    BY <2>1, <2>2, AllocateKeeps
  <2>3. CASE AllocatePage
    BY <2>1, <2>3, AllocatePageKeeps
  <2>4. CASE InitPageFails
    BY <2>4 DEF InitPageFails
  <2>5. CASE MemoryClear
    <3>1. BlocksPerPage' \in BlockCounts
      BY <2>1, <2>5 DEF MemoryClear, PoolInOrder, MemoryTypeOK
    <3>2. /\ page' = << >> /\ given' = << >> /\ blocks' = << >>
          /\ availablePagesSize' = 0 /\ unavailablePagesSize' = 0
      BY <2>5 DEF MemoryClear
    <3>3. MemoryTypeOK'
      BY <3>1, <3>2, NoPages DEF MemoryTypeOK
    <3> QED BY <3>2, <3>3, NoPages DEF PoolInOrder, RingFrom, Ring, Accounted
  <2>6. CASE \E p \in DOMAIN page : ReleaseToFull(p) \/ ReleaseToOther(p)
    BY <2>1, <2>6, ReleaseToFullKeeps, ReleaseToOtherKeeps
  <2>7. ASSUME NEW count \in BlockCounts, SetPageSize(count) PROVE PoolInOrder'
    <3>1. page = << >> /\ UNCHANGED <<page, availablePages, unavailablePages, availablePagesSize,
                                      unavailablePagesSize, blocks, given>>
      BY <2>7 DEF SetPageSize
    <3>2. BlocksPerPage' \in BlockCounts
      BY <2>7 DEF SetPageSize
    <3> QED BY <2>1, <3>1, <3>2 DEF PoolInOrder, MemoryTypeOK, Accounted, RingFrom
  <2> QED BY <1>2, <2>2, <2>3, <2>4, <2>5, <2>6, <2>7 DEF MemoryNext
<1> QED BY <1>1, <1>2

THEOREM MemoryInvariance == MemorySpec => []MemoryInv
BY MemoryStarts, MemoryStep, PTL DEF MemorySpec

-----------------------------------------------------------------------------
\* Who walks a ring numbered from its first meets its pages in their order.
LEMMA RingIsWalked ==
  ASSUME NEW first, NEW extent \in Nat, NEW P, RingFrom(first, extent, page, P)
  PROVE  IsRing(first, extent, P)
<1>1. CASE extent = 0
  BY <1>1, FS_EmptySet DEF RingFrom, Ring, IsRing
<1>2. CASE extent # 0
  <2>1. PICK c : RingOf(c, extent, page, P) /\ c[0] = first
    BY <1>2, NumberedFrom DEF RingFrom, Ring
  <2>2. /\ c \in [0 .. extent -> P] /\ c[extent] = c[0]
        /\ \A i \in 0 .. extent - 1 : page[c[i]].next = c[i + 1] /\ page[c[i + 1]].prev = c[i]
        /\ \A p \in P : \E i \in 0 .. extent - 1 : c[i] = p
    BY <2>1 DEF RingOf
  <2> DEFINE Walk(w) == w = [k \in 0 .. extent |-> IF k = 0 THEN first ELSE page[w[k - 1]].next]
             walk == CHOOSE w : Walk(w)
  <2>3. Walk(c)
    <3>1. \A k \in 0 .. extent : c[k] = IF k = 0 THEN first ELSE page[c[k - 1]].next
      <4> SUFFICES ASSUME NEW k \in 0 .. extent, k # 0 PROVE c[k] = page[c[k - 1]].next
        BY <2>1
      <4>1. k - 1 \in 0 .. extent - 1 /\ (k - 1) + 1 = k
        OBVIOUS
      <4> QED BY <2>2, <4>1
    <3> QED BY <2>2, <3>1
  <2>4. Walk(walk)
    <3> HIDE DEF Walk
    <3> QED BY <2>3
  <2>5. walk[0] = first /\ \A k \in 0 .. extent - 1 : walk[k + 1] = page[walk[k]].next
    <3>1. 0 \in 0 .. extent /\ \A k \in 0 .. extent - 1 : k + 1 \in 0 .. extent /\ k + 1 # 0 /\ (k + 1) - 1 = k
      OBVIOUS
    <3> HIDE DEF walk
    <3> QED BY <2>4, <3>1
  <2> HIDE DEF walk
  <2>6. \A k \in 0 .. extent : walk[k] = c[k]
    <3> DEFINE S == {k \in Nat : walk[k] = c[k]}
    <3>1. 0 \in S
      BY <2>1, <2>5
    <3>2. ASSUME NEW k \in 0 .. extent - 1, k \in S PROVE k + 1 \in S
      <4>1. walk[k + 1] = page[walk[k]].next /\ page[c[k]].next = c[k + 1] /\ walk[k] = c[k]
        BY <2>2, <2>5, <3>2
      <4> QED BY <4>1
    <3>3. 0 .. extent \subseteq S
      <4> HIDE DEF S
      <4> QED BY <3>1, <3>2, UpToInSet
    <3> QED BY <3>3
  <2>7. 0 \in 0 .. extent /\ extent \in 0 .. extent /\ \A i \in 0 .. extent - 1 : i \in 0 .. extent
    OBVIOUS
  <2>8. walk[extent] = first /\ first \in P
    BY <2>1, <2>2, <2>6, <2>7
  <2>9. {walk[k] : k \in 0 .. extent} = P
    <3>1. \A k \in 0 .. extent : walk[k] \in P
      BY <2>2, <2>6
    <3>2. \A p \in P : \E k \in 0 .. extent : walk[k] = p
      BY <2>2, <2>6, <2>7
    <3> QED BY <3>1, <3>2
  <2>10. ASSUME NEW p \in P PROVE page[page[p].next].prev = p
    <3>1. PICK i \in 0 .. extent - 1 : c[i] = p
      BY <2>2
    <3> QED BY <2>2, <3>1
  <2>11. extent = Cardinality(P)
    BY <2>1, RingCounts
  <2> QED BY <2>8, <2>9, <2>10, <2>11 DEF IsRing, walk
<1> QED BY <1>1, <1>2

\* However blocks come and go, for any number of pages: the rings hold exactly the
\* pages with and without a free block, and every block is free or given.
THEOREM MemoryCorrect == MemorySpec => []PoolAccounted
<1>1. MemoryInv => PoolAccounted
  <2> SUFFICES ASSUME PoolInOrder PROVE PoolAccounted
    BY DEF MemoryInv, PoolAccounted
  <2>1. IsRing(availablePages, availablePagesSize, With(page))
    BY RingIsWalked DEF PoolInOrder, MemoryTypeOK
  <2>2. IsRing(unavailablePages, unavailablePagesSize, Without(page))
    BY RingIsWalked DEF PoolInOrder, MemoryTypeOK
  <2> HIDE DEF IsRing
  <2> QED BY <2>1, <2>2 DEF PoolAccounted, PoolInOrder, Accounted, With, Without
<1> QED BY <1>1, MemoryInvariance, PTL

-----------------------------------------------------------------------------
(***************************************************************************)
(* The delta serializer.  A tick is a recursive function of the variables, *)
(* so that what it leaves is an induction over them; a message is then     *)
(* followed by its receipt.                                                *)
(***************************************************************************)
Nodes == [lastData : VarValues, isDirty : BOOLEAN]
\* A state of the serialization of a tick.
Ticks == [list : Seq(Nodes), written : SUBSET Vars, bits : SUBSET Int]

\* After the first k variables: what was written has the new value and its bit set, and
\* the rest is what it was, but perhaps for a flag.
InTick(s, k) ==
  /\ s \in Ticks /\ s.written \subseteq 1 .. k /\ s.written \subseteq s.bits
  /\ Len(s.list) = IF k < Len(variableList) THEN Len(variableList) ELSE k
  /\ \A v \in DOMAIN s.list :
       IF v \in s.written THEN s.list[v].lastData = varData[v]
       ELSE v \in DOMAIN variableList /\ s.list[v].lastData = variableList[v].lastData

DeltaTypeOK ==
  /\ varData \in [Vars -> VarValues] /\ variableList \in Seq(Nodes)
  /\ Len(variableList) <= NumVars
  /\ sendReceipt \in Nat
  /\ \A m \in network : m.receipt \in 1 .. sendReceipt
  /\ DOMAIN changedVariables \subseteq 1 .. sendReceipt /\ arrived \subseteq DOMAIN changedVariables
  /\ DOMAIN varsRead = Vars /\ newestRead \in [Vars -> Nat]

LEMMA WrittenVar ==
  ASSUME NEW list \in Seq(Nodes), NEW v \in 1 .. Len(list) + 1, NEW x \in VarValues
  PROVE  /\ WriteVar(list, v, x) \in Seq(Nodes)
         /\ Len(WriteVar(list, v, x)) = IF v > Len(list) THEN v ELSE Len(list)
         /\ WriteVar(list, v, x)[v].lastData = x
         /\ \A u \in 1 .. Len(list) \ {v} : WriteVar(list, v, x)[u].lastData = list[u].lastData
<1>1. Node(x) \in Nodes /\ Node(x).lastData = x
  BY DEF Node, Nodes
<1>2. CASE v > Len(list)
  <2>1. v = Len(list) + 1 /\ WriteVar(list, v, x) = Append(list, Node(x))
    BY <1>2 DEF WriteVar
  <2> QED BY <1>1, <1>2, <2>1
<1>3. CASE ~(v > Len(list))
  <2>1. v \in DOMAIN list /\ DOMAIN list = 1 .. Len(list) /\ Len(list) \in Nat
    BY <1>3
  <2>2. CASE list[v].lastData[1] # x[1]
    <3> DEFINE new == [u \in DOMAIN list |->
                         CASE u = v -> [list[v] EXCEPT !.lastData = x]
                           [] u = v + 1 -> [list[u] EXCEPT !.isDirty = FALSE]
                           [] OTHER -> list[u]]
    <3>1. WriteVar(list, v, x) = new
      BY <1>3, <2>2 DEF WriteVar
    <3>2. new[v] = [list[v] EXCEPT !.lastData = x]
      BY <2>1
    <3>3. \A u \in DOMAIN list : u # v => new[u] \in {[list[u] EXCEPT !.isDirty = FALSE], list[u]}
      BY <2>1
    <3>4. \A n \in Nodes : /\ [n EXCEPT !.lastData = x] \in Nodes
                           /\ [n EXCEPT !.lastData = x].lastData = x
                           /\ [n EXCEPT !.isDirty = FALSE] \in Nodes
                           /\ [n EXCEPT !.isDirty = FALSE].lastData = n.lastData
      BY DEF Nodes
    <3>5. \A u \in DOMAIN list : list[u] \in Nodes
      OBVIOUS
    <3>6. new = [u \in 1 .. Len(list) |-> new[u]]
      BY <2>1
    <3> HIDE DEF new
    <3>7. ASSUME NEW u \in DOMAIN list
          PROVE  new[u] \in Nodes /\ new[u].lastData = IF u = v THEN x ELSE list[u].lastData
      <4>1. list[u] \in Nodes /\ list[v] \in Nodes
        BY <2>1, <3>5
      <4>2. CASE u = v
        BY <3>2, <3>4, <4>1, <4>2
      <4>3. CASE u # v
        <5>1. new[u] = [list[u] EXCEPT !.isDirty = FALSE] \/ new[u] = list[u]
          BY <3>3, <4>3
        <5> QED BY <3>4, <4>1, <4>3, <5>1
      <4> QED BY <4>2, <4>3
    <3>8. new \in Seq(Nodes) /\ Len(new) = Len(list)
      <4>1. new \in [1 .. Len(list) -> Nodes]
        <5>1. \A u \in 1 .. Len(list) : new[u] \in Nodes
          BY <2>1, <3>7
        <5> QED BY <3>6, <5>1
      <4> QED BY <2>1, <4>1
    <3> QED BY <1>3, <2>1, <3>1, <3>7, <3>8
  <2>3. CASE ~(list[v].lastData[1] # x[1])
    <3>1. WriteVar(list, v, x) = [list EXCEPT ![v] = Node(x)]
      BY <1>3, <2>3 DEF WriteVar
    <3> QED BY <1>1, <1>3, <2>1, <3>1
  <2> QED BY <2>2, <2>3
<1> QED BY <1>2, <1>3

\* The fold over the variables is one, and steps as it should.
LEMMA SerializedSteps ==
  ASSUME NEW bits
  PROVE  \E f : /\ f[0] = [list |-> variableList, written |-> {}, bits |-> bits]
                /\ \A v \in 1 .. NumVars : f[v] = SerializeVariable(f[v - 1], v)
                /\ Serialized(bits) = f[NumVars]
<1> DEFINE start == [list |-> variableList, written |-> {}, bits |-> bits]
           Fold(n, f) == f = [v \in 0 .. n |-> IF v = 0 THEN start ELSE SerializeVariable(f[v - 1], v)]
           S == {n \in Nat : \E f : Fold(n, f)}
<1>1. NumVars \in Nat
  BY DeltaAssumption
<1> HIDE DEF start
<1>2. 0 \in S
  <2>1. Fold(0, [v \in 0 .. 0 |-> start])
    OBVIOUS
  <2> HIDE DEF Fold
  <2> QED BY <2>1
<1>3. ASSUME NEW n \in Nat, n \in S PROVE n + 1 \in S
  <2>1. PICK f : Fold(n, f)
    BY <1>3
  <2> DEFINE g == [v \in 0 .. n + 1 |-> IF v \in 0 .. n THEN f[v] ELSE SerializeVariable(f[n], n + 1)]
  <2>2. \A v \in 0 .. n : g[v] = f[v]
    OBVIOUS
  <2>3. g[n + 1] = SerializeVariable(f[n], n + 1)
    OBVIOUS
  <2>4. \A v \in 0 .. n + 1 : v # 0 => v - 1 \in 0 .. n
    OBVIOUS
  <2>5. DOMAIN g = 0 .. n + 1 /\ g = [v \in 0 .. n + 1 |-> g[v]]
    OBVIOUS
  <2> HIDE DEF g
  <2>6. ASSUME NEW v \in 0 .. n + 1
        PROVE  g[v] = IF v = 0 THEN start ELSE SerializeVariable(g[v - 1], v)
    <3>1. CASE v \in 0 .. n
      <4>1. f[v] = IF v = 0 THEN start ELSE SerializeVariable(f[v - 1], v)
        BY <2>1, <3>1
      <4> QED BY <2>2, <2>4, <3>1, <4>1
    <3>2. CASE v \notin 0 .. n
      <4>1. v = n + 1 /\ v # 0 /\ v - 1 = n /\ n \in 0 .. n
        BY <3>2
      <4> QED BY <2>2, <2>3, <4>1
    <3> QED BY <3>1, <3>2
  <2>7. Fold(n + 1, g)
    BY <2>5, <2>6
  <2> HIDE DEF Fold
  <2> QED BY <2>7
<1>4. NumVars \in S
  <2> HIDE DEF S
  <2> QED BY <1>1, <1>2, <1>3, NatInSet
<1> DEFINE after == CHOOSE f : Fold(NumVars, f)
<1>5. Fold(NumVars, after)
  <2> HIDE DEF Fold
  <2> QED BY <1>4
<1>6. Serialized(bits) = after[NumVars]
  BY DEF Serialized, start
<1> HIDE DEF after
<1>7. after[0] = start /\ \A v \in 1 .. NumVars : after[v] = SerializeVariable(after[v - 1], v)
  <2>1. 0 \in 0 .. NumVars /\ \A v \in 1 .. NumVars : v \in 0 .. NumVars /\ v # 0
    BY <1>1
  <2> QED BY <1>5, <2>1
<1> QED BY <1>6, <1>7 DEF start

LEMMA SerializesOne ==
  ASSUME varData \in [Vars -> VarValues], variableList \in Seq(Nodes),
         NEW s, NEW v \in Vars, InTick(s, v - 1)
  PROVE  InTick(SerializeVariable(s, v), v)
<1> DEFINE x == varData[v]
           different == IsDifferent(s.list, v, x)
           t == SerializeVariable(s, v)
<1>1. /\ v \in Nat /\ v > 0 /\ x \in VarValues /\ s \in Ticks /\ s.list \in Seq(Nodes)
      /\ s.written \subseteq 1 .. v - 1 /\ s.written \subseteq s.bits /\ s.bits \subseteq Int
      /\ Len(s.list) = (IF v - 1 < Len(variableList) THEN Len(variableList) ELSE v - 1)
      /\ Len(variableList) \in Nat /\ Len(s.list) \in Nat
  <2>1. v \in Nat /\ v > 0 /\ x \in VarValues
    BY DeltaAssumption DEF Vars
  <2>2. s \in Ticks /\ s.written \subseteq 1 .. v - 1 /\ s.written \subseteq s.bits
        /\ Len(s.list) = (IF v - 1 < Len(variableList) THEN Len(variableList) ELSE v - 1)
    BY DEF InTick
  <2>3. s.list \in Seq(Nodes) /\ s.bits \subseteq Int
    BY <2>2 DEF Ticks
  <2> QED BY <2>1, <2>2, <2>3
<1>2. /\ t.list = IF different THEN WriteVar(s.list, v, x) ELSE s.list
      /\ t.written = IF different THEN s.written \union {v} ELSE s.written
      /\ t.bits = BitsWith(s.bits, v, different)
      /\ t = [list |-> t.list, written |-> t.written, bits |-> t.bits]
  BY DEF SerializeVariable
<1>3. v \in 1 .. Len(s.list) + 1 /\ (v > Len(s.list) => different)
  BY <1>1 DEF IsDifferent
<1>4. /\ WriteVar(s.list, v, x) \in Seq(Nodes)
      /\ Len(WriteVar(s.list, v, x)) = IF v > Len(s.list) THEN v ELSE Len(s.list)
      /\ WriteVar(s.list, v, x)[v].lastData = x
      /\ \A u \in 1 .. Len(s.list) \ {v} : WriteVar(s.list, v, x)[u].lastData = s.list[u].lastData
  <2>1. s.list \in Seq(Nodes) /\ v \in 1 .. Len(s.list) + 1 /\ x \in VarValues
    BY <1>1, <1>3
  <2> QED BY <2>1, WrittenVar, Zenon
<1>5. t.bits \subseteq Int /\ t.written \subseteq t.bits
  <2>1. \A u \in 1 .. v - 1 : u \notin v .. v + ByteBits - 1
    BY <1>1
  <2> HIDE DEF different, t
  <2>2. s.written \subseteq BitsWith(s.bits, v, different)
    BY <1>1, <2>1 DEF BitsWith
  <2>3. different => v \in BitsWith(s.bits, v, different)
    BY DEF BitsWith
  <2>4. BitsWith(s.bits, v, different) \subseteq s.bits \union {v}
    BY DEF BitsWith
  <2> QED BY <1>1, <1>2, <2>2, <2>3, <2>4
<1> HIDE DEF different, t
<1>6. /\ t.list \in Seq(Nodes)
      /\ Len(t.list) = IF v < Len(variableList) THEN Len(variableList) ELSE v
  BY <1>1, <1>2, <1>3, <1>4
<1>7. t.written \subseteq 1 .. v /\ t.written \subseteq Vars
  <2>1. 1 .. v - 1 \subseteq 1 .. v /\ v \in 1 .. v /\ 1 .. v \subseteq Vars
    BY <1>1, DeltaAssumption DEF Vars
  <2> QED BY <1>1, <1>2, <2>1
<1>8. t \in Ticks
  BY <1>2, <1>5, <1>6, <1>7 DEF Ticks
<1>9. ASSUME NEW u \in DOMAIN t.list
      PROVE  IF u \in t.written THEN t.list[u].lastData = varData[u]
             ELSE u \in DOMAIN variableList /\ t.list[u].lastData = variableList[u].lastData
  <2>1. v \notin s.written
    BY <1>1
  <2>2. u \in DOMAIN s.list =>
          IF u \in s.written THEN s.list[u].lastData = varData[u]
          ELSE u \in DOMAIN variableList /\ s.list[u].lastData = variableList[u].lastData
    BY DEF InTick
  <2>3. CASE different
    <3>1. CASE u = v
      BY <1>2, <1>4, <2>3, <3>1
    <3>2. CASE u # v
      <4>1. u \in 1 .. Len(s.list) /\ u \in DOMAIN s.list
        BY <1>1, <1>2, <1>4, <1>6, <2>3, <3>2
      <4> QED BY <1>2, <1>4, <2>2, <2>3, <3>2, <4>1
    <3> QED BY <3>1, <3>2
  <2>4. CASE ~different
    BY <1>2, <2>2, <2>4
  <2> QED BY <2>3, <2>4
<1>10. InTick(t, v)
  BY <1>5, <1>6, <1>7, <1>8, <1>9 DEF InTick
<1> QED BY <1>10 DEF t

LEMMA SerializesAll ==
  ASSUME varData \in [Vars -> VarValues], variableList \in Seq(Nodes),
         Len(variableList) <= NumVars, NEW bits \in {{}, Vars}
  PROVE  InTick(Serialized(bits), NumVars)
<1>1. PICK f : /\ f[0] = [list |-> variableList, written |-> {}, bits |-> bits]
               /\ \A v \in 1 .. NumVars : f[v] = SerializeVariable(f[v - 1], v)
               /\ Serialized(bits) = f[NumVars]
  BY SerializedSteps
<1> DEFINE S == {k \in Nat : InTick(f[k], k)}
<1>2. NumVars \in Nat
  BY DeltaAssumption
<1>3. 0 \in S
  <2>1. f[0].list = variableList /\ f[0].written = {} /\ f[0].bits = bits /\ f[0] \in Ticks
    BY <1>1, <1>2 DEF Ticks, Vars
  <2>2. Len(variableList) \in Nat
    OBVIOUS
  <2> QED BY <2>1, <2>2 DEF InTick
<1>4. ASSUME NEW k \in 0 .. NumVars - 1, k \in S PROVE k + 1 \in S
  <2>1. k + 1 \in Vars /\ (k + 1) - 1 = k /\ k + 1 \in Nat
    BY <1>2 DEF Vars
  <2>2. InTick(f[k], (k + 1) - 1)
    BY <1>4, <2>1
  <2>3. InTick(SerializeVariable(f[k], k + 1), k + 1)
    BY <2>1, <2>2, SerializesOne
  <2>4. f[k + 1] = SerializeVariable(f[k], k + 1)
    BY <1>1, <2>1 DEF Vars
  <2> QED BY <2>1, <2>3, <2>4
<1>5. NumVars \in S
  <2> HIDE DEF S
  <2>1. 0 .. NumVars \subseteq S
    BY <1>2, <1>3, <1>4, UpToInSet
  <2> QED BY <1>2, <2>1
<1> QED BY <1>1, <1>5

-----------------------------------------------------------------------------
(***************************************************************************)
(* The invariant.  newest is the receipt of the last message each variable *)
(* was written to: it has been read, or the variable is dirty or lost its  *)
(* flag, or the receipt has still to come.                                 *)
(***************************************************************************)
Pending(v, r) == r \in DOMAIN changedVariables \ arrived /\ v \in changedVariables[r]
Knows(newest) ==
  /\ newest \in [Vars -> 0 .. sendReceipt]
  /\ \A v \in Vars : newestRead[v] <= newest[v]
  /\ \A m \in network, v \in Vars : v \in DOMAIN m.data => m.receipt <= newest[v]
  /\ \A m \in network, v \in DOMAIN variableList :
       m.receipt = newest[v] => v \in DOMAIN m.data /\ m.data[v] = variableList[v].lastData
  /\ \A v \in DOMAIN variableList :
       newestRead[v] = newest[v] /\ v \notin setBack => varsRead[v] = variableList[v].lastData
  /\ \A v \in DOMAIN variableList :
       \/ newestRead[v] = newest[v] \/ variableList[v].isDirty \/ v \in unflagged
       \/ Pending(v, newest[v])
DeltaInv == DeltaTypeOK /\ \E newest : Knows(newest)

LEMMA DeltaStarts == DeltaInit => DeltaInv
<1> SUFFICES ASSUME DeltaInit PROVE DeltaInv
  OBVIOUS
<1> DEFINE newest == [v \in Vars |-> 0]
<1>1. (CHOOSE x \in VarValues : TRUE) \in VarValues
  BY DeltaAssumption
<1>2. << >> \in Seq(Nodes) /\ Len(<< >>) = 0 /\ DOMAIN << >> = {}
  OBVIOUS
<1>3. DeltaTypeOK
  BY <1>1, <1>2, DeltaAssumption DEF DeltaInit, DeltaTypeOK
<1>4. Knows(newest)
  BY <1>2 DEF DeltaInit, Knows
<1> QED BY <1>3, <1>4 DEF DeltaInv

LEMMA SendKeeps ==
  ASSUME DeltaInv, SerializeAndSend
  PROVE  DeltaInv'
<1>1. PICK newest : Knows(newest)
  BY DEF DeltaInv
<1>2. PICK bits \in {{}, Vars} :
        LET s == Serialized(bits)
            cleared == {v \in DOMAIN variableList : variableList[v].isDirty /\ ~s.list[v].isDirty}
        IN  /\ s.written # {} /\ sendReceipt < MaxReceipts
            /\ variableList' = s.list
            /\ sendReceipt' = sendReceipt + 1
            /\ network' = network \union
                 {[receipt |-> sendReceipt + 1, data |-> [v \in s.written |-> varData[v]]]}
            /\ changedVariables' = [r \in DOMAIN changedVariables \union {sendReceipt + 1} |->
                 IF r = sendReceipt + 1 THEN s.bits ELSE changedVariables[r]]
            /\ unflagged' = (unflagged \union cleared) \ s.written
            /\ UNCHANGED <<varData, arrived, varsRead, newestRead, setBack>>
  BY DEF SerializeAndSend
<1> DEFINE s == Serialized(bits)
           r0 == sendReceipt + 1
           m0 == [receipt |-> r0, data |-> [v \in s.written |-> varData[v]]]
<1>3. /\ variableList' = s.list /\ sendReceipt' = r0 /\ network' = network \union {m0}
      /\ DOMAIN changedVariables' = DOMAIN changedVariables \union {r0}
      /\ changedVariables'[r0] = s.bits
      /\ \A r \in DOMAIN changedVariables : r # r0 => changedVariables'[r] = changedVariables[r]
      /\ UNCHANGED <<varData, arrived, varsRead, newestRead, setBack>>
      /\ \A v : v \notin s.written =>
           /\ v \in unflagged => v \in unflagged'
           /\ v \in DOMAIN variableList /\ variableList[v].isDirty /\ ~s.list[v].isDirty
                => v \in unflagged'
  BY <1>2
<1>4. /\ m0.receipt = r0 /\ DOMAIN m0.data = s.written
      /\ \A v \in s.written : m0.data[v] = varData[v]
  OBVIOUS
<1>5. /\ varData \in [Vars -> VarValues] /\ variableList \in Seq(Nodes)
      /\ Len(variableList) <= NumVars /\ sendReceipt \in Nat /\ r0 \in Nat /\ NumVars \in Nat
      /\ \A m \in network : m.receipt \in 1 .. sendReceipt
      /\ DOMAIN changedVariables \subseteq 1 .. sendReceipt /\ arrived \subseteq DOMAIN changedVariables
      /\ newestRead \in [Vars -> Nat] /\ DOMAIN varsRead = Vars
  BY DeltaAssumption DEF DeltaInv, DeltaTypeOK
<1>6. InTick(s, NumVars)
  BY <1>5, SerializesAll
<1> HIDE DEF s, m0
<1>7. /\ s.list \in Seq(Nodes) /\ s.written \subseteq Vars /\ s.written \subseteq s.bits
      /\ Len(s.list) = NumVars /\ DOMAIN s.list = Vars
      /\ \A v \in Vars :
           IF v \in s.written THEN s.list[v].lastData = varData[v]
           ELSE v \in DOMAIN variableList /\ s.list[v].lastData = variableList[v].lastData
  <2>1. /\ s.list \in Seq(Nodes) /\ s.written \subseteq Vars /\ s.written \subseteq s.bits
        /\ Len(s.list) = IF NumVars < Len(variableList) THEN Len(variableList) ELSE NumVars
    BY <1>6 DEF InTick, Ticks
  <2>2. Len(s.list) = NumVars /\ DOMAIN s.list = Vars
    BY <1>5, <2>1 DEF Vars
  <2> QED BY <1>6, <2>1, <2>2 DEF InTick
<1>8. DeltaTypeOK'
  <2>1. 1 .. sendReceipt \subseteq 1 .. r0 /\ r0 \in 1 .. r0
    BY <1>5
  <2>2. \A m \in network' : m.receipt \in 1 .. r0
    BY <1>3, <1>4, <1>5, <2>1
  <2>3. DOMAIN changedVariables' \subseteq 1 .. r0
    BY <1>3, <1>5, <2>1
  <2>4. Len(s.list) <= NumVars
    BY <1>5, <1>7
  <2> QED BY <1>3, <1>5, <1>7, <2>2, <2>3, <2>4 DEF DeltaTypeOK
<1>9. \A v \in Vars : newest[v] \in 0 .. sendReceipt /\ newest[v] # r0 /\ newestRead[v] <= newest[v]
  <2>1. \A n \in 0 .. sendReceipt : n # r0
    BY <1>5
  <2> QED BY <1>1, <2>1 DEF Knows
<1>10. PICK now \in [Vars -> 0 .. r0] :
         \A v \in Vars : now[v] = IF v \in s.written THEN r0 ELSE newest[v]
  <2>1. [v \in Vars |-> IF v \in s.written THEN r0 ELSE newest[v]] \in [Vars -> 0 .. r0]
    BY <1>5, <1>9
  <2> QED BY <2>1
<1>11. now \in [Vars -> 0 .. r0]
  OBVIOUS
<1>12. \A v \in Vars : newestRead[v] <= now[v] /\ (v \in s.written => newestRead[v] # now[v])
  <2> SUFFICES ASSUME NEW v \in Vars
               PROVE  newestRead[v] <= now[v] /\ (v \in s.written => newestRead[v] # now[v])
    OBVIOUS
  <2>1. newestRead[v] \in Nat /\ newest[v] \in 0 .. sendReceipt /\ newestRead[v] <= newest[v]
    BY <1>5, <1>9
  <2>2. newestRead[v] <= r0 /\ newestRead[v] # r0
    BY <1>5, <2>1
  <2> QED BY <1>10, <2>1, <2>2
<1>13. ASSUME NEW m \in network', NEW v \in Vars, v \in DOMAIN m.data PROVE m.receipt <= now[v]
  <2>1. CASE m = m0
    BY <1>4, <1>5, <1>7, <1>10, <1>13, <2>1
  <2>2. CASE m \in network
    <3>1. m.receipt <= newest[v] /\ m.receipt \in 1 .. sendReceipt
      BY <1>1, <1>5, <1>13, <2>2 DEF Knows
    <3>2. m.receipt <= r0
      BY <1>5, <3>1
    <3> QED BY <1>10, <3>1, <3>2
  <2> QED BY <1>3, <2>1, <2>2
<1>14. ASSUME NEW m \in network', NEW v \in Vars, m.receipt = now[v]
       PROVE  v \in DOMAIN m.data /\ m.data[v] = s.list[v].lastData
  <2>1. CASE m = m0
    <3>1. v \in s.written
      BY <1>4, <1>9, <1>10, <1>14, <2>1
    <3> QED BY <1>4, <1>7, <2>1, <3>1
  <2>2. CASE m \in network
    <3>1. v \notin s.written
      <4>1. m.receipt # r0
        BY <1>5, <2>2
      <4> QED BY <1>10, <1>14, <4>1
    <3>2. v \in DOMAIN variableList /\ m.receipt = newest[v]
      BY <1>7, <1>10, <1>14, <3>1
    <3> QED BY <1>1, <1>7, <2>2, <3>1, <3>2 DEF Knows
  <2> QED BY <1>3, <2>1, <2>2
<1>15. ASSUME NEW v \in Vars, newestRead[v] = now[v], v \notin setBack
       PROVE  varsRead[v] = s.list[v].lastData
  <2>1. v \notin s.written
    BY <1>12, <1>15
  <2> QED BY <1>1, <1>7, <1>10, <1>15, <2>1 DEF Knows
<1>16. ASSUME NEW v \in Vars
       PROVE  newestRead[v] = now[v] \/ s.list[v].isDirty \/ v \in unflagged' \/ Pending(v, now[v])'
  <2>1. CASE v \in s.written
    <3>1. r0 \notin arrived
      BY <1>5
    <3>2. r0 \in DOMAIN changedVariables' \ arrived' /\ v \in changedVariables'[r0]
      BY <1>3, <1>7, <2>1, <3>1
    <3> QED BY <1>10, <2>1, <3>2 DEF Pending
  <2>2. CASE v \notin s.written
    <3>1. now[v] = newest[v] /\ v \in DOMAIN variableList
      BY <1>7, <1>10, <2>2
    <3>2. newestRead[v] = newest[v] \/ variableList[v].isDirty \/ v \in unflagged
          \/ Pending(v, newest[v])
      BY <1>1, <3>1 DEF Knows
    <3>3. Pending(v, newest[v]) => Pending(v, now[v])'
      BY <1>3, <1>9, <3>1 DEF Pending
    <3> QED BY <1>3, <2>2, <3>1, <3>2, <3>3
  <2> QED BY <2>1, <2>2
<1>17. Knows(now)'
  BY <1>3, <1>7, <1>11, <1>12, <1>13, <1>14, <1>15, <1>16 DEF Knows
<1> QED BY <1>8, <1>17 DEF DeltaInv

LEMMA DeserializeKeeps ==
  ASSUME DeltaInv, NEW m \in network, Deserialize(m)
  PROVE  DeltaInv'
<1>1. PICK newest : Knows(newest)
  BY DEF DeltaInv
<1>2. /\ network' = network \ {m} /\ arrived' \subseteq arrived \union {m.receipt}
      /\ UNCHANGED <<varData, variableList, sendReceipt, changedVariables, unflagged>>
      /\ DOMAIN varsRead' = Vars /\ DOMAIN newestRead' = Vars
      /\ \A v \in Vars :
           /\ varsRead'[v] = IF v \in DOMAIN m.data THEN m.data[v] ELSE varsRead[v]
           /\ newestRead'[v] = IF v \in DOMAIN m.data /\ m.receipt > newestRead[v]
                                 THEN m.receipt ELSE newestRead[v]
           /\ v \notin setBack' => IF v \in DOMAIN m.data THEN ~(m.receipt < newestRead[v])
                                                          ELSE v \notin setBack
  BY DEF Deserialize
<1>3. arrived' \subseteq DOMAIN changedVariables
  BY DEF Deserialize, DeltaInv, DeltaTypeOK
<1>4. m.receipt \in Nat /\ \A v \in Vars : newestRead[v] \in Nat /\ newest[v] \in Nat
  BY <1>1 DEF DeltaInv, DeltaTypeOK, Knows
<1>5. DOMAIN variableList \subseteq Vars /\ newestRead = [v \in Vars |-> newestRead[v]]
  BY DeltaAssumption, SMTT(30) DEF DeltaInv, DeltaTypeOK, Vars
<1>6. newestRead' \in [Vars -> Nat]
  <2>1. newestRead' = [v \in Vars |-> newestRead'[v]]
    BY DEF Deserialize
  <2>2. \A v \in Vars : newestRead'[v] \in Nat
    BY <1>2, <1>4
  <2> QED BY <2>1, <2>2
<1>7. DeltaTypeOK'
  BY <1>2, <1>3, <1>6 DEF DeltaInv, DeltaTypeOK
<1>8. \A v \in Vars : /\ newestRead[v] <= newest[v]
                      /\ v \in DOMAIN m.data => m.receipt <= newest[v]
  BY <1>1 DEF Knows
<1>9. \A v \in Vars : newestRead'[v] <= newest[v]
  BY <1>2, <1>8
<1>10. ASSUME NEW v \in DOMAIN variableList, newestRead'[v] = newest[v], v \notin setBack'
       PROVE  varsRead'[v] = variableList[v].lastData
  <2>1. CASE v \in DOMAIN m.data
    <3>1. m.receipt = newest[v]
      BY <1>2, <1>4, <1>5, <1>8, <1>10, <2>1
    <3>2. m.data[v] = variableList[v].lastData
      BY <1>1, <3>1 DEF Knows
    <3> QED BY <1>2, <1>5, <2>1, <3>2
  <2>2. CASE v \notin DOMAIN m.data
    <3>1. newestRead[v] = newest[v] /\ v \notin setBack /\ varsRead'[v] = varsRead[v]
      BY <1>2, <1>5, <1>10, <2>2
    <3> QED BY <1>1, <3>1 DEF Knows
  <2> QED BY <2>1, <2>2
<1>11. ASSUME NEW v \in DOMAIN variableList
       PROVE  newestRead'[v] = newest[v] \/ variableList[v].isDirty \/ v \in unflagged
              \/ Pending(v, newest[v])'
  <2>1. newestRead[v] = newest[v] \/ variableList[v].isDirty \/ v \in unflagged
        \/ Pending(v, newest[v])
    BY <1>1 DEF Knows
  <2>2. CASE newestRead[v] = newest[v]
    BY <1>2, <1>4, <1>5, <1>8, <2>2
  <2>3. CASE m.receipt = newest[v]
    <3>1. v \in DOMAIN m.data
      BY <1>1, <2>3 DEF Knows
    <3> QED BY <1>2, <1>4, <1>5, <1>8, <2>3, <3>1
  <2>4. CASE m.receipt # newest[v]
    <3>1. Pending(v, newest[v]) => Pending(v, newest[v])'
      BY <1>2, <2>4 DEF Pending
    <3> QED BY <2>1, <2>2, <3>1
  <2> QED BY <2>3, <2>4
<1>12. Knows(newest)'
  BY <1>1, <1>2, <1>9, <1>10, <1>11 DEF Knows
<1> QED BY <1>7, <1>12 DEF DeltaInv

LEMMA ReceiptKeeps ==
  ASSUME DeltaInv, NEW r \in DOMAIN changedVariables, NEW ok \in BOOLEAN, OnMessageReceipt(r, ok)
  PROVE  DeltaInv'
<1>1. PICK newest : Knows(newest)
  BY DEF DeltaInv
<1>2. /\ ok => r \in arrived
      /\ arrived' = arrived \ {r} /\ DOMAIN changedVariables' = DOMAIN changedVariables \ {r}
      /\ \A q \in DOMAIN changedVariables \ {r} : changedVariables'[q] = changedVariables[q]
      /\ UNCHANGED <<varData, sendReceipt, network, varsRead, newestRead, setBack, unflagged>>
  BY DEF OnMessageReceipt
<1>3. /\ variableList' \in Seq(Nodes) /\ Len(variableList') = Len(variableList)
      /\ DOMAIN variableList' = DOMAIN variableList
      /\ \A v \in DOMAIN variableList :
           /\ variableList'[v].lastData = variableList[v].lastData
           /\ variableList[v].isDirty => variableList'[v].isDirty
           /\ ~ok /\ v \in changedVariables[r] => variableList'[v].isDirty
  <2>1. variableList \in Seq(Nodes)
    BY DEF DeltaInv, DeltaTypeOK
  <2>2. CASE ok
    BY <2>1, <2>2 DEF OnMessageReceipt
  <2>3. CASE ~ok
    <3>1. variableList' = [v \in DOMAIN variableList |->
                             [variableList[v] EXCEPT !.isDirty = @ \/ v \in changedVariables[r]]]
      BY <2>3 DEF OnMessageReceipt
    <3>2. DOMAIN variableList = 1 .. Len(variableList) /\ Len(variableList) \in Nat
      BY <2>1
    <3>3. ASSUME NEW v \in DOMAIN variableList
          PROVE  /\ variableList'[v] \in Nodes
                 /\ variableList'[v].lastData = variableList[v].lastData
                 /\ variableList[v].isDirty => variableList'[v].isDirty
                 /\ v \in changedVariables[r] => variableList'[v].isDirty
      <4>1. variableList[v] \in Nodes
        BY <2>1
      <4>2. variableList'[v] = [variableList[v] EXCEPT !.isDirty =
                                  variableList[v].isDirty \/ v \in changedVariables[r]]
        BY <3>1
      <4>3. CASE variableList[v].isDirty \/ v \in changedVariables[r]
        <5>1. variableList'[v] = [variableList[v] EXCEPT !.isDirty = TRUE]
          BY <4>2, <4>3, Zenon
        <5> QED BY <4>1, <5>1 DEF Nodes
      <4>4. CASE ~(variableList[v].isDirty \/ v \in changedVariables[r])
        <5>1. variableList'[v] = [variableList[v] EXCEPT !.isDirty = FALSE]
          BY <4>2, <4>4, Zenon
        <5> QED BY <4>1, <4>4, <5>1 DEF Nodes
      <4> QED BY <4>3, <4>4
    <3>4. variableList' \in Seq(Nodes) /\ Len(variableList') = Len(variableList)
      <4>1. variableList' \in [1 .. Len(variableList) -> Nodes]
        BY <3>1, <3>2, <3>3
      <4> QED BY <3>2, <4>1
    <3> QED BY <3>1, <3>3, <3>4
  <2> QED BY <2>2, <2>3
<1>4. DeltaTypeOK'
  BY <1>2, <1>3 DEF DeltaInv, DeltaTypeOK
<1>5. ASSUME NEW v \in DOMAIN variableList
      PROVE  newestRead[v] = newest[v] \/ variableList'[v].isDirty \/ v \in unflagged
             \/ Pending(v, newest[v])'
  <2>1. newestRead[v] = newest[v] \/ variableList[v].isDirty \/ v \in unflagged
        \/ Pending(v, newest[v])
    BY <1>1 DEF Knows
  <2>2. CASE newest[v] = r /\ Pending(v, newest[v])
    BY <1>2, <1>3, <2>2 DEF Pending
  <2>3. CASE newest[v] # r
    <3>1. Pending(v, newest[v]) => Pending(v, newest[v])'
      BY <1>2, <2>3 DEF Pending
    <3> QED BY <1>3, <2>1, <3>1
  <2> QED BY <1>3, <2>1, <2>2, <2>3
<1>6. Knows(newest)'
  BY <1>1, <1>2, <1>3, <1>5 DEF Knows
<1> QED BY <1>4, <1>6 DEF DeltaInv

LEMMA DeltaSteps == DeltaInv /\ [DeltaNext]_deltaVars => DeltaInv'
<1> SUFFICES ASSUME DeltaInv, [DeltaNext]_deltaVars PROVE DeltaInv'
  OBVIOUS
<1>1. PICK newest : Knows(newest)
  BY DEF DeltaInv
<1>2. CASE UNCHANGED deltaVars
  <2>1. DeltaTypeOK'
    BY <1>2 DEF DeltaInv, DeltaTypeOK, deltaVars
  <2>2. Knows(newest)'
    BY <1>1, <1>2 DEF Knows, Pending, deltaVars
  <2> QED BY <2>1, <2>2 DEF DeltaInv
<1>3. ASSUME NEW v \in Vars, NEW x \in VarValues, SetVariable(v, x) PROVE DeltaInv'
  <2>1. DeltaTypeOK'
    BY <1>3 DEF SetVariable, DeltaInv, DeltaTypeOK
  <2>2. Knows(newest)'
    BY <1>1, <1>3 DEF Knows, Pending, SetVariable
  <2> QED BY <2>1, <2>2 DEF DeltaInv
<1>4. ASSUME NEW m \in network, Lose(m) PROVE DeltaInv'
  <2>1. DeltaTypeOK'
    BY <1>4 DEF Lose, DeltaInv, DeltaTypeOK
  <2>2. Knows(newest)'
    BY <1>1, <1>4 DEF Knows, Pending, Lose
  <2> QED BY <2>1, <2>2 DEF DeltaInv
<1> QED BY <1>2, <1>3, <1>4, SendKeeps, DeserializeKeeps, ReceiptKeeps DEF DeltaNext, DeltaStep

THEOREM DeltaInvariance == DeltaSpec => []DeltaInv
BY DeltaStarts, DeltaSteps, PTL DEF DeltaSpec

\* For any number of variables and messages lost, late or out of order, and until a
\* flag is written past a full list: what was last written has been read, or will be
\* written again, but for the two cases that NothingForgotten names.
THEOREM DeltaCorrect == DeltaSpec => []NothingForgotten
<1>1. DeltaInv => NothingForgotten
  <2> SUFFICES ASSUME DeltaInv, NEW v \in DOMAIN variableList
               PROVE  \/ varsRead[v] = variableList[v].lastData
                      \/ variableList[v].isDirty
                      \/ \E r \in DOMAIN changedVariables \ arrived : v \in changedVariables[r]
                      \/ v \in setBack \union unflagged
    BY DEF NothingForgotten
  <2>1. PICK newest : Knows(newest)
    BY DEF DeltaInv
  <2> QED BY <2>1 DEF Knows, Pending
<1> QED BY <1>1, DeltaInvariance, PTL

-----------------------------------------------------------------------------
(***************************************************************************)
(* CircularLinkedList: the nodes of a ring are a sequence, from the root.  *)
(***************************************************************************)
AllNodes == 1 .. MaxNodes
NodesOf(q) == {q[k] : k \in 1 .. Len(q)}
After(k, n) == IF k = n THEN 1 ELSE k + 1
Before(k, n) == IF k = 1 THEN n ELSE k - 1
HasFields(r) == r = [next |-> r.next, previous |-> r.previous, item |-> r.item,
                  root |-> r.root, position |-> r.position]
\* The nodes q of r have the items w and point to one another.
Sequenced(q, w) ==
  /\ q \in Seq(AllNodes) /\ w \in Seq(ListItems) /\ Len(q) = Len(w) /\ Len(q) \in Nat \ {0}
  /\ \A i, j \in 1 .. Len(q) : q[i] = q[j] => i = j
Links(r, q, w) ==
  /\ Sequenced(q, w)
  /\ DOMAIN r.next = NodesOf(q) /\ DOMAIN r.previous = NodesOf(q) /\ DOMAIN r.item = NodesOf(q)
  /\ \A k \in 1 .. Len(q) : /\ r.next[q[k]] = q[After(k, Len(q))]
                            /\ r.previous[q[k]] = q[Before(k, Len(q))]
                            /\ r.item[q[k]] = w[k]
Traces(r, q, w, c) ==
  /\ HasFields(r) /\ Links(r, q, w) /\ r.root = q[1]
  /\ c \in 1 .. Len(q) /\ r.position = q[c]
RingHolds(r, w, c) ==
  IF w = << >> THEN r = EmptyRing /\ c = 0 ELSE \E q : Traces(r, q, w, c)
InvOf(r, w, c) == w \in Seq(ListItems) /\ Len(w) <= MaxNodes /\ RingHolds(r, w, c)
LinkedInv == InvOf(ring, wanted, cursor)

\* There are as many nodes as items, and as long as that is less than the bound a
\* node is free; Fresh is the least.
LEMMA NodesCounted ==
  ASSUME NEW q, NEW w, Sequenced(q, w)
  PROVE  IsFiniteSet(NodesOf(q)) /\ Cardinality(NodesOf(q)) = Len(q) /\ NodesOf(q) \subseteq AllNodes
<1>1. /\ Len(q) \in Nat /\ q \in Seq(AllNodes)
      /\ \A i, j \in 1 .. Len(q) : q[i] = q[j] => i = j
  BY DEF Sequenced
<1> DEFINE c == [i \in 0 .. Len(q) - 1 |-> q[i + 1]]
<1>2. \A i \in 0 .. Len(q) - 1 : i + 1 \in 1 .. Len(q) /\ c[i] = q[i + 1]
  BY <1>1
<1>3. \A i \in 0 .. Len(q) - 1 : c[i] \in NodesOf(q)
  BY <1>2 DEF NodesOf
<1>4. \A i, j \in 0 .. Len(q) - 1 : c[i] = c[j] => i = j
  <2> SUFFICES ASSUME NEW i \in 0 .. Len(q) - 1, NEW j \in 0 .. Len(q) - 1, c[i] = c[j] PROVE i = j
    OBVIOUS
  <2>1. i + 1 = j + 1
    BY <1>1, <1>2
  <2> QED BY <1>1, <2>1
<1>5. \A p \in NodesOf(q) : \E i \in 0 .. Len(q) - 1 : c[i] = p
  <2> SUFFICES ASSUME NEW k \in 1 .. Len(q) PROVE \E i \in 0 .. Len(q) - 1 : c[i] = q[k]
    BY DEF NodesOf
  <2>1. k - 1 \in 0 .. Len(q) - 1 /\ (k - 1) + 1 = k
    BY <1>1
  <2> QED BY <1>2, <2>1
<1>6. NodesOf(q) \subseteq AllNodes
  BY <1>1 DEF NodesOf
<1> HIDE DEF c
<1>7. Len(q) \in Nat
  BY <1>1
<1> QED BY <1>3, <1>4, <1>5, <1>6, <1>7, CountedByNumbers

LEMMA FreshIsFree ==
  ASSUME NEW r, NEW q, NEW w, Links(r, q, w), Len(q) < MaxNodes
  PROVE  Fresh(r) \in AllNodes \ NodesOf(q)
<1>1. Sequenced(q, w) /\ RingNodes(r) = NodesOf(q) /\ Len(q) \in Nat /\ MaxNodes \in Nat
  BY LinkedListAssumption DEF Links, Sequenced, RingNodes
<1>2. IsFiniteSet(NodesOf(q)) /\ Cardinality(NodesOf(q)) = Len(q) /\ NodesOf(q) \subseteq AllNodes
  BY <1>1, NodesCounted
<1>3. Cardinality(AllNodes) = MaxNodes
  BY <1>1, FS_Interval DEF AllNodes
<1> DEFINE free == AllNodes \ NodesOf(q)
<1>4. free # {}
  <2> SUFFICES ASSUME free = {} PROVE FALSE
    OBVIOUS
  <2>1. NodesOf(q) = AllNodes
    BY <1>2
  <2> QED BY <1>1, <1>2, <1>3, <2>1
<1>5. free \in SUBSET Nat
  BY <1>1 DEF AllNodes
<1>6. Fresh(r) = CHOOSE n \in free : \A m \in free : n <= m
  BY <1>1 DEF Fresh, AllNodes
<1> HIDE DEF free
<1>7. \E n \in free : \A m \in free : n <= m
  BY <1>4, <1>5, LeastNatural
<1>8. Fresh(r) \in free
  BY <1>6, <1>7
<1> QED BY <1>8 DEF free

-----------------------------------------------------------------------------
\* A walk along a pointer field visits the nodes in turn.
Visits(link, from, m, q) ==
  /\ m \in Nat /\ (m > 0 => q[1] = from)
  /\ \A k \in 2 .. m : link[q[k - 1]] = q[k]
Walk(link, from, m, g) == g = [k \in 1 .. m |-> IF k = 1 THEN from ELSE link[g[k - 1]]]

LEMMA WalkVisits ==
  ASSUME NEW link, NEW from, NEW m, NEW q, Visits(link, from, m, q), NEW g, Walk(link, from, m, g)
  PROVE  DOMAIN g = 1 .. m /\ \A k \in 1 .. m : g[k] = q[k]
<1>0. m \in Nat /\ (m > 0 => q[1] = from) /\ \A k \in 2 .. m : link[q[k - 1]] = q[k]
  BY DEF Visits
<1>1. DOMAIN g = 1 .. m /\ \A k \in 1 .. m : g[k] = IF k = 1 THEN from ELSE link[g[k - 1]]
  <2> DEFINE h == [k \in 1 .. m |-> IF k = 1 THEN from ELSE link[g[k - 1]]]
  <2>1. g = h
    BY DEF Walk
  <2>2. DOMAIN h = 1 .. m /\ \A k \in 1 .. m : h[k] = IF k = 1 THEN from ELSE link[g[k - 1]]
    OBVIOUS
  <2> QED BY <2>1, <2>2, Zenon
<1> DEFINE S == {n \in 0 .. m : n > 0 => g[n] = q[n]}
<1>2. 0 \in S
  BY <1>0
<1>3. ASSUME NEW n \in 0 .. m - 1, n \in S PROVE n + 1 \in S
  <2>1. n + 1 \in 1 .. m /\ (n + 1) - 1 = n
    BY <1>0
  <2>2. CASE n = 0
    <3>1. g[1] = from /\ q[1] = from /\ n + 1 = 1
      BY <1>0, <1>1, <2>1, <2>2
    <3> QED BY <2>1, <3>1
  <2>3. CASE n > 0
    <3>1. g[n] = q[n] /\ n + 1 # 1 /\ n + 1 \in 2 .. m
      BY <1>0, <1>3, <2>3
    <3>2. g[n + 1] = link[g[n]] /\ link[q[n]] = q[n + 1]
      BY <1>0, <1>1, <2>1, <3>1
    <3> QED BY <2>1, <3>1, <3>2
  <2> QED BY <1>0, <2>2, <2>3
<1>4. 0 .. m \subseteq S
  <2> HIDE DEF S
  <2> QED BY <1>0, <1>2, <1>3, UpToInSet
<1>5. \A k \in 1 .. m : g[k] = q[k]
  BY <1>0, <1>4
<1> QED BY <1>1, <1>5

LEMMA WalkExists ==
  ASSUME NEW link, NEW from, NEW m, NEW q, Visits(link, from, m, q)
  PROVE  \E g : Walk(link, from, m, g)
<1>0. m \in Nat /\ (m > 0 => q[1] = from) /\ \A k \in 2 .. m : link[q[k - 1]] = q[k]
  BY DEF Visits
<1> DEFINE g == [k \in 1 .. m |-> q[k]]
           h == [k \in 1 .. m |-> IF k = 1 THEN from ELSE link[g[k - 1]]]
<1>1. ASSUME NEW k \in 1 .. m PROVE g[k] = h[k]
  <2>1. CASE k = 1
    BY <1>0, <2>1
  <2>2. CASE k # 1
    <3>1. k \in 2 .. m /\ k - 1 \in 1 .. m
      BY <1>0, <2>2
    <3>2. g[k - 1] = q[k - 1] /\ h[k] = link[g[k - 1]] /\ g[k] = q[k]
      BY <2>2, <3>1
    <3>3. link[q[k - 1]] = q[k]
      BY <1>0, <3>1
    <3> QED BY <3>2, <3>3
  <2> QED BY <2>1, <2>2
<1>2. g = h
  BY <1>1
<1>3. Walk(link, from, m, g)
  BY <1>2 DEF Walk
<1> QED BY <1>3

LEMMA NodesAlong ==
  ASSUME NEW r, NEW q, NEW w, Links(r, q, w), NEW link, NEW from, NEW p,
         Visits(link, from, Len(q), p)
  PROVE  /\ DOMAIN ItemsAlong(r, link, from) = 1 .. Len(q)
         /\ \A k \in 1 .. Len(q) : ItemsAlong(r, link, from)[k] = r.item[p[k]]
<1> DEFINE m == Len(q)
           nodes == CHOOSE g : Walk(link, from, m, g)
<1>1. Sequenced(q, w) /\ RingNodes(r) = NodesOf(q) /\ m \in Nat
  BY DEF Links, Sequenced, RingNodes
<1>2. Cardinality(RingNodes(r)) = m
  BY <1>1, NodesCounted
<1>3. ItemsAlong(r, link, from) = [k \in DOMAIN nodes |-> r.item[nodes[k]]]
  BY <1>2 DEF ItemsAlong, Walk
<1>4. Walk(link, from, m, nodes)
  <2>1. \E g : Walk(link, from, m, g)
    BY WalkExists
  <2> HIDE DEF m
  <2> QED BY <2>1
<1>5. DOMAIN nodes = 1 .. m /\ \A k \in 1 .. m : nodes[k] = p[k]
  <2> HIDE DEF nodes, m
  <2>1. Visits(link, from, m, p)
    BY DEF m
  <2> QED BY <1>4, <2>1, WalkVisits
<1> HIDE DEF nodes
<1> QED BY <1>3, <1>5

LEMMA NodeAtIs ==
  ASSUME NEW r, NEW q, NEW w, NEW c, Traces(r, q, w, c), NEW k \in 1 .. Len(q)
  PROVE  NodeAt(r, k) = q[k]
<1> DEFINE nodes == CHOOSE g : Walk(r.next, r.root, k, g)
<1>1. Len(q) \in Nat /\ k \in Nat /\ Links(r, q, w) /\ r.root = q[1]
  BY DEF Traces, Links, Sequenced
<1>2. \A i \in 2 .. k : r.next[q[i - 1]] = q[i]
  <2> SUFFICES ASSUME NEW i \in 2 .. k PROVE r.next[q[i - 1]] = q[i]
    OBVIOUS
  <2>1. i - 1 \in 1 .. Len(q) /\ i - 1 # Len(q) /\ (i - 1) + 1 = i
    BY <1>1
  <2>2. After(i - 1, Len(q)) = i
    BY <2>1 DEF After
  <2> QED BY <1>1, <2>1, <2>2 DEF Links
<1>6. Visits(r.next, r.root, k, q)
  BY <1>1, <1>2 DEF Visits
<1>3. NodeAt(r, k) = nodes[k]
  BY DEF NodeAt, Walk
<1>4. Walk(r.next, r.root, k, nodes)
  <2>1. \E g : Walk(r.next, r.root, k, g)
    BY <1>6, WalkExists
  <2> QED BY <2>1
<1>5. nodes[k] = q[k]
  <2> HIDE DEF nodes
  <2>1. \A i \in 1 .. k : nodes[i] = q[i]
    BY <1>4, <1>6, WalkVisits
  <2> QED BY <1>1, <2>1
<1> QED BY <1>3, <1>5

\* The ring shows its list, in both directions.
LEMMA RingShows ==
  ASSUME NEW r, NEW q, NEW w, NEW c, Traces(r, q, w, c)
  PROVE  /\ RingNodes(r) = NodesOf(q) /\ Cardinality(RingNodes(r)) = Len(w)
         /\ FromRoot(r) = w
         /\ ItemsAlong(r, r.previous, r.previous[r.root]) = Reverse(w)
         /\ r.position = NodeAt(r, c) /\ r.root # NoNode
<1> DEFINE l == Len(q)
<1>1. /\ Links(r, q, w) /\ r.root = q[1] /\ l \in Nat \ {0} /\ c \in 1 .. l /\ r.position = q[c]
      /\ Sequenced(q, w) /\ l = Len(w) /\ w \in Seq(ListItems) /\ q \in Seq(AllNodes)
      /\ RingNodes(r) = NodesOf(q)
  BY DEF Traces, Links, Sequenced, RingNodes
<1>2. \A k \in 1 .. l : /\ r.next[q[k]] = q[After(k, l)] /\ r.previous[q[k]] = q[Before(k, l)]
                        /\ r.item[q[k]] = w[k] /\ q[k] \in NodesOf(q)
  BY <1>1 DEF Links, NodesOf
<1>3. q[1] # NoNode
  <2>1. q[1] \in AllNodes /\ MaxNodes \in Nat
    BY <1>1, LinkedListAssumption
  <2> QED BY <2>1 DEF AllNodes, NoNode
<1>4. FromRoot(r) = w
  <2> DEFINE p == [k \in 1 .. l |-> q[k]]
  <2>1. p[1] = r.root
    BY <1>1, <1>2
  <2>2. \A k \in 2 .. l : r.next[p[k - 1]] = p[k]
    <3> SUFFICES ASSUME NEW k \in 2 .. l PROVE r.next[p[k - 1]] = p[k]
      OBVIOUS
    <3>1. k - 1 \in 1 .. l /\ k \in 1 .. l /\ After(k - 1, l) = k
      BY <1>1 DEF After
    <3>2. p[k - 1] = q[k - 1] /\ p[k] = q[k]
      BY <3>1
    <3> QED BY <1>2, <3>1, <3>2
  <2> DEFINE s == ItemsAlong(r, r.next, r.root)
  <2>3. DOMAIN s = 1 .. l /\ \A k \in 1 .. l : s[k] = r.item[p[k]]
    <3> HIDE DEF p
    <3>1. Visits(r.next, r.root, l, p)
      BY <1>1, <2>1, <2>2 DEF Visits
    <3> QED BY <1>1, <3>1, NodesAlong
  <2>4. \A k \in 1 .. l : s[k] = w[k]
    <3> HIDE DEF s
    <3> QED BY <1>2, <2>3
  <2>5. FromRoot(r) = s
    BY <1>1, <1>3 DEF FromRoot
  <2>6. s = [k \in 1 .. l |-> s[k]]
    BY <2>3 DEF ItemsAlong
  <2> HIDE DEF s
  <2>7. s \in Seq(ListItems) /\ Len(s) = l
    <3>1. \A k \in 1 .. l : s[k] \in ListItems
      BY <1>1, <2>4
    <3> QED BY <1>1, <2>6, <3>1, IsASeq
  <2> QED BY <1>1, <2>4, <2>5, <2>7, SeqEqual
<1>5. ItemsAlong(r, r.previous, r.previous[r.root]) = Reverse(w)
  <2> DEFINE p == [k \in 1 .. l |-> q[(l - k) + 1]]
             from == r.previous[r.root]
  <2>0. \A k \in 1 .. l : (l - k) + 1 \in 1 .. l
    BY <1>1
  <2>2. p[1] = from
    <3>1. 1 \in 1 .. l /\ (l - 1) + 1 = l /\ Before(1, l) = l
      BY <1>1 DEF Before
    <3> QED BY <1>1, <1>2, <3>1
  <2>3. \A k \in 2 .. l : r.previous[p[k - 1]] = p[k]
    <3> SUFFICES ASSUME NEW k \in 2 .. l PROVE r.previous[p[k - 1]] = p[k]
      OBVIOUS
    <3>1. /\ k - 1 \in 1 .. l /\ k \in 1 .. l
          /\ Before((l - (k - 1)) + 1, l) = (l - k) + 1
      BY <1>1 DEF Before
    <3>2. p[k - 1] = q[(l - (k - 1)) + 1] /\ p[k] = q[(l - k) + 1]
      BY <3>1
    <3> QED BY <1>2, <2>0, <3>1, <3>2
  <2> DEFINE s == ItemsAlong(r, r.previous, from)
             t == Reverse(w)
  <2>4. DOMAIN s = 1 .. l /\ \A k \in 1 .. l : s[k] = r.item[p[k]]
    <3> HIDE DEF p, from
    <3>1. Visits(r.previous, from, l, p)
      BY <1>1, <2>2, <2>3 DEF Visits
    <3> QED BY <1>1, <3>1, NodesAlong
  <2>5. t = [k \in 1 .. l |-> w[(l - k) + 1]]
    BY <1>1 DEF Reverse
  <2>6. \A k \in 1 .. l : s[k] = t[k]
    <3> SUFFICES ASSUME NEW k \in 1 .. l PROVE s[k] = t[k]
      OBVIOUS
    <3>1. s[k] = r.item[q[(l - k) + 1]]
      <4> HIDE DEF s
      <4> QED BY <2>4
    <3>2. t[k] = w[(l - k) + 1]
      <4> HIDE DEF t
      <4> QED BY <2>5
    <3> HIDE DEF s, t
    <3> QED BY <1>2, <2>0, <3>1, <3>2
  <2>7. s = [k \in 1 .. l |-> s[k]]
    BY <2>4 DEF ItemsAlong
  <2>8. t = [k \in 1 .. l |-> t[k]]
    <3> HIDE DEF t
    <3> QED BY <2>5
  <2>9. s = t
    <3> HIDE DEF s, t
    <3> QED BY <2>6, <2>7, <2>8
  <2> QED BY <2>9
<1>6. Cardinality(RingNodes(r)) = Len(w)
  BY <1>1, NodesCounted
<1>7. r.position = NodeAt(r, c)
  BY <1>1, NodeAtIs
<1> QED BY <1>1, <1>3, <1>4, <1>5, <1>6, <1>7

-----------------------------------------------------------------------------
\* What the pointers are after a node has come between two others.
LEMMA LinkedFields ==
  ASSUME NEW r, HasFields(r), NEW N, RingNodes(r) = N, NEW a, NEW b, NEW n, NEW x,
         NEW t, t = Linked(r, a, b, n, x)
  PROVE  /\ HasFields(t) /\ t.root = r.root /\ t.position = r.position
         /\ DOMAIN t.next = N \union {n} /\ DOMAIN t.previous = N \union {n}
         /\ DOMAIN t.item = N \union {n}
         /\ \A m \in N \union {n} :
              /\ t.next[m] = IF m = n THEN b ELSE IF m = a THEN n ELSE r.next[m]
              /\ t.previous[m] = IF m = n THEN a ELSE IF m = b THEN n ELSE r.previous[m]
              /\ t.item[m] = IF m = n THEN x ELSE r.item[m]
<1>1. /\ HasFields(t) /\ t.root = r.root /\ t.position = r.position
      /\ t.next = [m \in N \union {n} |-> IF m = n THEN b ELSE IF m = a THEN n ELSE r.next[m]]
      /\ t.previous = [m \in N \union {n} |-> IF m = n THEN a ELSE IF m = b THEN n ELSE r.previous[m]]
      /\ t.item = [m \in N \union {n} |-> IF m = n THEN x ELSE r.item[m]]
  BY DEF Linked, HasFields
<1> QED BY <1>1

\* The nodes and items after that, j of them before the new one.
NewBetween(q, u, w, v, j, n, x) ==
  /\ Sequenced(q, w) /\ j \in 0 .. Len(q) /\ n \in AllNodes \ NodesOf(q) /\ x \in ListItems
  /\ IsPut(AllNodes, u, q, j, n) /\ IsPut(ListItems, v, w, j, x)

LEMMA NewSequenced ==
  ASSUME NEW q, NEW u, NEW w, NEW v, NEW j, NEW n, NEW x, NewBetween(q, u, w, v, j, n, x)
  PROVE  /\ Sequenced(u, v) /\ Len(u) = Len(q) + 1 /\ Len(q) \in Nat \ {0} /\ j \in Nat
         /\ NodesOf(u) = NodesOf(q) \union {n} /\ n \notin NodesOf(q)
         /\ \A k \in 1 .. Len(q) : q[k] \in NodesOf(q)
         /\ \A k \in 1 .. Len(u) : u[k] = IF k <= j THEN q[k] ELSE IF k = j + 1 THEN n ELSE q[k - 1]
         /\ \A k \in 1 .. Len(u) : v[k] = IF k <= j THEN w[k] ELSE IF k = j + 1 THEN x ELSE w[k - 1]
<1>1. /\ Len(q) \in Nat \ {0} /\ Len(w) = Len(q) /\ j \in 0 .. Len(q) /\ n \notin NodesOf(q)
      /\ \A i, k \in 1 .. Len(q) : q[i] = q[k] => i = k
      /\ u \in Seq(AllNodes) /\ v \in Seq(ListItems) /\ Len(u) = Len(q) + 1 /\ Len(v) = Len(q) + 1
  BY DEF NewBetween, Sequenced, IsPut
<1>2. \A k \in 1 .. Len(u) : u[k] = IF k <= j THEN q[k] ELSE IF k = j + 1 THEN n ELSE q[k - 1]
  BY <1>1 DEF NewBetween, IsPut
<1>3. \A k \in 1 .. Len(u) : v[k] = IF k <= j THEN w[k] ELSE IF k = j + 1 THEN x ELSE w[k - 1]
  BY <1>1 DEF NewBetween, IsPut
<1>4. \A k \in 1 .. Len(q) : q[k] \in NodesOf(q)
  BY DEF NodesOf
<1>5. \A k \in 1 .. Len(u) : /\ k <= j => k \in 1 .. Len(q)
                             /\ k > j + 1 => k - 1 \in 1 .. Len(q)
  BY <1>1
<1>6. NodesOf(u) = NodesOf(q) \union {n}
  <2>1. ASSUME NEW k \in 1 .. Len(u) PROVE u[k] \in NodesOf(q) \union {n}
    <3>1. CASE k <= j
      BY <1>2, <1>4, <1>5, <3>1
    <3>2. CASE k = j + 1
      <4>1. ~(j + 1 <= j)
        BY <1>1
      <4> QED BY <1>2, <3>2, <4>1
    <3>3. CASE k > j + 1
      <4>1. k - 1 \in 1 .. Len(q) /\ ~(k <= j) /\ k # j + 1
        BY <1>1, <1>5, <3>3
      <4> QED BY <1>2, <1>4, <4>1
    <3> QED BY <1>1, <3>1, <3>2, <3>3
  <2>2. ASSUME NEW k \in 1 .. Len(q) PROVE q[k] \in NodesOf(u)
    <3>1. CASE k <= j
      <4>1. k \in 1 .. Len(u) /\ u[k] = q[k]
        BY <1>1, <1>2, <3>1
      <4> QED BY <4>1 DEF NodesOf
    <3>2. CASE k > j
      <4>1. k + 1 \in 1 .. Len(u) /\ ~(k + 1 <= j) /\ k + 1 # j + 1 /\ (k + 1) - 1 = k
        BY <1>1, <3>2
      <4>2. u[k + 1] = q[k]
        BY <1>2, <4>1
      <4> QED BY <4>1, <4>2 DEF NodesOf
    <3> QED BY <1>1, <3>1, <3>2
  <2>3. n \in NodesOf(u)
    <3>1. j + 1 \in 1 .. Len(u) /\ u[j + 1] = n
      BY <1>1, <1>2
    <3> QED BY <3>1 DEF NodesOf
  <2> QED BY <2>1, <2>2, <2>3 DEF NodesOf
<1>7. ASSUME NEW i \in 1 .. Len(u), NEW k \in 1 .. Len(u), u[i] = u[k] PROVE i = k
  <2>1. CASE i = j + 1 \/ k = j + 1
    <3>1. ASSUME NEW m \in 1 .. Len(u), m # j + 1 PROVE u[m] \in NodesOf(q)
      <4>1. u[m] = (IF m <= j THEN q[m] ELSE q[m - 1]) /\ (m <= j \/ m > j + 1)
        BY <1>1, <1>2, <3>1
      <4> QED BY <1>4, <1>5, <4>1
    <3>2. u[j + 1] = n /\ n \notin NodesOf(q) /\ j + 1 \in 1 .. Len(u)
      BY <1>1, <1>2
    <3> QED BY <1>7, <2>1, <3>1, <3>2
  <2>2. CASE i # j + 1 /\ k # j + 1
    <3> DEFINE old(m) == IF m <= j THEN m ELSE m - 1
    <3>1. old(i) \in 1 .. Len(q) /\ old(k) \in 1 .. Len(q) /\ u[i] = q[old(i)] /\ u[k] = q[old(k)]
      BY <1>1, <1>2, <1>5, <2>2
    <3>2. old(i) = old(k)
      BY <1>1, <1>7, <3>1
    <3> QED BY <1>1, <2>2, <3>2
  <2> QED BY <2>1, <2>2
<1>8. Sequenced(u, v)
  BY <1>1, <1>7 DEF Sequenced
<1> QED BY <1>1, <1>2, <1>3, <1>4, <1>6, <1>8

LEMMA LinkedLinks ==
  ASSUME NEW r, NEW q, NEW u, NEW w, NEW v, NEW j, NEW n, NEW x,
         HasFields(r), Links(r, q, w), NewBetween(q, u, w, v, j, n, x), NEW t,
         t = Linked(r, q[IF j = 0 THEN Len(q) ELSE j], q[IF j = Len(q) THEN 1 ELSE j + 1], n, x)
  PROVE  HasFields(t) /\ Links(t, u, v) /\ t.root = r.root /\ t.position = r.position
<1> DEFINE l == Len(q)
           before == IF j = 0 THEN l ELSE j
           after == IF j = l THEN 1 ELSE j + 1
           a == q[before]
           b == q[after]
<1>1. /\ Sequenced(u, v) /\ Len(u) = l + 1 /\ l \in Nat \ {0} /\ j \in Nat
      /\ NodesOf(u) = NodesOf(q) \union {n} /\ n \notin NodesOf(q)
      /\ \A k \in 1 .. l : q[k] \in NodesOf(q)
      /\ \A k \in 1 .. l + 1 : u[k] = IF k <= j THEN q[k] ELSE IF k = j + 1 THEN n ELSE q[k - 1]
      /\ \A k \in 1 .. l + 1 : v[k] = IF k <= j THEN w[k] ELSE IF k = j + 1 THEN x ELSE w[k - 1]
  BY NewSequenced
<1>2. j \in 0 .. l /\ \A i, k \in 1 .. l : q[i] = q[k] => i = k
  BY DEF NewBetween, Sequenced
<1>3. before \in 1 .. l /\ after \in 1 .. l
  BY <1>1, <1>2
<1>4. /\ DOMAIN r.next = NodesOf(q) /\ DOMAIN r.previous = NodesOf(q) /\ DOMAIN r.item = NodesOf(q)
      /\ \A k \in 1 .. l : /\ r.next[q[k]] = q[After(k, l)] /\ r.previous[q[k]] = q[Before(k, l)]
                           /\ r.item[q[k]] = w[k]
  BY DEF Links
<1>5. /\ HasFields(t) /\ t.root = r.root /\ t.position = r.position
      /\ DOMAIN t.next = NodesOf(q) \union {n} /\ DOMAIN t.previous = NodesOf(q) \union {n}
      /\ DOMAIN t.item = NodesOf(q) \union {n}
      /\ \A m \in NodesOf(q) \union {n} :
           /\ t.next[m] = IF m = n THEN b ELSE IF m = a THEN n ELSE r.next[m]
           /\ t.previous[m] = IF m = n THEN a ELSE IF m = b THEN n ELSE r.previous[m]
           /\ t.item[m] = IF m = n THEN x ELSE r.item[m]
  <2>1. t = Linked(r, a, b, n, x)
    OBVIOUS
  <2>2. RingNodes(r) = NodesOf(q)
    BY <1>4 DEF RingNodes
  <2> HIDE DEF a, b
  <2> QED BY <2>1, <2>2, LinkedFields
<1>6. DOMAIN t.next = NodesOf(u) /\ DOMAIN t.previous = NodesOf(u) /\ DOMAIN t.item = NodesOf(u)
  BY <1>1, <1>3, <1>4, <1>5
<1>7. /\ \A k \in 1 .. l : /\ t.next[q[k]] = IF k = before THEN n ELSE q[After(k, l)]
                           /\ t.previous[q[k]] = IF k = after THEN n ELSE q[Before(k, l)]
                           /\ t.item[q[k]] = w[k]
      /\ t.next[n] = b /\ t.previous[n] = a /\ t.item[n] = x
  BY <1>1, <1>2, <1>3, <1>4, <1>5, <1>6
<1>8. /\ \A k \in 1 .. j : k \in 1 .. l /\ k \in 1 .. l + 1 /\ u[k] = q[k] /\ v[k] = w[k]
      /\ j + 1 \in 1 .. l + 1 /\ u[j + 1] = n /\ v[j + 1] = x
      /\ \A k \in j + 2 .. l + 1 : k - 1 \in 1 .. l /\ k \in 1 .. l + 1 /\ u[k] = q[k - 1] /\ v[k] = w[k - 1]
      /\ \A k \in 1 .. l + 1 : k \in 1 .. j \/ k = j + 1 \/ k \in j + 2 .. l + 1
  <2>1. ASSUME NEW k \in 1 .. j
        PROVE  k \in 1 .. l /\ k \in 1 .. l + 1 /\ u[k] = q[k] /\ v[k] = w[k]
    BY <1>1, <1>2
  <2>2. j + 1 \in 1 .. l + 1 /\ u[j + 1] = n /\ v[j + 1] = x
    BY <1>1, <1>2
  <2>3. ASSUME NEW k \in j + 2 .. l + 1
        PROVE  k - 1 \in 1 .. l /\ k \in 1 .. l + 1 /\ u[k] = q[k - 1] /\ v[k] = w[k - 1]
    <3>1. k - 1 \in 1 .. l /\ k \in 1 .. l + 1 /\ ~(k <= j) /\ k # j + 1
      BY <1>1, <1>2
    <3> QED BY <1>1, <3>1
  <2>4. \A k \in 1 .. l + 1 : k \in 1 .. j \/ k = j + 1 \/ k \in j + 2 .. l + 1
    BY <1>1, <1>2
  <2> QED BY <2>1, <2>2, <2>3, <2>4
<1>9. \A k \in 1 .. l : q[k] = IF k <= j THEN u[k] ELSE u[k + 1]
  BY <1>1, <1>2
<1> HIDE DEF a, b
<1>10. ASSUME NEW k \in 1 .. l + 1
       PROVE  /\ t.next[u[k]] = u[After(k, l + 1)] /\ t.previous[u[k]] = u[Before(k, l + 1)]
              /\ t.item[u[k]] = v[k]
  <2>1. CASE k \in 1 .. j
    <3>1. k \in 1 .. l /\ k + 1 \in 1 .. l + 1 /\ u[k] = q[k] /\ v[k] = w[k] /\ After(k, l + 1) = k + 1
      BY <1>1, <1>2, <1>8, <2>1 DEF After
    <3>2. t.next[u[k]] = u[k + 1]
      <4>1. CASE k = j
        <5>1. before = k
          BY <1>1, <2>1, <4>1
        <5> QED BY <1>7, <1>8, <3>1, <4>1, <5>1
      <4>2. CASE k # j
        <5>1. before # k /\ k + 1 <= j /\ After(k, l) = k + 1 /\ k + 1 \in 1 .. l
          BY <1>1, <1>2, <2>1, <4>2 DEF After
        <5> HIDE DEF before
        <5> QED BY <1>7, <1>9, <3>1, <5>1
      <4> QED BY <4>1, <4>2
    <3>3. t.previous[u[k]] = u[Before(k, l + 1)]
      <4>1. CASE k = after
        <5>1. k = 1 /\ j = l /\ Before(k, l + 1) = j + 1
          BY <1>1, <1>2, <2>1, <4>1 DEF Before
        <5> HIDE DEF after
        <5> QED BY <1>7, <1>8, <3>1, <4>1, <5>1
      <4>2. CASE k # after /\ k = 1
        <5>1. Before(k, l) = l /\ Before(k, l + 1) = l + 1 /\ l \in 1 .. l /\ ~(l <= j)
          BY <1>1, <1>2, <2>1, <4>2 DEF Before
        <5> HIDE DEF after
        <5> QED BY <1>7, <1>9, <3>1, <4>2, <5>1
      <4>3. CASE k # after /\ k # 1
        <5>1. Before(k, l) = k - 1 /\ Before(k, l + 1) = k - 1 /\ k - 1 \in 1 .. l /\ k - 1 <= j
          BY <1>1, <1>2, <2>1, <4>3 DEF Before
        <5> HIDE DEF after
        <5> QED BY <1>7, <1>9, <3>1, <4>3, <5>1
      <4> QED BY <4>1, <4>2, <4>3
    <3> QED BY <1>7, <3>1, <3>2, <3>3
  <2>2. CASE k = j + 1
    <3>1. After(k, l + 1) = (IF after <= j THEN after ELSE after + 1)
          /\ Before(k, l + 1) = (IF before <= j THEN before ELSE before + 1)
      BY <1>1, <1>2, <2>2 DEF After, Before
    <3>2. b = u[After(k, l + 1)] /\ a = u[Before(k, l + 1)]
      <4> HIDE DEF before, after
      <4> QED BY <1>3, <1>9, <3>1 DEF a, b
    <3> QED BY <1>7, <1>8, <2>2, <3>2
  <2>3. CASE k \in j + 2 .. l + 1
    <3>1. k - 1 \in 1 .. l /\ u[k] = q[k - 1] /\ v[k] = w[k - 1] /\ Before(k, l + 1) = k - 1
      BY <1>1, <1>2, <1>8, <2>3 DEF Before
    <3>2. t.next[u[k]] = u[After(k, l + 1)]
      <4>1. CASE k - 1 = before
        <5>1. j = 0 /\ k = l + 1 /\ After(k, l + 1) = j + 1
          BY <1>1, <1>2, <2>3, <4>1 DEF After
        <5> HIDE DEF before
        <5> QED BY <1>7, <1>8, <3>1, <4>1, <5>1
      <4>2. CASE k - 1 # before /\ k = l + 1
        <5>1. After(k - 1, l) = 1 /\ After(k, l + 1) = 1 /\ 1 \in 1 .. l /\ 1 <= j
          BY <1>1, <1>2, <2>3, <4>2 DEF After
        <5> HIDE DEF before
        <5> QED BY <1>7, <1>9, <3>1, <4>2, <5>1
      <4>3. CASE k - 1 # before /\ k # l + 1
        <5>1. k \in 1 .. l /\ ~(k <= j)
          <6> HIDE DEF before
          <6> QED BY <1>1, <2>3, <4>3
        <5>2. After(k - 1, l) = k /\ After(k, l + 1) = k + 1
          BY <1>1, <4>3, <5>1 DEF After
        <5> HIDE DEF before
        <5> QED BY <1>7, <1>9, <3>1, <4>3, <5>1, <5>2
      <4> QED BY <4>1, <4>2, <4>3
    <3>3. t.previous[u[k]] = u[k - 1]
      <4>1. CASE k - 1 = after
        <5>1. k - 1 = j + 1
          BY <1>1, <1>2, <2>3, <4>1
        <5> HIDE DEF after
        <5> QED BY <1>7, <1>8, <3>1, <4>1, <5>1
      <4>2. CASE k - 1 # after
        <5>1. Before(k - 1, l) = k - 2 /\ k - 2 \in 1 .. l /\ ~(k - 2 <= j) /\ (k - 2) + 1 = k - 1
          BY <1>1, <1>2, <2>3, <4>2 DEF Before
        <5> HIDE DEF after
        <5> QED BY <1>7, <1>9, <3>1, <4>2, <5>1
      <4> QED BY <4>1, <4>2
    <3> QED BY <1>7, <3>1, <3>2, <3>3
  <2> QED BY <1>8, <2>1, <2>2, <2>3
<1>11. Links(t, u, v)
  BY <1>1, <1>6, <1>10 DEF Links
<1> QED BY <1>5, <1>11

\* Insert and Add of the class.
LEMMA FirstTraced ==
  ASSUME NEW x \in ListItems, MaxNodes > 0, NEW t,
         LET n == Fresh(EmptyRing)
         IN  t = [Linked(EmptyRing, n, n, n, x) EXCEPT !.root = n, !.position = n]
  PROVE  \E q : Traces(t, q, <<x>>, 1)
<1> DEFINE n == Fresh(EmptyRing)
           m == Linked(EmptyRing, n, n, n, x)
<1>1. RingNodes(EmptyRing) = {} /\ HasFields(EmptyRing)
  BY DEF EmptyRing, RingNodes, HasFields
<1>2. n \in AllNodes
  <2>1. AllNodes # {} /\ AllNodes \in SUBSET Nat
    BY LinkedListAssumption DEF AllNodes
  <2>2. \E k \in AllNodes : \A i \in AllNodes : k <= i
    BY <2>1, LeastNatural
  <2>3. n = CHOOSE k \in AllNodes : \A i \in AllNodes : k <= i
    BY <1>1 DEF Fresh, AllNodes
  <2> QED BY <2>2, <2>3
<1> HIDE DEF n
<1>3. /\ HasFields(m) /\ DOMAIN m.next = {n} /\ DOMAIN m.previous = {n} /\ DOMAIN m.item = {n}
      /\ m.next[n] = n /\ m.previous[n] = n /\ m.item[n] = x
  <2>1. /\ HasFields(m)
        /\ DOMAIN m.next = {} \union {n} /\ DOMAIN m.previous = {} \union {n} /\ DOMAIN m.item = {} \union {n}
        /\ \A i \in {} \union {n} :
              /\ m.next[i] = IF i = n THEN n ELSE IF i = n THEN n ELSE EmptyRing.next[i]
              /\ m.previous[i] = IF i = n THEN n ELSE IF i = n THEN n ELSE EmptyRing.previous[i]
              /\ m.item[i] = IF i = n THEN x ELSE EmptyRing.item[i]
    BY <1>1, LinkedFields
  <2> QED BY <2>1
<1> HIDE DEF m
<1>4. /\ HasFields(t) /\ t.next = m.next /\ t.previous = m.previous /\ t.item = m.item
      /\ t.root = n /\ t.position = n
  <2>1. t = [m EXCEPT !.root = n, !.position = n]
    BY DEF m, n
  <2> QED BY <1>3, <2>1 DEF HasFields
<1> DEFINE q == <<n>>
           w == <<x>>
<1>5. /\ q \in Seq(AllNodes) /\ w \in Seq(ListItems) /\ Len(q) = 1 /\ Len(w) = 1 /\ q[1] = n /\ w[1] = x
  BY <1>2
<1> HIDE DEF q, w
<1>6. Sequenced(q, w) /\ NodesOf(q) = {n}
  BY <1>5 DEF Sequenced, NodesOf
<1>7. After(1, 1) = 1 /\ Before(1, 1) = 1
  BY DEF After, Before
<1>8. Links(t, q, w)
  BY <1>3, <1>4, <1>5, <1>6, <1>7 DEF Links
<1>9. Traces(t, q, w, 1)
  BY <1>4, <1>5, <1>8 DEF Traces
<1> QED BY <1>9 DEF w

LEMMA TracesHave ==
  ASSUME NEW r, NEW q, NEW w, NEW c, Traces(r, q, w, c)
  PROVE  /\ HasFields(r) /\ Links(r, q, w) /\ Sequenced(q, w) /\ r.root = q[1] /\ r.position = q[c]
         /\ Len(q) \in Nat \ {0} /\ c \in 1 .. Len(q) /\ Len(w) = Len(q) /\ 1 \in 1 .. Len(q)
         /\ q \in Seq(AllNodes) /\ w \in Seq(ListItems) /\ MaxNodes \in Nat
         /\ \A k \in 1 .. Len(q) : q[k] \in AllNodes /\ q[k] # NoNode
         /\ \A i, j \in 1 .. Len(q) : q[i] = q[j] => i = j
         /\ \A k \in 1 .. Len(q) : /\ r.next[q[k]] = q[After(k, Len(q))]
                                   /\ r.previous[q[k]] = q[Before(k, Len(q))]
                                   /\ r.item[q[k]] = w[k]
<1>1. /\ HasFields(r) /\ Links(r, q, w) /\ Sequenced(q, w) /\ r.root = q[1] /\ r.position = q[c]
      /\ Len(q) \in Nat \ {0} /\ c \in 1 .. Len(q) /\ Len(w) = Len(q)
      /\ q \in Seq(AllNodes) /\ w \in Seq(ListItems)
      /\ \A i, j \in 1 .. Len(q) : q[i] = q[j] => i = j
      /\ \A k \in 1 .. Len(q) : /\ r.next[q[k]] = q[After(k, Len(q))]
                                /\ r.previous[q[k]] = q[Before(k, Len(q))]
                                /\ r.item[q[k]] = w[k]
  BY DEF Traces, Links, Sequenced
<1>2. MaxNodes \in Nat
  BY LinkedListAssumption
<1>3. \A k \in 1 .. Len(q) : q[k] \in AllNodes
  BY <1>1
<1>4. \A k \in 1 .. Len(q) : q[k] # NoNode
  BY <1>2, <1>3 DEF AllNodes, NoNode
<1>5. 1 \in 1 .. Len(q)
  BY <1>1
<1> QED BY <1>1, <1>2, <1>3, <1>4, <1>5

LEMMA PutBetween ==
  ASSUME NEW q, NEW w, Sequenced(q, w), NEW j \in 0 .. Len(q), NEW n \in AllNodes \ NodesOf(q),
         NEW x \in ListItems
  PROVE  NewBetween(q, InsertAt(q, j + 1, n), w, InsertAt(w, j + 1, x), j, n, x)
<1>1. /\ q \in Seq(AllNodes) /\ w \in Seq(ListItems) /\ j \in 0 .. Len(w)
      /\ n \in AllNodes
  BY DEF Sequenced
<1>2. IsPut(AllNodes, InsertAt(q, j + 1, n), q, j, n)
  BY <1>1, InsertedIsPut
<1>3. IsPut(ListItems, InsertAt(w, j + 1, x), w, j, x)
  BY <1>1, InsertedIsPut
<1> QED BY <1>2, <1>3 DEF NewBetween

LEMMA InsertedTraced ==
  ASSUME NEW r, NEW q, NEW w, NEW c, Traces(r, q, w, c), Len(q) < MaxNodes, NEW x \in ListItems
  PROVE  \E u : Traces(InsertedNode(r, x), u, InsertAt(w, c, x), IF c = 1 THEN 1 ELSE c + 1)
<1> DEFINE l == Len(q)
           j == c - 1
           n == Fresh(r)
           u == InsertAt(q, j + 1, n)
           v == InsertAt(w, j + 1, x)
           t == Linked(r, q[IF j = 0 THEN l ELSE j], q[IF j = l THEN 1 ELSE j + 1], n, x)
           made == InsertedNode(r, x)
<1>1. /\ HasFields(r) /\ Links(r, q, w) /\ Sequenced(q, w) /\ r.root = q[1] /\ r.position = q[c]
      /\ l \in Nat \ {0} /\ c \in 1 .. l /\ r.root # NoNode
      /\ r.previous[q[c]] = q[Before(c, l)] /\ (q[c] = q[1] => c = 1)
  BY TracesHave
<1>2. j \in 0 .. l /\ j + 1 = c
  BY <1>1
<1>3. n \in AllNodes \ NodesOf(q)
  BY <1>1, FreshIsFree
<1> HIDE DEF n
<1>4. NewBetween(q, u, w, v, j, n, x)
  <2> HIDE DEF j
  <2> QED BY <1>1, <1>2, <1>3, PutBetween
<1>5. HasFields(t) /\ Links(t, u, v) /\ t.root = r.root /\ t.position = r.position
  <2> HIDE DEF j, u, v
  <2> QED BY <1>1, <1>4, LinkedLinks
<1>6. /\ Len(u) = l + 1
      /\ \A k \in 1 .. Len(u) : u[k] = IF k <= j THEN q[k] ELSE IF k = j + 1 THEN n ELSE q[k - 1]
  <2> HIDE DEF j, u, v
  <2> QED BY <1>4, NewSequenced
<1>7. made = IF c = 1 THEN [t EXCEPT !.root = n, !.position = n] ELSE t
  <2>1. Before(c, l) = (IF j = 0 THEN l ELSE j) /\ c = (IF j = l THEN 1 ELSE j + 1)
    BY <1>1 DEF Before
  <2>2. t = Linked(r, r.previous[r.position], r.position, n, x)
    BY <1>1, <2>1
  <2>3. r.position = r.root <=> c = 1
    BY <1>1
  <2> HIDE DEF t
  <2> QED BY <1>1, <2>2, <2>3 DEF InsertedNode, n
<1> HIDE DEF t, made, u, v
<1>8. CASE c = 1
  <2>1. /\ HasFields(made) /\ made.next = t.next /\ made.previous = t.previous /\ made.item = t.item
        /\ made.root = n /\ made.position = n
    BY <1>5, <1>7, <1>8 DEF HasFields
  <2>2. Links(made, u, v)
    BY <1>5, <2>1 DEF Links
  <2>3. 1 \in 1 .. Len(u) /\ u[1] = n
    BY <1>1, <1>6, <1>8
  <2>4. Traces(made, u, v, 1)
    BY <2>1, <2>2, <2>3 DEF Traces
  <2> QED BY <1>2, <1>8, <2>4 DEF made, v
<1>9. CASE c # 1
  <2>1. 1 \in 1 .. Len(u) /\ u[1] = q[1] /\ c + 1 \in 1 .. Len(u) /\ u[c + 1] = q[c]
    BY <1>1, <1>6, <1>9
  <2>2. made = t
    BY <1>7, <1>9
  <2>3. Traces(made, u, v, c + 1)
    BY <1>1, <1>5, <2>1, <2>2 DEF Traces
  <2> QED BY <1>2, <1>9, <2>3 DEF made, v
<1> QED BY <1>8, <1>9

LEMMA AddedTraced ==
  ASSUME NEW r, NEW q, NEW w, NEW c, Traces(r, q, w, c), Len(q) < MaxNodes, NEW x \in ListItems
  PROVE  \E u : Traces(AddedNode(r, x), u, InsertAt(w, c + 1, x), c)
<1> DEFINE l == Len(q)
           n == Fresh(r)
           u == InsertAt(q, c + 1, n)
           v == InsertAt(w, c + 1, x)
           t == Linked(r, q[IF c = 0 THEN l ELSE c], q[IF c = l THEN 1 ELSE c + 1], n, x)
<1>1. /\ HasFields(r) /\ Links(r, q, w) /\ Sequenced(q, w) /\ r.root = q[1] /\ r.position = q[c]
      /\ l \in Nat \ {0} /\ c \in 1 .. l /\ r.root # NoNode /\ r.next[q[c]] = q[After(c, l)]
  BY TracesHave
<1>2. c \in 0 .. l /\ c # 0
  BY <1>1
<1>3. n \in AllNodes \ NodesOf(q)
  BY <1>1, FreshIsFree
<1> HIDE DEF n
<1>4. NewBetween(q, u, w, v, c, n, x)
  BY <1>1, <1>2, <1>3, PutBetween
<1>5. HasFields(t) /\ Links(t, u, v) /\ t.root = r.root /\ t.position = r.position
  <2> HIDE DEF u, v
  <2> QED BY <1>1, <1>4, LinkedLinks
<1>6. /\ Len(u) = l + 1
      /\ \A k \in 1 .. Len(u) : u[k] = IF k <= c THEN q[k] ELSE IF k = c + 1 THEN n ELSE q[k - 1]
  <2> HIDE DEF u, v
  <2> QED BY <1>4, NewSequenced
<1>7. AddedNode(r, x) = t
  <2>1. t = Linked(r, r.position, r.next[r.position], n, x)
    BY <1>1, <1>2 DEF After
  <2> HIDE DEF t
  <2> QED BY <1>1, <2>1 DEF AddedNode, n
<1> HIDE DEF t, u, v
<1>8. 1 \in 1 .. Len(u) /\ u[1] = q[1] /\ c \in 1 .. Len(u) /\ u[c] = q[c]
  BY <1>1, <1>6
<1>9. Traces(t, u, v, c)
  BY <1>1, <1>5, <1>8 DEF Traces
<1> QED BY <1>7, <1>9 DEF v

-----------------------------------------------------------------------------
\* Del: the nodes and items without those of the position.
OneLess(q, u, w, v, c) ==
  /\ Sequenced(q, w) /\ c \in 1 .. Len(q) /\ Len(q) > 1
  /\ IsTaken(AllNodes, u, q, c - 1) /\ IsTaken(ListItems, v, w, c - 1)

LEMMA LessSequenced ==
  ASSUME NEW q, NEW u, NEW w, NEW v, NEW c, OneLess(q, u, w, v, c)
  PROVE  /\ Sequenced(u, v) /\ Len(u) = Len(q) - 1 /\ Len(q) \in Nat /\ Len(q) > 1 /\ c \in 1 .. Len(q)
         /\ NodesOf(u) = NodesOf(q) \ {q[c]}
         /\ \A i, j \in 1 .. Len(q) : q[i] = q[j] => i = j
         /\ \A k \in 1 .. Len(q) : q[k] \in NodesOf(q)
         /\ \A k \in 1 .. Len(u) : u[k] = IF k < c THEN q[k] ELSE q[k + 1]
         /\ \A k \in 1 .. Len(u) : v[k] = IF k < c THEN w[k] ELSE w[k + 1]
         /\ \A k \in 1 .. Len(q) : k # c => q[k] = IF k < c THEN u[k] ELSE u[k - 1]
<1>1. /\ Len(q) \in Nat /\ Len(q) > 1 /\ c \in 1 .. Len(q) /\ Len(w) = Len(q)
      /\ \A i, j \in 1 .. Len(q) : q[i] = q[j] => i = j
      /\ u \in Seq(AllNodes) /\ v \in Seq(ListItems) /\ Len(u) = Len(q) - 1 /\ Len(v) = Len(q) - 1
  BY DEF OneLess, Sequenced, IsTaken
<1>2. \A k \in 1 .. Len(u) : u[k] = IF k <= c - 1 THEN q[k] ELSE q[k + 1]
  BY <1>1 DEF OneLess, IsTaken
<1>3. \A k \in 1 .. Len(u) : v[k] = IF k <= c - 1 THEN w[k] ELSE w[k + 1]
  BY <1>1 DEF OneLess, IsTaken
<1>4. \A k \in 1 .. Len(u) : k <= c - 1 <=> k < c
  BY <1>1
<1>5. /\ \A k \in 1 .. Len(u) : u[k] = IF k < c THEN q[k] ELSE q[k + 1]
      /\ \A k \in 1 .. Len(u) : v[k] = IF k < c THEN w[k] ELSE w[k + 1]
  BY <1>2, <1>3, <1>4
<1>6. ASSUME NEW k \in 1 .. Len(q), k # c PROVE q[k] = IF k < c THEN u[k] ELSE u[k - 1]
  <2>1. CASE k < c
    <3>1. k \in 1 .. Len(u)
      BY <1>1, <2>1
    <3> QED BY <1>5, <2>1, <3>1
  <2>2. CASE ~(k < c)
    <3>1. k - 1 \in 1 .. Len(u) /\ ~(k - 1 < c) /\ (k - 1) + 1 = k
      BY <1>1, <1>6, <2>2
    <3>2. u[k - 1] = q[k]
      BY <1>5, <3>1
    <3> QED BY <2>2, <3>2
  <2> QED BY <2>1, <2>2
<1> DEFINE old(k) == IF k < c THEN k ELSE k + 1
<1>7. \A k \in 1 .. Len(u) : old(k) \in 1 .. Len(q) /\ old(k) # c /\ u[k] = q[old(k)]
  BY <1>1, <1>5
<1>8. ASSUME NEW i \in 1 .. Len(u), NEW k \in 1 .. Len(u), u[i] = u[k] PROVE i = k
  <2>1. old(i) = old(k)
    <3> HIDE DEF old
    <3> QED BY <1>1, <1>7, <1>8
  <2> QED BY <1>1, <2>1
<1>9. NodesOf(u) = NodesOf(q) \ {q[c]}
  <2>1. ASSUME NEW k \in 1 .. Len(u) PROVE u[k] \in NodesOf(q) \ {q[c]}
    <3>1. old(k) \in 1 .. Len(q) /\ old(k) # c /\ u[k] = q[old(k)]
      BY <1>7
    <3> HIDE DEF old
    <3> QED BY <1>1, <3>1 DEF NodesOf
  <2>2. ASSUME NEW k \in 1 .. Len(q), k # c PROVE q[k] \in NodesOf(u)
    <3>1. CASE k < c
      <4>1. k \in 1 .. Len(u) /\ q[k] = u[k]
        BY <1>1, <1>6, <2>2, <3>1
      <4> QED BY <4>1 DEF NodesOf
    <3>2. CASE ~(k < c)
      <4>1. k - 1 \in 1 .. Len(u) /\ q[k] = u[k - 1]
        BY <1>1, <1>6, <2>2, <3>2
      <4> QED BY <4>1 DEF NodesOf
    <3> QED BY <3>1, <3>2
  <2>3. \A m \in NodesOf(u) : m \in NodesOf(q) \ {q[c]}
    BY <2>1 DEF NodesOf
  <2>4. \A m \in NodesOf(q) \ {q[c]} : m \in NodesOf(u)
    <3> SUFFICES ASSUME NEW k \in 1 .. Len(q), q[k] # q[c] PROVE q[k] \in NodesOf(u)
      BY DEF NodesOf
    <3> QED BY <2>2
  <2> QED BY <2>3, <2>4
<1>10. Sequenced(u, v)
  BY <1>1, <1>8 DEF Sequenced
<1>11. \A k \in 1 .. Len(q) : q[k] \in NodesOf(q)
  BY DEF NodesOf
<1> QED BY <1>1, <1>5, <1>6, <1>9, <1>10, <1>11

LEMMA DeletedTraced ==
  ASSUME NEW r, NEW q, NEW w, NEW c, Traces(r, q, w, c), Len(q) > 1
  PROVE  \E u : Traces(DeletedNode(r), u, RemoveAt(w, c), IF c = Len(q) THEN 1 ELSE c)
<1> DEFINE l == Len(q)
           u == RemoveAt(q, c)
           v == RemoveAt(w, c)
           gone == q[c]
           after == q[After(c, l)]
           before == q[Before(c, l)]
           t == DeletedNode(r)
<1>1. /\ HasFields(r) /\ Links(r, q, w) /\ Sequenced(q, w) /\ r.root = q[1] /\ r.position = q[c]
      /\ l \in Nat \ {0} /\ c \in 1 .. l /\ Len(w) = l
      /\ q \in Seq(AllNodes) /\ w \in Seq(ListItems)
      /\ \A i, j \in 1 .. l : q[i] = q[j] => i = j
      /\ \A k \in 1 .. l : /\ r.next[q[k]] = q[After(k, l)] /\ r.previous[q[k]] = q[Before(k, l)]
                           /\ r.item[q[k]] = w[k]
  BY TracesHave
<1>2. OneLess(q, u, w, v, c)
  <2>1. c - 1 \in 0 .. Len(q) - 1 /\ c - 1 \in 0 .. Len(w) - 1 /\ (c - 1) + 1 = c
    BY <1>1
  <2>2. IsTaken(AllNodes, RemoveAt(q, (c - 1) + 1), q, c - 1)
    BY <1>1, <2>1, RemovedIsTaken
  <2>3. IsTaken(ListItems, RemoveAt(w, (c - 1) + 1), w, c - 1)
    BY <1>1, <2>1, RemovedIsTaken
  <2> QED BY <1>1, <2>1, <2>2, <2>3 DEF OneLess
<1> HIDE DEF u, v
<1>3. /\ Sequenced(u, v) /\ Len(u) = l - 1 /\ l > 1
      /\ NodesOf(u) = NodesOf(q) \ {gone}
      /\ \A k \in 1 .. l : q[k] \in NodesOf(q)
      /\ \A k \in 1 .. l - 1 : u[k] = IF k < c THEN q[k] ELSE q[k + 1]
      /\ \A k \in 1 .. l - 1 : v[k] = IF k < c THEN w[k] ELSE w[k + 1]
      /\ \A k \in 1 .. l : k # c => q[k] = IF k < c THEN u[k] ELSE u[k - 1]
  BY <1>2, LessSequenced
<1>4. /\ After(c, l) \in 1 .. l /\ Before(c, l) \in 1 .. l /\ After(c, l) # c /\ Before(c, l) # c
  BY <1>1 DEF After, Before
<1>5. r.next[r.position] = after /\ r.previous[r.position] = before /\ after # gone
      /\ RingNodes(r) = NodesOf(q)
  BY <1>1, <1>4 DEF Links, RingNodes
<1>6. /\ t.next = [m \in NodesOf(u) |-> IF m = before THEN after ELSE r.next[m]]
      /\ t.previous = [m \in NodesOf(u) |-> IF m = after THEN before ELSE r.previous[m]]
      /\ t.item = [m \in NodesOf(u) |-> r.item[m]]
      /\ t.root = (IF r.root = gone THEN after ELSE r.root) /\ t.position = after /\ HasFields(t)
  <2> HIDE DEF after, before
  <2> QED BY <1>1, <1>3, <1>5 DEF DeletedNode, HasFields
<1>7. \A k \in 1 .. l : k # c => q[k] \in NodesOf(u)
  BY <1>1, <1>3
<1>8. \A k \in 1 .. l : k # c =>
        /\ t.next[q[k]] = q[IF k = Before(c, l) THEN After(c, l) ELSE After(k, l)]
        /\ t.previous[q[k]] = q[IF k = After(c, l) THEN Before(c, l) ELSE Before(k, l)]
        /\ t.item[q[k]] = w[k]
  <2> SUFFICES ASSUME NEW k \in 1 .. l, k # c
               PROVE /\ t.next[q[k]] = q[IF k = Before(c, l) THEN After(c, l) ELSE After(k, l)]
                     /\ t.previous[q[k]] = q[IF k = After(c, l) THEN Before(c, l) ELSE Before(k, l)]
                     /\ t.item[q[k]] = w[k]
    OBVIOUS
  <2>1. q[k] \in NodesOf(u) /\ (q[k] = before <=> k = Before(c, l)) /\ (q[k] = after <=> k = After(c, l))
    BY <1>1, <1>4, <1>7
  <2> HIDE DEF t
  <2> QED BY <1>1, <1>6, <2>1
<1> HIDE DEF t
<1>9. ASSUME NEW k \in 1 .. l - 1
      PROVE  /\ t.next[u[k]] = u[After(k, l - 1)] /\ t.previous[u[k]] = u[Before(k, l - 1)]
             /\ t.item[u[k]] = v[k]
  <2> DEFINE o == IF k < c THEN k ELSE k + 1
             new(i) == IF i < c THEN i ELSE i - 1
             on == IF o = Before(c, l) THEN After(c, l) ELSE After(o, l)
             back == IF o = After(c, l) THEN Before(c, l) ELSE Before(o, l)
  <2>1. o \in 1 .. l /\ o # c /\ u[k] = q[o] /\ v[k] = w[o]
    BY <1>1, <1>3
  <2>2. t.next[u[k]] = q[on] /\ t.previous[u[k]] = q[back] /\ t.item[u[k]] = v[k]
    <3> HIDE DEF o
    <3> QED BY <1>8, <2>1
  <2>6. k \in 1 .. l - 1 /\ l \in Int /\ l > 1 /\ c \in 1 .. l
    BY <1>1, <1>3
  <2> HIDE DEF l
  <2>7. ASSUME k < c PROVE /\ on \in 1 .. l /\ on # c /\ new(on) = After(k, l - 1)
                          /\ back \in 1 .. l /\ back # c /\ new(back) = Before(k, l - 1)
    <3>1. o = k
      BY <2>7
    <3>2. on \in 1 .. l /\ on # c /\ new(on) = After(k, l - 1)
      BY <2>6, <2>7, <3>1 DEF After, Before
    <3>3. back \in 1 .. l /\ back # c /\ new(back) = Before(k, l - 1)
      BY <2>6, <2>7, <3>1 DEF After, Before
    <3> HIDE DEF on, back, new
    <3> QED BY <3>2, <3>3
  <2>8. ASSUME ~(k < c) PROVE /\ on \in 1 .. l /\ on # c /\ new(on) = After(k, l - 1)
                          /\ back \in 1 .. l /\ back # c /\ new(back) = Before(k, l - 1)
    <3>1. o = k + 1
      BY <2>8
    <3>2. on \in 1 .. l /\ on # c /\ new(on) = After(k, l - 1)
      BY <2>6, <2>8, <3>1 DEF After, Before
    <3>3. back \in 1 .. l /\ back # c /\ new(back) = Before(k, l - 1)
      BY <2>6, <2>8, <3>1 DEF After, Before
    <3> HIDE DEF on, back, new
    <3> QED BY <3>2, <3>3
  <2>3. on \in 1 .. l /\ on # c /\ new(on) = After(k, l - 1)
    <3> HIDE DEF on, back, new
    <3> QED BY <2>7, <2>8
  <2>4. back \in 1 .. l /\ back # c /\ new(back) = Before(k, l - 1)
    <3> HIDE DEF on, back, new
    <3> QED BY <2>7, <2>8
  <2>5. q[on] = u[new(on)] /\ q[back] = u[new(back)]
    <3> HIDE DEF on, back
    <3> QED BY <1>3, <2>3, <2>4
  <2>9. q[on] = u[After(k, l - 1)] /\ q[back] = u[Before(k, l - 1)]
    <3> HIDE DEF on, back, new
    <3> QED BY <2>3, <2>4, <2>5
  <2> HIDE DEF on, back, new, o
  <2> QED BY <2>2, <2>9, Zenon
<1>10. Links(t, u, v)
  <2>1. DOMAIN t.next = NodesOf(u) /\ DOMAIN t.previous = NodesOf(u) /\ DOMAIN t.item = NodesOf(u)
    BY <1>6
  <2>2. Len(u) = l - 1 /\ Sequenced(u, v)
    BY <1>3
  <2>3. \A k \in 1 .. Len(u) : /\ t.next[u[k]] = u[After(k, Len(u))]
                               /\ t.previous[u[k]] = u[Before(k, Len(u))]
                               /\ t.item[u[k]] = v[k]
    BY <1>9, <2>2
  <2> QED BY <2>1, <2>2, <2>3 DEF Links
<1>11. t.root = u[1]
  <2>1. r.root = gone <=> c = 1
    BY <1>1
  <2>2. c = 1 => u[1] = after
    BY <1>1, <1>3 DEF After
  <2>3. c # 1 => u[1] = q[1]
    BY <1>1, <1>3
  <2> QED BY <1>1, <1>6, <2>1, <2>2, <2>3
<1>12. (IF c = l THEN 1 ELSE c) \in 1 .. Len(u) /\ t.position = u[IF c = l THEN 1 ELSE c]
  BY <1>1, <1>3, <1>6 DEF After
<1>13. Traces(t, u, v, IF c = l THEN 1 ELSE c)
  BY <1>6, <1>10, <1>11, <1>12 DEF Traces
<1> QED BY <1>13 DEF t, v

\* A list of one element is empty after Del.
LEMMA LastDeleted ==
  ASSUME NEW r, NEW q, NEW w, NEW c, Traces(r, q, w, c), Len(q) = 1
  PROVE  DeletedNode(r) = EmptyRing
<1>1. c = 1 /\ r.position = q[1] /\ r.next[q[1]] = q[1]
  BY TracesHave DEF After
<1> QED BY <1>1 DEF DeletedNode

\* A ring that is built from a list anew.
LEMMA BuiltTraced ==
  ASSUME NEW w \in Seq(ListItems), w # << >>, Len(w) <= MaxNodes, NEW c \in 1 .. Len(w)
  PROVE  \E q : Traces(BuiltList(w, c), q, w, c)
<1> DEFINE l == Len(w)
           q == [k \in 1 .. l |-> k]
           t == BuiltList(w, c)
<1>1. l \in Nat \ {0} /\ MaxNodes \in Nat /\ DOMAIN w = 1 .. l
  BY EmptySeq, LinkedListAssumption
<1>2. q \in Seq(AllNodes) /\ Len(q) = l /\ \A k \in 1 .. l : q[k] = k
  <2>1. \A k \in 1 .. l : k \in AllNodes
    BY <1>1 DEF AllNodes
  <2> QED BY <1>1, <2>1, IsASeq
<1> HIDE DEF q
<1>3. Sequenced(q, w)
  BY <1>1, <1>2 DEF Sequenced
<1>4. NodesOf(q) = 1 .. l
  BY <1>1, <1>2 DEF NodesOf
<1>5. /\ HasFields(t) /\ t.root = 1 /\ t.position = c /\ t.item = w
      /\ t.next = [n \in 1 .. l |-> IF n = l THEN 1 ELSE n + 1]
      /\ t.previous = [n \in 1 .. l |-> IF n = 1 THEN l ELSE n - 1]
  BY <1>1 DEF BuiltList, HasFields
<1> HIDE DEF t
<1> HIDE DEF l
<1>6. \A k \in 1 .. l : /\ After(k, l) \in 1 .. l /\ After(k, l) = IF k = l THEN 1 ELSE k + 1
                        /\ Before(k, l) \in 1 .. l /\ Before(k, l) = IF k = 1 THEN l ELSE k - 1
  BY <1>1 DEF After, Before
<1>7. /\ DOMAIN t.next = 1 .. l /\ DOMAIN t.previous = 1 .. l
      /\ \A k \in 1 .. l : t.next[k] = After(k, l) /\ t.previous[k] = Before(k, l)
  BY <1>5, <1>6
<1>9. \A k \in 1 .. l : /\ t.next[q[k]] = q[After(k, l)] /\ t.previous[q[k]] = q[Before(k, l)]
                        /\ t.item[q[k]] = w[k]
  <2>1. \A k \in 1 .. l : q[k] = k /\ q[After(k, l)] = After(k, l) /\ q[Before(k, l)] = Before(k, l)
    BY <1>2, <1>6
  <2> QED BY <1>5, <1>7, <2>1
<1>10. Links(t, q, w)
  BY <1>1, <1>2, <1>3, <1>4, <1>5, <1>7, <1>9 DEF Links
<1>11. c \in 1 .. l /\ q[1] = 1 /\ q[c] = c
  BY <1>1, <1>2 DEF l
<1>8. Traces(t, q, w, c)
  BY <1>2, <1>5, <1>10, <1>11 DEF Traces
<1> QED BY <1>8 DEF t

\* Another position of the same ring.
LEMMA MovedTraced ==
  ASSUME NEW r, NEW q, NEW w, NEW c, Traces(r, q, w, c), NEW d \in 1 .. Len(q)
  PROVE  Traces([r EXCEPT !.position = q[d]], q, w, d)
<1> DEFINE t == [r EXCEPT !.position = q[d]]
<1>1. HasFields(r) /\ Links(r, q, w) /\ r.root = q[1]
  BY DEF Traces
<1>2. /\ HasFields(t) /\ t.next = r.next /\ t.previous = r.previous /\ t.item = r.item
      /\ t.root = r.root /\ t.position = q[d]
  BY <1>1 DEF HasFields
<1> HIDE DEF t
<1>3. Traces(t, q, w, d)
  BY <1>1, <1>2 DEF Traces, Links
<1> QED BY <1>3 DEF t

LEMMA ReplacedTraced ==
  ASSUME NEW r, NEW q, NEW w, NEW c, Traces(r, q, w, c), NEW x \in ListItems
  PROVE  Traces([r EXCEPT !.item[r.position] = x], q, [w EXCEPT ![c] = x], c)
<1> DEFINE t == [r EXCEPT !.item[r.position] = x]
           v == [w EXCEPT ![c] = x]
           l == Len(q)
<1>1. /\ HasFields(r) /\ Links(r, q, w) /\ r.root = q[1] /\ Sequenced(q, w) /\ c \in 1 .. l /\ r.position = q[c]
      /\ w \in Seq(ListItems) /\ Len(w) = l /\ \A i, j \in 1 .. l : q[i] = q[j] => i = j
  BY TracesHave
<1>2. /\ HasFields(t) /\ t.next = r.next /\ t.previous = r.previous
      /\ t.item = [r.item EXCEPT ![q[c]] = x] /\ t.root = r.root /\ t.position = q[c]
  BY <1>1 DEF HasFields
<1>3. v \in Seq(ListItems) /\ Len(v) = l /\ \A k \in 1 .. l : v[k] = IF k = c THEN x ELSE w[k]
  BY <1>1
<1>4. DOMAIN r.item = NodesOf(q) /\ \A k \in 1 .. l : q[k] \in NodesOf(q) /\ r.item[q[k]] = w[k]
  BY <1>1 DEF Links, NodesOf
<1> HIDE DEF t, v
<1>5. DOMAIN t.item = NodesOf(q) /\ \A k \in 1 .. l : t.item[q[k]] = v[k]
  BY <1>1, <1>2, <1>3, <1>4
<1>6. Sequenced(q, v)
  BY <1>1, <1>3 DEF Sequenced
<1>7. Traces(t, q, v, c)
  BY <1>1, <1>2, <1>5, <1>6 DEF Traces, Links
<1> QED BY <1>7 DEF t, v


-----------------------------------------------------------------------------
\* Concatenate: the items of the other list one by one after the last.
LEMMA AppendedIs ==
  ASSUME NEW w \in Seq(ListItems), NEW x \in ListItems
  PROVE  InsertAt(w, Len(w) + 1, x) = Append(w, x)
<1> DEFINE v == InsertAt(w, Len(w) + 1, x)
<1>1. Len(w) \in 0 .. Len(w) /\ Len(w) \in Nat
  OBVIOUS
<1>2. IsPut(ListItems, v, w, Len(w), x)
  BY <1>1, InsertedIsPut
<1> HIDE DEF v
<1>3. v \in Seq(ListItems) /\ Len(v) = Len(w) + 1
      /\ \A k \in 1 .. Len(w) + 1 : v[k] = IF k <= Len(w) THEN w[k] ELSE IF k = Len(w) + 1 THEN x ELSE w[k - 1]
  BY <1>2 DEF IsPut
<1> DEFINE t == Append(w, x)
<1>4. t \in Seq(ListItems) /\ Len(t) = Len(w) + 1
      /\ \A k \in 1 .. Len(w) + 1 : t[k] = IF k = Len(w) + 1 THEN x ELSE w[k]
  BY <1>1
<1> HIDE DEF t
<1>5. \A k \in 1 .. Len(w) + 1 : v[k] = t[k]
  BY <1>1, <1>3, <1>4
<1>6. v = t
  BY <1>3, <1>4, <1>5, SeqEqual
<1> QED BY <1>6 DEF v, t

LEMMA PutAtEndTraced ==
  ASSUME NEW r, NEW q, NEW w, Traces(r, q, w, Len(w)), Len(w) < MaxNodes, NEW x \in ListItems
  PROVE  \E u : Traces(AddedAtEnd(r, x), u, Append(w, x), Len(w) + 1)
<1> DEFINE l == Len(w)
           t == AddedNode(r, x)
           v == Append(w, x)
<1>1. Len(q) = l /\ l \in Nat \ {0} /\ w \in Seq(ListItems)
  BY TracesHave
<1>2. InsertAt(w, l + 1, x) = v
  BY <1>1, AppendedIs
<1>3. PICK u : Traces(t, u, v, l)
  BY <1>1, <1>2, AddedTraced
<1>4. Len(v) = l + 1
  BY <1>1
<1> HIDE DEF t, v
<1>5. Len(u) = l + 1 /\ t.next[t.position] = u[After(l, l + 1)]
  BY <1>3, <1>4, TracesHave
<1>6. After(l, l + 1) = l + 1 /\ l + 1 \in 1 .. l + 1
  BY <1>1 DEF After
<1>7. Traces([t EXCEPT !.position = u[l + 1]], u, v, l + 1)
  BY <1>3, <1>5, <1>6, MovedTraced
<1>8. AddedAtEnd(r, x) = [t EXCEPT !.position = t.next[@]]
  BY DEF AddedAtEnd, t
<1>9. [t EXCEPT !.position = t.next[@]] = [t EXCEPT !.position = t.next[t.position]]
  BY <1>3 DEF Traces, HasFields
<1> QED BY <1>5, <1>6, <1>7, <1>8, <1>9 DEF v

AddedFrom(start, other, m, g) ==
  g = [k \in 0 .. m |-> IF k = 0 THEN start ELSE AddedAtEnd(g[k - 1], other[k])]

LEMMA AddedExists ==
  ASSUME NEW start, NEW other, NEW n \in Nat
  PROVE  \E g : AddedFrom(start, other, n, g)
<1> DEFINE S == {m \in 0 .. n : \E g : AddedFrom(start, other, m, g)}
<1>1. 0 \in S
  <2>1. AddedFrom(start, other, 0, [k \in 0 .. 0 |-> start])
    BY DEF AddedFrom
  <2> QED BY <2>1
<1>2. ASSUME NEW m \in 0 .. n - 1, m \in S PROVE m + 1 \in S
  <2>1. PICK f : AddedFrom(start, other, m, f)
    BY <1>2
  <2> DEFINE new == AddedAtEnd(f[m], other[m + 1])
             g == [k \in 0 .. m + 1 |-> IF k = m + 1 THEN new ELSE f[k]]
  <2>2. \A k \in 0 .. m : f[k] = IF k = 0 THEN start ELSE AddedAtEnd(f[k - 1], other[k])
    BY <2>1, Zenon DEF AddedFrom
  <2> HIDE DEF new
  <2>3. ASSUME NEW k \in 0 .. m + 1
        PROVE  g[k] = IF k = 0 THEN start ELSE AddedAtEnd(g[k - 1], other[k])
    <3>1. CASE k = m + 1
      <4>1. k # 0 /\ k - 1 = m /\ m \in 0 .. m + 1 /\ m # m + 1
        BY <3>1
      <4>2. g[m] = f[m] /\ g[k] = new
        BY <3>1, <4>1
      <4> HIDE DEF g
      <4> QED BY <3>1, <4>1, <4>2 DEF new
    <3>2. CASE k \in 0 .. m
      <4>1. g[k] = f[k]
        BY <3>2
      <4>2. k # 0 => k - 1 \in 0 .. m + 1 /\ k - 1 # m + 1
        BY <3>2
      <4>3. k # 0 => g[k - 1] = f[k - 1]
        BY <4>2
      <4> HIDE DEF g
      <4> QED BY <2>2, <3>2, <4>1, <4>3
    <3> QED BY <3>1, <3>2
  <2>4. g = [k \in 0 .. m + 1 |-> IF k = 0 THEN start ELSE AddedAtEnd(g[k - 1], other[k])]
    <3>1. g = [k \in 0 .. m + 1 |-> g[k]]
      OBVIOUS
    <3> HIDE DEF g
    <3> QED BY <2>3, <3>1
  <2>5. m + 1 \in 0 .. n
    OBVIOUS
  <2> HIDE DEF g
  <2> QED BY <2>4, <2>5 DEF AddedFrom
<1>3. n \in S
  <2> HIDE DEF S
  <2>1. 0 .. n \subseteq S
    BY <1>1, <1>2, UpToInSet
  <2> QED BY <2>1
<1> QED BY <1>3

LEMMA AddedTraces ==
  ASSUME NEW start, NEW q, NEW base, Traces(start, q, base, Len(base)), NEW other \in Seq(ListItems),
         Len(base) + Len(other) <= MaxNodes, NEW g, AddedFrom(start, other, Len(other), g)
  PROVE  \E u : Traces(g[Len(other)], u, base \o other, Len(base) + Len(other))
<1> DEFINE n == Len(other)
           l == Len(base)
           upTo(k) == base \o SubSeq(other, 1, k)
           S == {k \in 0 .. n : \E u : Traces(g[k], u, upTo(k), l + k)}
<1>1. n \in Nat /\ l \in Nat \ {0} /\ base \in Seq(ListItems) /\ MaxNodes \in Nat /\ l + n <= MaxNodes
      /\ \A k \in 1 .. n : other[k] \in ListItems
  BY TracesHave
<1>2. \A k \in 0 .. n : g[k] = IF k = 0 THEN start ELSE AddedAtEnd(g[k - 1], other[k])
  BY Zenon DEF AddedFrom
<1>3. ASSUME NEW k \in 0 .. n PROVE upTo(k) \in Seq(ListItems) /\ Len(upTo(k)) = l + k
  BY <1>1
<1>4. upTo(0) = base /\ upTo(n) = base \o other
  <2>1. SubSeq(other, 1, 0) = << >> /\ SubSeq(other, 1, n) = other
    BY <1>1
  <2> QED BY <1>1, <2>1
<1>5. ASSUME NEW k \in 0 .. n - 1 PROVE Append(upTo(k), other[k + 1]) = upTo(k + 1)
  <2> DEFINE a == SubSeq(other, 1, k)
             b == SubSeq(other, 1, k + 1)
  <2>1. b = Append(a, other[k + 1])
    BY <1>1
  <2>2. a \in Seq(ListItems) /\ other[k + 1] \in ListItems
    BY <1>1
  <2> HIDE DEF a, b
  <2>3. Append(base \o a, other[k + 1]) = base \o Append(a, other[k + 1])
    <3> DEFINE e == other[k + 1]
               x == <<e>>
    <3>1. e \in ListItems /\ x \in Seq(ListItems) /\ base \o a \in Seq(ListItems)
      BY <1>1, <2>2
    <3> HIDE DEF e
    <3>2. Append(base \o a, e) = (base \o a) \o x /\ Append(a, e) = a \o x
      BY <2>2, <3>1, AppendIsConcat
    <3> HIDE DEF x
    <3>3. (base \o a) \o x = base \o (a \o x)
      <4>1. base \in Seq(ListItems) /\ a \in Seq(ListItems) /\ x \in Seq(ListItems)
        BY <1>1, <2>2, <3>1
      <4>2. \A p, y, z \in Seq(ListItems) : (p \o y) \o z = p \o (y \o z)
        BY ConcatAssociative
      <4> QED BY <4>1, <4>2
    <3> QED BY <3>2, <3>3 DEF e
  <2> QED BY <2>1, <2>3 DEF a, b
<1> HIDE DEF upTo
<1>6. 0 \in S
  BY <1>1, <1>2, <1>4
<1>7. ASSUME NEW k \in 0 .. n - 1, k \in S PROVE k + 1 \in S
  <2>1. PICK u : Traces(g[k], u, upTo(k), l + k)
    BY <1>7
  <2>2. /\ k \in 0 .. n /\ k + 1 \in 1 .. n /\ k + 1 \in 0 .. n /\ k + 1 # 0 /\ (k + 1) - 1 = k
        /\ l + k < MaxNodes /\ (l + k) + 1 = l + (k + 1)
    BY <1>1
  <2>3. Len(upTo(k)) = l + k /\ other[k + 1] \in ListItems
    BY <1>1, <1>3, <2>2
  <2>4. \E v : Traces(AddedAtEnd(g[k], other[k + 1]), v, Append(upTo(k), other[k + 1]), (l + k) + 1)
    BY <2>1, <2>2, <2>3, PutAtEndTraced
  <2>5. g[k + 1] = AddedAtEnd(g[k], other[k + 1])
    BY <1>2, <2>2
  <2> QED BY <1>5, <2>2, <2>4, <2>5
<1>8. n \in S
  <2>1. 0 .. n \subseteq S
    <3> HIDE DEF S
    <3> QED BY <1>1, <1>6, <1>7, UpToInSet
  <2> HIDE DEF S
  <2> QED BY <1>1, <2>1
<1> QED BY <1>4, <1>8

LEMMA ConcatenatedTraced ==
  ASSUME NEW r, NEW w \in Seq(ListItems), NEW c, RingHolds(r, w, c),
         NEW other \in Seq(ListItems), other # << >>,
         Len(w) + (IF w = << >> THEN 2 * Len(other) ELSE Len(other)) <= MaxNodes, NEW all,
         all = IF w = << >> THEN other \o other ELSE w \o other
  PROVE  \E u : Traces(Concatenated(r, other), u, all, Len(all))
<1> DEFINE n == Len(other)
           from == IF r.root = NoNode THEN BuiltList(other, 1) ELSE r
           base == IF w = << >> THEN other ELSE w
           start == [from EXCEPT !.position = from.previous[from.root]]
           added == CHOOSE g : AddedFrom(start, other, n, g)
<1>1. n \in Nat /\ MaxNodes \in Nat /\ Len(w) \in Nat /\ n # 0 /\ (w = << >> => Len(w) = 0)
  BY EmptySeq, LinkedListAssumption
<1>2. \E q, d : Traces(from, q, base, d)
  <2>1. CASE w = << >>
    <3>1. from = BuiltList(other, 1) /\ base = other
      BY <2>1 DEF RingHolds, EmptyRing
    <3>2. n <= MaxNodes /\ 1 \in 1 .. n
      BY <1>1, <2>1
    <3>3. \E q : Traces(BuiltList(other, 1), q, other, 1)
      <4>1. Len(other) = n
        OBVIOUS
      <4> HIDE DEF n
      <4> QED BY <3>2, <4>1, BuiltTraced
    <3> QED BY <3>1, <3>3
  <2>2. CASE w # << >>
    <3>1. PICK q : Traces(r, q, w, c)
      BY <2>2 DEF RingHolds
    <3>2. r.root = q[1] /\ 1 \in 1 .. Len(q) /\ \A k \in 1 .. Len(q) : q[k] # NoNode
      BY <3>1, TracesHave
    <3>3. r.root # NoNode
      BY <3>2
    <3> QED BY <2>2, <3>1, <3>3
  <2> QED BY <2>1, <2>2
<1>3. all = base \o other /\ Len(base) + n <= MaxNodes /\ base \in Seq(ListItems)
  BY <1>1
<1>4. Concatenated(r, other) = added[n]
  BY DEF Concatenated, AddedFrom
<1> HIDE DEF from, base
<1>5. PICK q, d : Traces(from, q, base, d)
  BY <1>2
<1> DEFINE l == Len(base)
<1>6. /\ Len(q) = l /\ l \in Nat \ {0} /\ from.root = q[1] /\ from.previous[q[1]] = q[Before(1, l)]
  <2>1. /\ Len(q) \in Nat \ {0} /\ Len(base) = Len(q) /\ 1 \in 1 .. Len(q) /\ from.root = q[1]
        /\ \A k \in 1 .. Len(q) : from.previous[q[k]] = q[Before(k, Len(q))]
    BY <1>5, TracesHave
  <2> QED BY <2>1
<1>7. Before(1, l) = l /\ l \in 1 .. l
  BY <1>6 DEF Before
<1>8. Traces(start, q, base, l)
  <2>1. Traces([from EXCEPT !.position = q[l]], q, base, l)
    BY <1>5, <1>6, <1>7, MovedTraced
  <2> QED BY <1>6, <1>7, <2>1
<1> HIDE DEF start
<1>9. AddedFrom(start, other, n, added)
  <2>1. \E g : AddedFrom(start, other, n, g)
    BY <1>1, AddedExists
  <2> QED BY <2>1
<1> HIDE DEF added
<1>10. \E u : Traces(added[n], u, base \o other, l + n)
  BY <1>3, <1>8, <1>9, AddedTraces
<1>11. Len(all) = l + n
  BY <1>3
<1> QED BY <1>3, <1>4, <1>10, <1>11

-----------------------------------------------------------------------------
(***************************************************************************)
(* The sort: its result has the items of the list in another order, and    *)
(* the order is unique.                                                    *)
(***************************************************************************)
\* Two sequences after one another, place by place.
LEMMA Joined ==
  ASSUME NEW S, NEW a \in Seq(S), NEW b \in Seq(S)
  PROVE  /\ a \o b \in Seq(S) /\ Len(a \o b) = Len(a) + Len(b) /\ Len(a) \in Nat /\ Len(b) \in Nat
         /\ \A k \in 1 .. Len(a) : k \in 1 .. Len(a) + Len(b) /\ (a \o b)[k] = a[k]
         /\ \A k \in 1 .. Len(b) : Len(a) + k \in 1 .. Len(a) + Len(b) /\ (a \o b)[Len(a) + k] = b[k]
<1> DEFINE t == a \o b
<1>1. Len(a) \in Nat /\ Len(b) \in Nat
  OBVIOUS
<1>2. t \in Seq(S) /\ Len(t) = Len(a) + Len(b)
      /\ \A k \in 1 .. Len(a) + Len(b) : t[k] = IF k <= Len(a) THEN a[k] ELSE b[k - Len(a)]
  OBVIOUS
<1> HIDE DEF t
<1>3. \A k \in 1 .. Len(a) : k \in 1 .. Len(a) + Len(b) /\ t[k] = a[k]
  BY <1>1, <1>2
<1>4. ASSUME NEW k \in 1 .. Len(b) PROVE Len(a) + k \in 1 .. Len(a) + Len(b) /\ t[Len(a) + k] = b[k]
  <2>1. Len(a) + k \in 1 .. Len(a) + Len(b) /\ ~(Len(a) + k <= Len(a)) /\ (Len(a) + k) - Len(a) = k
    BY <1>1
  <2> QED BY <1>2, <2>1
<1> QED BY <1>1, <1>2, <1>3, <1>4 DEF t

LEMMA ShuffledJoined ==
  ASSUME NEW a, NEW b, NEW c, NEW d, Shuffled(ListItems, a, b), Shuffled(ListItems, c, d)
  PROVE  Shuffled(ListItems, a \o c, b \o d)
<1>1. PICK p : ShuffledBy(a, b, p)
  BY DEF Shuffled
<1>2. PICK q : ShuffledBy(c, d, q)
  BY DEF Shuffled
<1> DEFINE m == Len(b)
           n == Len(d)
           s == a \o c
           t == b \o d
           e == [k \in 1 .. m + n |-> IF k <= m THEN p[k] ELSE m + q[k - m]]
<1>3. /\ a \in Seq(ListItems) /\ b \in Seq(ListItems) /\ c \in Seq(ListItems) /\ d \in Seq(ListItems)
      /\ Len(a) = m /\ Len(c) = n /\ m \in Nat /\ n \in Nat
      /\ p \in [1 .. m -> 1 .. m] /\ q \in [1 .. n -> 1 .. n]
      /\ \A i, j \in 1 .. m : p[i] = p[j] => i = j
      /\ \A i, j \in 1 .. n : q[i] = q[j] => i = j
      /\ \A k \in 1 .. m : a[k] = b[p[k]]
      /\ \A k \in 1 .. n : c[k] = d[q[k]]
  BY <1>1, <1>2 DEF Shuffled, ShuffledBy, Injects
<1>13. /\ \A k \in 1 .. m : p[k] \in 1 .. m
       /\ \A k \in 1 .. n : q[k] \in 1 .. n
  BY <1>3
<1>4. /\ s \in Seq(ListItems) /\ Len(s) = m + n
      /\ \A k \in 1 .. m : s[k] = a[k]
      /\ \A k \in 1 .. n : s[m + k] = c[k]
  <2>1. /\ s \in Seq(ListItems) /\ Len(s) = Len(a) + Len(c)
        /\ \A k \in 1 .. Len(a) : s[k] = a[k]
        /\ \A k \in 1 .. Len(c) : s[Len(a) + k] = c[k]
    <3>1. a \in Seq(ListItems) /\ c \in Seq(ListItems)
      BY <1>3
    <3> QED BY <3>1, Joined
  <2> HIDE DEF s
  <2> QED BY <1>3, <2>1
<1>5. /\ t \in Seq(ListItems) /\ Len(t) = m + n
      /\ \A k \in 1 .. m : t[k] = b[k]
      /\ \A k \in 1 .. n : t[m + k] = d[k]
  BY <1>3, Joined
<1> HIDE DEF m, n, s, t
<1>6. \A k \in 1 .. m + n : k \in 1 .. m \/ (k - m \in 1 .. n /\ ~(k <= m) /\ m + (k - m) = k)
  BY <1>3
<1>7. /\ \A k \in 1 .. m : k \in 1 .. m + n /\ e[k] = p[k] /\ p[k] \in 1 .. m /\ e[k] \in 1 .. m + n
      /\ \A k \in 1 .. n : m + k \in 1 .. m + n /\ e[m + k] = m + q[k] /\ q[k] \in 1 .. n /\ e[m + k] \in 1 .. m + n
  <2>1. ASSUME NEW k \in 1 .. m
        PROVE  k \in 1 .. m + n /\ e[k] = p[k] /\ p[k] \in 1 .. m /\ e[k] \in 1 .. m + n
    BY <1>3, <1>13
  <2>2. ASSUME NEW k \in 1 .. n
        PROVE  m + k \in 1 .. m + n /\ e[m + k] = m + q[k] /\ q[k] \in 1 .. n /\ e[m + k] \in 1 .. m + n
    <3>1. m + k \in 1 .. m + n /\ ~(m + k <= m) /\ (m + k) - m = k
      BY <1>3
    <3>2. e[m + k] = m + q[k]
      BY <3>1
    <3>3. m + q[k] \in 1 .. m + n /\ q[k] \in 1 .. n
      BY <1>3, <1>13
    <3> QED BY <3>1, <3>2, <3>3
  <2> QED BY <2>1, <2>2
<1>8. e \in [1 .. m + n -> 1 .. m + n]
  <2>1. e = [k \in 1 .. m + n |-> e[k]]
    OBVIOUS
  <2> HIDE DEF e
  <2>2. \A k \in 1 .. m + n : e[k] \in 1 .. m + n
    BY <1>6, <1>7
  <2> QED BY <2>1, <2>2
<1> HIDE DEF e
<1>9. ASSUME NEW i \in 1 .. m + n, NEW j \in 1 .. m + n, e[i] = e[j] PROVE i = j
  <2>0. /\ \A k \in 1 .. m : e[k] \in 1 .. m
        /\ \A k \in 1 .. m + n : k \notin 1 .. m => e[k] \notin 1 .. m
    <3>1. ASSUME NEW k \in 1 .. m + n, k \notin 1 .. m PROVE e[k] \notin 1 .. m
      <4>1. k - m \in 1 .. n /\ m + (k - m) = k
        BY <1>6, <3>1
      <4>2. e[k] = m + q[k - m] /\ q[k - m] \in 1 .. n
        BY <1>7, <4>1
      <4> QED BY <1>3, <4>2
    <3> QED BY <1>7, <3>1
  <2>1. CASE i \in 1 .. m /\ j \in 1 .. m
    <3>1. p[i] = p[j]
      BY <1>7, <1>9, <2>1
    <3> QED BY <1>3, <2>1, <3>1
  <2>2. CASE i \in 1 .. m /\ j \notin 1 .. m
    BY <1>9, <2>0, <2>2
  <2>3. CASE i \notin 1 .. m /\ j \in 1 .. m
    BY <1>9, <2>0, <2>3
  <2>4. CASE i \notin 1 .. m /\ j \notin 1 .. m
    <3>1. i - m \in 1 .. n /\ j - m \in 1 .. n /\ m + (i - m) = i /\ m + (j - m) = j
      BY <1>6, <2>4
    <3>2. e[i] = m + q[i - m] /\ e[j] = m + q[j - m] /\ q[i - m] \in 1 .. n /\ q[j - m] \in 1 .. n
      BY <1>7, <3>1
    <3>3. q[i - m] = q[j - m]
      <4>1. \A x, y \in 1 .. n : m + x = m + y => x = y
        BY <1>3
      <4> QED BY <1>9, <3>2, <4>1
    <3> QED BY <1>3, <3>1, <3>3
  <2> QED BY <2>1, <2>2, <2>3, <2>4
<1>10. ASSUME NEW k \in 1 .. m + n PROVE s[k] = t[e[k]]
  <2>1. CASE k \in 1 .. m
    <3>1. s[k] = a[k] /\ e[k] = p[k] /\ p[k] \in 1 .. m /\ a[k] = b[p[k]]
      BY <1>3, <1>4, <1>7, <2>1
    <3>2. t[p[k]] = b[p[k]]
      BY <1>5, <3>1
    <3> QED BY <3>1, <3>2
  <2>2. CASE k \notin 1 .. m
    <3>1. k - m \in 1 .. n /\ m + (k - m) = k
      BY <1>6, <2>2
    <3>2. s[k] = c[k - m] /\ e[k] = m + q[k - m] /\ q[k - m] \in 1 .. n
      BY <1>4, <1>7, <3>1
    <3>3. t[m + q[k - m]] = d[q[k - m]]
      BY <1>5, <3>2
    <3> QED BY <1>3, <3>1, <3>2, <3>3
  <2> QED BY <2>1, <2>2
<1>11. ShuffledBy(s, t, e)
  BY <1>5, <1>8, <1>9, <1>10 DEF ShuffledBy, Injects
<1>12. Shuffled(ListItems, s, t)
  BY <1>4, <1>5, <1>11 DEF Shuffled
<1> QED BY <1>12 DEF s, t

LEMMA HalfShuffled == ASSUME NEW s \in Seq(ListItems) PROVE Shuffled(ListItems, HalfAdded(s), s)
<1>1. CASE s = << >>
  BY <1>1, ShuffledSame DEF HalfAdded
<1>2. CASE s # << >>
  <2> DEFINE n == Len(s)
             h == <<Head(s)>>
             r == Reverse(Tail(s))
             t == h \o r
             p == [k \in 1 .. n |-> IF k = 1 THEN 1 ELSE (n - k) + 2]
  <2>1. n \in Nat \ {0} /\ s[1] \in ListItems /\ h \in Seq(ListItems) /\ Len(h) = 1 /\ h[1] = s[1]
    BY <1>2, EmptySeq
  <2>2. Tail(s) \in Seq(ListItems) /\ Len(Tail(s)) = n - 1 /\ \A k \in 1 .. n - 1 : Tail(s)[k] = s[k + 1]
    BY <1>2, <2>1
  <2>3. r \in Seq(ListItems) /\ Len(r) = n - 1 /\ \A k \in 1 .. n - 1 : r[k] = s[(n - k) + 1]
    <3> DEFINE b == Tail(s)
    <3> HIDE DEF b
    <3>1. r = [k \in 1 .. n - 1 |-> b[((n - 1) - k) + 1]]
      BY <2>2 DEF Reverse, b
    <3>2. \A k \in 1 .. n - 1 : ((n - 1) - k) + 1 \in 1 .. n - 1 /\ (((n - 1) - k) + 1) + 1 = (n - k) + 1
      BY <2>1
    <3>3. \A k \in 1 .. n - 1 : b[((n - 1) - k) + 1] \in ListItems /\ b[((n - 1) - k) + 1] = s[(n - k) + 1]
      BY <2>2, <3>2 DEF b
    <3> HIDE DEF r, n
    <3>4. n - 1 \in Nat
      BY <2>1
    <3>5. \A k \in 1 .. n - 1 : r[k] = b[((n - 1) - k) + 1]
      BY <3>1
    <3> QED BY <3>1, <3>3, <3>4, <3>5, IsASeq
  <2> HIDE DEF h, r
  <2>4. /\ t \in Seq(ListItems) /\ Len(t) = n /\ t[1] = s[1]
        /\ \A k \in 1 .. n - 1 : t[1 + k] = s[(n - k) + 1]
    <3>1. /\ t \in Seq(ListItems) /\ Len(t) = Len(h) + Len(r)
          /\ \A k \in 1 .. Len(h) : t[k] = h[k]
          /\ \A k \in 1 .. Len(r) : t[Len(h) + k] = r[k]
      <4>1. h \in Seq(ListItems) /\ r \in Seq(ListItems)
        BY <2>1, <2>3
      <4> QED BY <4>1, Joined
    <3> HIDE DEF t, n
    <3>2. \A k \in 1 .. n - 1 : t[1 + k] = r[k]
      BY <2>1, <2>3, <3>1
    <3> QED BY <2>1, <2>3, <3>1, <3>2
  <2>5. p \in [1 .. n -> 1 .. n] /\ \A k \in 1 .. n : p[k] = IF k = 1 THEN 1 ELSE (n - k) + 2
    BY <2>1
  <2> HIDE DEF p, t
  <2>6. \A i, j \in 1 .. n : p[i] = p[j] => i = j
    BY <2>1, <2>5
  <2>7. ASSUME NEW k \in 1 .. n PROVE t[k] = s[p[k]]
    <3>1. CASE k = 1
      BY <2>4, <2>5, <3>1
    <3>2. CASE k # 1
      <4>1. k - 1 \in 1 .. n - 1 /\ 1 + (k - 1) = k /\ (n - (k - 1)) + 1 = (n - k) + 2
        BY <2>1, <3>2
      <4> QED BY <2>4, <2>5, <3>2, <4>1
    <3> QED BY <3>1, <3>2
  <2>8. ShuffledBy(t, s, p)
    BY <2>5, <2>6, <2>7 DEF ShuffledBy, Injects
  <2>9. Shuffled(ListItems, t, s)
    BY <2>4, <2>8 DEF Shuffled
  <2> QED BY <1>2, <2>9 DEF HalfAdded, t, h, r
<1> QED BY <1>1, <1>2

-----------------------------------------------------------------------------
\* Merge: how many of the first k are of L1, and what is left is not smaller.
Takes(a, b, k, n) == n < Len(a) /\ (k - n > Len(b) \/ a[n + 1] < b[k - n])
FirstOf(a, b, f) ==
  f = [k \in 0 .. Len(a) + Len(b) |->
         IF k = 0 THEN 0
         ELSE LET n == f[k - 1]
                  takes == n < Len(a) /\ (k - n > Len(b) \/ a[n + 1] < b[k - n])
              IN  IF takes THEN n + 1 ELSE n]
Chosen(a, b, f) ==
  /\ f[0] = 0
  /\ \A k \in 0 .. Len(a) + Len(b) : f[k] \in 0 .. Len(a) /\ k - f[k] \in 0 .. Len(b)
  /\ \A k \in 1 .. Len(a) + Len(b) :
       f[k] = IF Takes(a, b, k, f[k - 1]) THEN f[k - 1] + 1 ELSE f[k - 1]

LEMMA FirstChosen ==
  ASSUME NEW a \in Seq(ListItems), NEW b \in Seq(ListItems)
  PROVE  \E f : FirstOf(a, b, f)
<1> DEFINE N == Len(a) + Len(b)
           step == [x \in (1 .. N) \X Nat |-> IF Takes(a, b, x[1], x[2]) THEN x[2] + 1 ELSE x[2]]
<1>1. N \in Nat
  OBVIOUS
<1> HIDE DEF N
<1>2. Foldable(Nat, N, 0, step)
  <2>1. step \in [(1 .. N) \X Nat -> Nat]
    OBVIOUS
  <2> HIDE DEF step
  <2> QED BY <1>1, <2>1 DEF Foldable
<1>3. PICK f : FoldOf(Nat, N, 0, step, f)
  <2> HIDE DEF step
  <2> QED BY <1>2, Folded
<1>4. /\ f \in [0 .. N -> Nat] /\ f[0] = 0
      /\ \A k \in 1 .. N : f[k] = step[<<k, f[k - 1]>>]
  <2> HIDE DEF step
  <2> QED BY <1>3 DEF FoldOf
<1>5. ASSUME NEW k \in 1 .. N
      PROVE  f[k] = IF Takes(a, b, k, f[k - 1]) THEN f[k - 1] + 1 ELSE f[k - 1]
  <2>1. k - 1 \in 0 .. N /\ f[k - 1] \in Nat
    BY <1>1, <1>4
  <2>2. <<k, f[k - 1]>> \in (1 .. N) \X Nat
    BY <2>1
  <2> QED BY <1>4, <2>2
<1> DEFINE g == [k \in 0 .. N |-> IF k = 0 THEN 0
                                  ELSE IF Takes(a, b, k, f[k - 1]) THEN f[k - 1] + 1 ELSE f[k - 1]]
<1> HIDE DEF step
<1>6. ASSUME NEW k \in 0 .. N PROVE f[k] = g[k]
  <2>1. CASE k = 0
    BY <1>1, <1>4, <2>1
  <2>2. CASE k # 0
    <3>1. k \in 1 .. N
      BY <1>1, <2>2
    <3> QED BY <1>5, <2>2, <3>1
  <2> QED BY <2>1, <2>2
<1>7. f = g
  BY <1>4, <1>6
<1>8. FirstOf(a, b, f)
  BY <1>7 DEF FirstOf, Takes, N
<1> QED BY <1>8

LEMMA ChosenBounds ==
  ASSUME NEW a \in Seq(ListItems), NEW b \in Seq(ListItems), NEW f, FirstOf(a, b, f)
  PROVE  Chosen(a, b, f)
<1> DEFINE N == Len(a) + Len(b)
           S == {k \in 0 .. N : f[k] \in 0 .. Len(a) /\ k - f[k] \in 0 .. Len(b)}
<1>1. Len(a) \in Nat /\ Len(b) \in Nat /\ N \in Nat
  OBVIOUS
<1>2. \A k \in 0 .. N : f[k] = IF k = 0 THEN 0
                               ELSE IF Takes(a, b, k, f[k - 1]) THEN f[k - 1] + 1 ELSE f[k - 1]
  BY Zenon DEF FirstOf, Takes
<1>3. f[0] = 0 /\ 0 \in S
  BY <1>1, <1>2
<1>4. ASSUME NEW k \in 1 .. N
      PROVE  f[k] = IF Takes(a, b, k, f[k - 1]) THEN f[k - 1] + 1 ELSE f[k - 1]
  <2>1. k \in 0 .. N /\ k # 0
    BY <1>1
  <2> QED BY <1>2, <2>1
<1>5. ASSUME NEW m \in 0 .. N - 1, m \in S PROVE m + 1 \in S
  <2>1. m + 1 \in 1 .. N /\ (m + 1) - 1 = m /\ m + 1 \in 0 .. N
    BY <1>1
  <2>2. f[m + 1] = IF Takes(a, b, m + 1, f[m]) THEN f[m] + 1 ELSE f[m]
    BY <1>4, <2>1
  <2>3. f[m] \in 0 .. Len(a) /\ m - f[m] \in 0 .. Len(b)
    BY <1>5
  <2>4. CASE Takes(a, b, m + 1, f[m])
    <3>1. f[m] < Len(a)
      BY <2>4 DEF Takes
    <3>2. f[m + 1] = f[m] + 1
      BY <2>2, <2>4
    <3>3. f[m] + 1 \in 0 .. Len(a) /\ (m + 1) - (f[m] + 1) = m - f[m]
      BY <1>1, <2>3, <3>1
    <3> QED BY <2>1, <2>3, <3>2, <3>3
  <2>5. CASE ~Takes(a, b, m + 1, f[m])
    <3>1. ~(f[m] < Len(a)) \/ ~((m + 1) - f[m] > Len(b))
      BY <2>5 DEF Takes
    <3>2. (m + 1) - f[m] \in 0 .. Len(b)
      <4>1. m <= N - 1 /\ m \in Int
        OBVIOUS
      <4> QED BY <1>1, <2>3, <3>1, <4>1
    <3> QED BY <1>1, <2>1, <2>2, <2>3, <2>5, <3>2
  <2> QED BY <2>4, <2>5
<1>6. 0 .. N \subseteq S
  <2> HIDE DEF S, N
  <2> QED BY <1>1, <1>3, <1>5, UpToInSet
<1>7. \A k \in 0 .. N : f[k] \in 0 .. Len(a) /\ k - f[k] \in 0 .. Len(b)
  BY <1>6
<1> QED BY <1>3, <1>4, <1>7 DEF Chosen

\* Of either list the items are taken in turn.
LEMMA ChosenRises ==
  ASSUME NEW a \in Seq(ListItems), NEW b \in Seq(ListItems), NEW f, Chosen(a, b, f),
         NEW j \in 0 .. Len(a) + Len(b), NEW i \in 0 .. j
  PROVE  f[i] <= f[j] /\ i - f[i] <= j - f[j]
<1> DEFINE N == Len(a) + Len(b)
           S == {d \in 0 .. j - i : f[i] <= f[i + d] /\ i - f[i] <= (i + d) - f[i + d]}
<1>1. /\ N \in Nat /\ j \in 0 .. N /\ \A k \in 0 .. N : f[k] \in Int
      /\ \A k \in 1 .. N : f[k] = f[k - 1] + 1 \/ f[k] = f[k - 1]
  BY DEF Chosen
<1> HIDE DEF N
<1>2. i \in 0 .. N /\ j - i \in Nat
  BY <1>1
<1>3. 0 \in S
  BY <1>1, <1>2
<1>4. ASSUME NEW d \in 0 .. (j - i) - 1, d \in S PROVE d + 1 \in S
  <2>1. i + d \in 0 .. N /\ i + (d + 1) \in 1 .. N /\ (i + (d + 1)) - 1 = i + d /\ d + 1 \in 0 .. j - i
        /\ i + (d + 1) \in 0 .. N
    BY <1>1, <1>2
  <2>2. f[i + (d + 1)] = f[i + d] + 1 \/ f[i + (d + 1)] = f[i + d]
    BY <1>1, <2>1
  <2>3. f[i] \in Int /\ f[i + d] \in Int /\ f[i] <= f[i + d] /\ i - f[i] <= (i + d) - f[i + d]
    BY <1>1, <1>2, <1>4, <2>1
  <2> QED BY <1>2, <2>1, <2>2, <2>3
<1>5. j - i \in S
  <2>1. 0 .. j - i \subseteq S
    <3> HIDE DEF S
    <3> QED BY <1>2, <1>3, <1>4, UpToInSet
  <2> HIDE DEF S
  <2> QED BY <1>2, <2>1
<1>6. i + (j - i) = j
  BY <1>1, <1>2
<1> QED BY <1>5, <1>6

\* The place in the two lists, one after the other, of the k-th item of the result.
PlaceOf(a, f, k) == IF f[k] > f[k - 1] THEN f[k] ELSE Len(a) + (k - f[k])

LEMMA PlaceIs ==
  ASSUME NEW a \in Seq(ListItems), NEW b \in Seq(ListItems), NEW f, Chosen(a, b, f),
         NEW k \in 1 .. Len(a) + Len(b)
  PROVE  /\ f[k - 1] \in 0 .. Len(a) /\ f[k] \in 0 .. Len(a) /\ k - 1 \in 0 .. Len(a) + Len(b)
         /\ f[k] > f[k - 1] => /\ f[k] = f[k - 1] + 1 /\ f[k] \in 1 .. Len(a)
                               /\ Takes(a, b, k, f[k - 1])
         /\ ~(f[k] > f[k - 1]) => /\ f[k] = f[k - 1] /\ k - f[k] \in 1 .. Len(b)
                                  /\ ~Takes(a, b, k, f[k - 1])
<1>1. /\ Len(a) \in Nat /\ Len(b) \in Nat
      /\ \A i \in 0 .. Len(a) + Len(b) : f[i] \in 0 .. Len(a) /\ i - f[i] \in 0 .. Len(b)
      /\ f[k] = IF Takes(a, b, k, f[k - 1]) THEN f[k - 1] + 1 ELSE f[k - 1]
  BY DEF Chosen
<1>2. k - 1 \in 0 .. Len(a) + Len(b) /\ k \in 0 .. Len(a) + Len(b)
  BY <1>1
<1>3. f[k - 1] \in 0 .. Len(a) /\ (k - 1) - f[k - 1] \in 0 .. Len(b)
      /\ f[k] \in 0 .. Len(a) /\ k - f[k] \in 0 .. Len(b)
  BY <1>1, <1>2
<1>4. CASE Takes(a, b, k, f[k - 1])
  <2>1. f[k] = f[k - 1] + 1
    BY <1>1, <1>4, Zenon
  <2> QED BY <1>2, <1>3, <1>4, <2>1
<1>5. CASE ~Takes(a, b, k, f[k - 1])
  <2>1. f[k] = f[k - 1]
    BY <1>1, <1>5, Zenon
  <2>2. k \in Int /\ f[k] \in Int /\ f[k - 1] \in Int
    BY <1>3
  <2>3. k - f[k] \in 1 .. Len(b)
    BY <1>1, <1>3, <2>1, <2>2
  <2> QED BY <1>2, <1>3, <1>5, <2>1, <2>2, <2>3
<1> QED BY <1>4, <1>5

Merged(a, b, f) ==
  [k \in 1 .. Len(a) + Len(b) |-> IF f[k] > f[k - 1] THEN a[f[k]] ELSE b[k - f[k]]]

LEMMA MergedShuffled ==
  ASSUME NEW a \in Seq(ListItems), NEW b \in Seq(ListItems), NEW f, Chosen(a, b, f)
  PROVE  Shuffled(ListItems, Merged(a, b, f), a \o b)
<1> DEFINE N == Len(a) + Len(b)
           m == Merged(a, b, f)
           t == a \o b
           p == [k \in 1 .. N |-> PlaceOf(a, f, k)]
<1>1. /\ Len(a) \in Nat /\ Len(b) \in Nat /\ N \in Nat
      /\ t \in Seq(ListItems) /\ Len(t) = N
      /\ \A k \in 1 .. Len(a) : k \in 1 .. N /\ t[k] = a[k]
      /\ \A k \in 1 .. Len(b) : Len(a) + k \in 1 .. N /\ t[Len(a) + k] = b[k]
  BY Joined
<1>2. /\ m = [k \in 1 .. N |-> m[k]]
      /\ \A k \in 1 .. N : m[k] = IF f[k] > f[k - 1] THEN a[f[k]] ELSE b[k - f[k]]
  BY DEF Merged
<1> HIDE DEF m, t
<1>3. ASSUME NEW k \in 1 .. N PROVE p[k] \in 1 .. N /\ m[k] = t[p[k]] /\ t[p[k]] \in ListItems
  <2>1. /\ f[k] > f[k - 1] => f[k] \in 1 .. Len(a)
        /\ ~(f[k] > f[k - 1]) => k - f[k] \in 1 .. Len(b)
    BY PlaceIs
  <2>2. p[k] = PlaceOf(a, f, k)
    OBVIOUS
  <2> HIDE DEF p
  <2>3. CASE f[k] > f[k - 1]
    <3>1. p[k] = f[k]
      BY <2>2, <2>3 DEF PlaceOf
    <3> HIDE DEF N
    <3>2. p[k] \in 1 .. N /\ m[k] = t[p[k]]
      BY <1>1, <1>2, <2>1, <2>3, <3>1
    <3> QED BY <1>1, <3>2, ElementOfSeq
  <2>4. CASE ~(f[k] > f[k - 1])
    <3>1. p[k] = Len(a) + (k - f[k])
      BY <2>2, <2>4 DEF PlaceOf
    <3> HIDE DEF N
    <3>2. p[k] \in 1 .. N /\ m[k] = t[p[k]]
      BY <1>1, <1>2, <2>1, <2>4, <3>1
    <3> QED BY <1>1, <3>2, ElementOfSeq
  <2> QED BY <2>3, <2>4
<1>4. ASSUME NEW k \in 1 .. N, NEW i \in 1 .. N, i < k PROVE p[i] # p[k]
  <2>1. /\ f[i - 1] \in 0 .. Len(a) /\ f[i] \in 0 .. Len(a)
        /\ f[i] > f[i - 1] => f[i] \in 1 .. Len(a)
        /\ ~(f[i] > f[i - 1]) => f[i] = f[i - 1] /\ i - f[i] \in 1 .. Len(b)
    BY PlaceIs
  <2>2. /\ f[k - 1] \in 0 .. Len(a) /\ f[k] \in 0 .. Len(a)
        /\ f[k] > f[k - 1] => f[k] \in 1 .. Len(a)
        /\ ~(f[k] > f[k - 1]) => f[k] = f[k - 1] /\ k - f[k] \in 1 .. Len(b)
    BY PlaceIs
  <2>3. f[i] <= f[k - 1] /\ i - f[i] <= (k - 1) - f[k - 1]
    <3>1. k - 1 \in 0 .. Len(a) + Len(b) /\ i \in 0 .. k - 1
      BY <1>1, <1>4
    <3> QED BY <3>1, ChosenRises
  <2>4. p[i] = PlaceOf(a, f, i) /\ p[k] = PlaceOf(a, f, k)
    OBVIOUS
  <2> HIDE DEF p, N
  <2>5. i \in Int /\ k \in Int
    BY <1>1
  <2>6. p[i] = (IF f[i] > f[i - 1] THEN f[i] ELSE Len(a) + (i - f[i]))
        /\ p[k] = (IF f[k] > f[k - 1] THEN f[k] ELSE Len(a) + (k - f[k]))
    BY <2>4 DEF PlaceOf
  <2>7. CASE f[i] > f[i - 1] /\ f[k] > f[k - 1]
    BY <1>1, <2>1, <2>2, <2>3, <2>6, <2>7
  <2>8. CASE f[i] > f[i - 1] /\ ~(f[k] > f[k - 1])
    BY <1>1, <2>1, <2>2, <2>5, <2>6, <2>8
  <2>9. CASE ~(f[i] > f[i - 1]) /\ f[k] > f[k - 1]
    BY <1>1, <2>1, <2>2, <2>5, <2>6, <2>9
  <2>10. CASE ~(f[i] > f[i - 1]) /\ ~(f[k] > f[k - 1])
    <3>1. f[k] = f[k - 1] /\ f[k] \in Int /\ f[i] \in Int /\ i - f[i] <= (k - 1) - f[k]
      BY <1>1, <2>1, <2>2, <2>3, <2>10
    <3>2. p[i] = Len(a) + (i - f[i]) /\ p[k] = Len(a) + (k - f[k])
      BY <2>6, <2>10
    <3>3. Len(a) \in Int /\ i \in Int /\ k \in Int
      BY <1>1, <2>5
    <3>4. i - f[i] < k - f[k]
      BY <3>1, <3>3
    <3> QED BY <3>1, <3>2, <3>3, <3>4
  <2> QED BY <2>7, <2>8, <2>9, <2>10
<1>5. p \in [1 .. N -> 1 .. N]
  <2>1. p = [k \in 1 .. N |-> p[k]]
    OBVIOUS
  <2> HIDE DEF p
  <2> QED BY <1>3, <2>1
<1> HIDE DEF p, N
<1>6. ASSUME NEW i \in 1 .. N, NEW k \in 1 .. N, p[i] = p[k] PROVE i = k
  BY <1>1, <1>4, <1>6
<1>7. m \in Seq(ListItems) /\ Len(m) = N
  <2>1. \A k \in 1 .. N : m[k] \in ListItems
    BY <1>3
  <2>2. N \in Nat /\ m = [k \in 1 .. N |-> m[k]]
    BY <1>1, <1>2
  <2> HIDE DEF m
  <2>3. [k \in 1 .. N |-> m[k]] \in Seq(ListItems) /\ Len([k \in 1 .. N |-> m[k]]) = N
    <3>1. \A k \in 1 .. N : m[k] \in ListItems
      BY <2>1, Zenon
    <3>2. N \in Nat
      BY <2>2
    <3> HIDE DEF N
    <3> QED BY <3>1, <3>2, IsASeq
  <2> QED BY <2>2, <2>3, Zenon
<1>8. ShuffledBy(m, t, p)
  BY <1>1, <1>3, <1>5, <1>6 DEF ShuffledBy, Injects
<1>9. Shuffled(ListItems, m, t)
  BY <1>1, <1>7, <1>8 DEF Shuffled
<1> QED BY <1>9 DEF m, t

LEMMA MergedRises ==
  ASSUME NEW a \in Seq(ListItems), NEW b \in Seq(ListItems), NEW f, Chosen(a, b, f),
         Ascends(a), Ascends(b)
  PROVE  Ascends(Merged(a, b, f))
<1> DEFINE N == Len(a) + Len(b)
           m == Merged(a, b, f)
           NotAbove(x, n, l) == /\ \A i \in n + 1 .. Len(a) : x <= a[i]
                                /\ \A i \in l + 1 .. Len(b) : x <= b[i]
           S == {k \in 0 .. N : \A j \in 1 .. k : NotAbove(m[j], f[k], k - f[k])}
<1>1. /\ Len(a) \in Nat /\ Len(b) \in Nat /\ N \in Nat
      /\ \A i \in 1 .. Len(a) : a[i] \in Int
      /\ \A i \in 1 .. Len(b) : b[i] \in Int
      /\ \A i, j \in 1 .. Len(a) : i <= j => a[i] <= a[j]
      /\ \A i, j \in 1 .. Len(b) : i <= j => b[i] <= b[j]
  <2>1. /\ \A i \in 1 .. Len(a) : a[i] \in Int
        /\ \A i \in 1 .. Len(b) : b[i] \in Int
    <3>1. /\ \A i \in 1 .. Len(a) : a[i] \in ListItems
          /\ \A i \in 1 .. Len(b) : b[i] \in ListItems
      BY ElementOfSeq
    <3> QED BY <3>1, LinkedListAssumption
  <2>2. \A i, j \in 1 .. Len(a) : i <= j => a[i] <= a[j]
    BY <2>1 DEF Ascends
  <2>3. \A i, j \in 1 .. Len(b) : i <= j => b[i] <= b[j]
    BY <2>1 DEF Ascends
  <2> QED BY <2>1, <2>2, <2>3
<1>2. \A k \in 1 .. N : m[k] = IF f[k] > f[k - 1] THEN a[f[k]] ELSE b[k - f[k]]
  BY DEF Merged
<1>10. Len(m) = N
  <2>1. Shuffled(ListItems, m, a \o b)
    BY MergedShuffled
  <2> HIDE DEF m
  <2> QED BY <1>1, <2>1, Joined DEF Shuffled
<1> HIDE DEF m
<1>3. 0 \in S
  BY <1>1
<1>4. ASSUME NEW d \in 0 .. N - 1, d \in S PROVE d + 1 \in S
  <2> DEFINE k == d + 1
             n == f[d]
  <2>1. k \in 1 .. N /\ k - 1 = d /\ k \in 0 .. N /\ d \in Nat
    BY <1>1
  <2>2. /\ n \in 0 .. Len(a)
        /\ f[k] > n => f[k] = n + 1 /\ n + 1 \in 1 .. Len(a) /\ Takes(a, b, k, n)
        /\ ~(f[k] > n) => f[k] = n /\ k - n \in 1 .. Len(b) /\ ~Takes(a, b, k, n)
    <3> HIDE DEF k
    <3>1. k \in 1 .. Len(a) + Len(b) /\ f[k - 1] = n
      BY <2>1
    <3>2. /\ f[k - 1] \in 0 .. Len(a)
          /\ f[k] > f[k - 1] => /\ f[k] = f[k - 1] + 1 /\ f[k] \in 1 .. Len(a)
                                /\ Takes(a, b, k, f[k - 1])
          /\ ~(f[k] > f[k - 1]) => /\ f[k] = f[k - 1] /\ k - f[k] \in 1 .. Len(b)
                                   /\ ~Takes(a, b, k, f[k - 1])
      BY <3>1, PlaceIs
    <3> HIDE DEF n
    <3> QED BY <3>1, <3>2
  <2>3. m[k] = IF f[k] > n THEN a[f[k]] ELSE b[k - f[k]]
    BY <1>2, <2>1
  <2>4. \A j \in 1 .. d : NotAbove(m[j], n, d - n)
    BY <1>4
  <2>5. \A j \in 1 .. k : j \in 1 .. d \/ j = k
    BY <2>1
  <2>6. (d - n) + 1 = k - n /\ k - (n + 1) = d - n /\ n \in Int /\ k \in Int
    <3>1. n \in Int /\ k \in Int /\ d \in Int /\ k = d + 1
      BY <2>1, <2>2
    <3> HIDE DEF n, k
    <3> QED BY <3>1
  <2> HIDE DEF n, k
  <2>7. CASE f[k] > n
    <3>1. f[k] = n + 1 /\ m[k] = a[n + 1] /\ n + 1 \in 1 .. Len(a)
          /\ (k - n > Len(b) \/ a[n + 1] < b[k - n])
      BY <2>2, <2>3, <2>7 DEF Takes
    <3>2. ASSUME NEW i \in n + 2 .. Len(a) PROVE a[n + 1] <= a[i]
      <4>1. i \in 1 .. Len(a) /\ n + 1 <= i
        BY <1>1, <2>6, <3>1
      <4> QED BY <1>1, <3>1, <4>1
    <3>3. ASSUME NEW i \in k - n .. Len(b) PROVE a[n + 1] <= b[i]
      <4>1. a[n + 1] < b[k - n] /\ k - n \in 1 .. Len(b) /\ i \in 1 .. Len(b) /\ k - n <= i
        <5>1. k - n >= 1
          <6>1. d - n \in 0 .. Len(b)
            <7>1. d \in 0 .. N
              BY <2>1, <1>1
            <7> QED BY <7>1 DEF Chosen, n
          <6> QED BY <1>1, <2>6, <6>1
        <5> QED BY <1>1, <2>6, <3>1, <5>1
      <4>2. b[k - n] <= b[i] /\ b[i] \in Int /\ b[k - n] \in Int /\ a[n + 1] \in Int
        BY <1>1, <3>1, <4>1
      <4> QED BY <4>1, <4>2
    <3>4. NotAbove(m[k], n + 1, d - n)
      <4>1. (n + 1) + 1 = n + 2
        BY <2>6
      <4> QED BY <2>6, <3>1, <3>2, <3>3, <4>1
    <3>5. ASSUME NEW j \in 1 .. d PROVE NotAbove(m[j], n + 1, d - n)
      <4>1. \A i \in (n + 1) + 1 .. Len(a) : i \in n + 1 .. Len(a)
        BY <1>1, <2>6
      <4> QED BY <2>4, <4>1
    <3>6. \A j \in 1 .. k : NotAbove(m[j], n + 1, d - n)
      <4> HIDE DEF NotAbove
      <4> QED BY <2>5, <3>4, <3>5
    <3>7. k - f[k] = d - n
      BY <2>6, <3>1
    <3>8. k \in S
      <4> HIDE DEF NotAbove
      <4> QED BY <2>1, <3>1, <3>6, <3>7
    <3> QED BY <3>8 DEF k
  <2>8. CASE ~(f[k] > n)
    <3>1. f[k] = n /\ m[k] = b[k - n] /\ k - n \in 1 .. Len(b)
          /\ (~(n < Len(a)) \/ ~(a[n + 1] < b[k - n]))
      <4>1. f[k] = n /\ m[k] = b[k - n] /\ k - n \in 1 .. Len(b) /\ ~Takes(a, b, k, n)
        BY <2>2, <2>3, <2>8
      <4> QED BY <4>1 DEF Takes
    <3>2. ASSUME NEW i \in (k - n) + 1 .. Len(b) PROVE b[k - n] <= b[i]
      <4>1. i \in 1 .. Len(b) /\ k - n <= i
        BY <1>1, <2>6, <3>1
      <4> QED BY <1>1, <3>1, <4>1
    <3>3. ASSUME NEW i \in n + 1 .. Len(a) PROVE b[k - n] <= a[i]
      <4>1. n + 1 \in 1 .. Len(a) /\ n < Len(a) /\ i \in 1 .. Len(a) /\ n + 1 <= i
        BY <1>1, <2>2, <2>6
      <4>2. a[n + 1] <= a[i] /\ a[i] \in Int /\ b[k - n] \in Int /\ a[n + 1] \in Int
        BY <1>1, <3>1, <4>1
      <4> QED BY <3>1, <4>1, <4>2
    <3>4. NotAbove(m[k], n, k - n)
      BY <3>1, <3>2, <3>3
    <3>5. ASSUME NEW j \in 1 .. d PROVE NotAbove(m[j], n, k - n)
      <4>1. \A i \in (k - n) + 1 .. Len(b) : i \in (d - n) + 1 .. Len(b)
        BY <1>1, <2>1, <2>6
      <4> QED BY <2>4, <4>1
    <3>6. \A j \in 1 .. k : NotAbove(m[j], n, k - n)
      <4> HIDE DEF NotAbove
      <4> QED BY <2>5, <3>4, <3>5
    <3>8. k \in S
      <4> HIDE DEF NotAbove
      <4> QED BY <2>1, <3>1, <3>6
    <3> QED BY <3>8 DEF k
  <2> QED BY <2>7, <2>8
<1>5. 0 .. N \subseteq S
  <2> HIDE DEF S, N
  <2> QED BY <1>1, <1>3, <1>4, UpToInSet
<1>6. ASSUME NEW i \in 1 .. N, NEW j \in 1 .. N, i < j PROVE m[i] <= m[j]
  <2>1. j - 1 \in 0 .. N /\ i \in 1 .. j - 1
    BY <1>1, <1>6
  <2>2. NotAbove(m[i], f[j - 1], (j - 1) - f[j - 1])
    BY <1>5, <2>1
  <2>3. /\ f[j - 1] \in 0 .. Len(a)
        /\ f[j] > f[j - 1] => f[j] = f[j - 1] + 1 /\ f[j] \in 1 .. Len(a)
        /\ ~(f[j] > f[j - 1]) => f[j] = f[j - 1] /\ j - f[j] \in 1 .. Len(b)
    BY PlaceIs
  <2>4. CASE f[j] > f[j - 1]
    <3>1. f[j] \in f[j - 1] + 1 .. Len(a) /\ m[j] = a[f[j]]
      BY <1>1, <1>2, <2>3, <2>4
    <3> QED BY <2>2, <3>1
  <2>5. CASE ~(f[j] > f[j - 1])
    <3>1. j - f[j] \in ((j - 1) - f[j - 1]) + 1 .. Len(b) /\ m[j] = b[j - f[j]]
      BY <1>1, <1>2, <2>3, <2>5
    <3> QED BY <2>2, <3>1
  <2> QED BY <2>4, <2>5
<1> QED BY <1>6, <1>10 DEF Ascends, m

LEMMA MergeSorts ==
  ASSUME NEW a \in Seq(ListItems), NEW b \in Seq(ListItems)
  PROVE  /\ Shuffled(ListItems, Merge(a, b), a \o b)
         /\ Ascends(a) /\ Ascends(b) => Ascends(Merge(a, b))
<1> DEFINE f == CHOOSE g : FirstOf(a, b, g)
<1>1. Merge(a, b) = Merged(a, b, f)
  BY DEF Merge, FirstOf, Merged
<1>2. FirstOf(a, b, f)
  BY FirstChosen
<1> HIDE DEF f
<1>3. Chosen(a, b, f)
  BY <1>2, ChosenBounds
<1>4. Shuffled(ListItems, Merged(a, b, f), a \o b)
  BY <1>3, MergedShuffled
<1>5. Ascends(a) /\ Ascends(b) => Ascends(Merged(a, b, f))
  BY <1>3, MergedRises
<1> QED BY <1>1, <1>4, <1>5

-----------------------------------------------------------------------------
\* The halves, and the recursion.
LowHalf(s) == HalfAdded(SubSeq(s, 1, Len(s) \div 2))
HighHalf(s) == HalfAdded(SubSeq(s, (Len(s) \div 2) + 1, Len(s)))
Sorts == [Seq(ListItems) -> Seq(ListItems)]
HalvesOf(h) ==
  h = [depth \in Nat |->
         [items \in Seq(ListItems) |->
            LET half == Len(items) \div 2
            IN  IF depth = 0 \/ Len(items) <= 1 THEN items
                ELSE Merge(h[depth - 1][HalfAdded(SubSeq(items, 1, half))],
                           h[depth - 1][HalfAdded(SubSeq(items, half + 1, Len(items)))])]]

LEMMA HalvesJoined ==
  ASSUME NEW s \in Seq(ListItems)
  PROVE  /\ LowHalf(s) \in Seq(ListItems) /\ HighHalf(s) \in Seq(ListItems)
         /\ Shuffled(ListItems, LowHalf(s) \o HighHalf(s), s)
         /\ Len(s) > 1 => Len(LowHalf(s)) < Len(s) /\ Len(HighHalf(s)) < Len(s)
         /\ Len(LowHalf(s)) \in Nat /\ Len(HighHalf(s)) \in Nat
<1> DEFINE half == Len(s) \div 2
           a == SubSeq(s, 1, half)
           b == SubSeq(s, half + 1, Len(s))
           t == a \o b
<1>1. Len(s) \in Nat /\ half \in 0 .. Len(s) /\ (Len(s) > 1 => half \in 1 .. Len(s) - 1)
  OBVIOUS
<1> HIDE DEF half
<1>2. a \in Seq(ListItems) /\ Len(a) = half /\ \A k \in 1 .. half : a[k] = s[k]
  <2>1. \A k \in 1 .. half : s[k] \in ListItems
    BY <1>1, ElementOfSeq
  <2> QED BY <1>1, <2>1, SubSeqProperties
<1>3. b \in Seq(ListItems) /\ Len(b) = Len(s) - half /\ \A k \in 1 .. Len(s) - half : b[k] = s[half + k]
  <2>1. \A k \in half + 1 .. Len(s) : s[k] \in ListItems
    BY <1>1, ElementOfSeq
  <2>2. /\ b \in Seq(ListItems) /\ Len(b) = IF half + 1 <= Len(s) THEN Len(s) - (half + 1) + 1 ELSE 0
        /\ \A k \in 1 .. Len(s) - (half + 1) + 1 : b[k] = s[half + 1 + k - 1]
    <3>1. half + 1 \in Int /\ Len(s) \in Int
      BY <1>1
    <3> DEFINE from == half + 1
    <3>2. \A k \in from .. Len(s) : s[k] \in ListItems
      BY <2>1
    <3>3. from \in Int
      BY <3>1
    <3> HIDE DEF from
    <3>4. /\ SubSeq(s, from, Len(s)) \in Seq(ListItems)
          /\ Len(SubSeq(s, from, Len(s))) = IF from <= Len(s) THEN Len(s) - from + 1 ELSE 0
          /\ \A k \in 1 .. Len(s) - from + 1 : SubSeq(s, from, Len(s))[k] = s[from + k - 1]
      BY <3>1, <3>2, <3>3, SubSeqProperties
    <3> QED BY <3>4 DEF from
  <2> HIDE DEF b
  <2>3. Len(s) - (half + 1) + 1 = Len(s) - half
    BY <1>1
  <2>4. \A k \in 1 .. Len(s) - half : half + 1 + k - 1 = half + k
    BY <1>1
  <2>5. Len(b) = Len(s) - half
    BY <1>1, <2>2
  <2> QED BY <2>2, <2>3, <2>4, <2>5
<1> HIDE DEF a, b
<1>4. /\ t \in Seq(ListItems) /\ Len(t) = Len(a) + Len(b)
      /\ \A k \in 1 .. Len(a) : t[k] = a[k]
      /\ \A k \in 1 .. Len(b) : t[Len(a) + k] = b[k]
  <2>1. a \in Seq(ListItems) /\ b \in Seq(ListItems)
    BY <1>2, <1>3
  <2> QED BY <2>1, Joined
<1> HIDE DEF t
<1>5. t = s
  <2>1. Len(t) = Len(s)
    BY <1>1, <1>2, <1>3, <1>4
  <2>2. ASSUME NEW k \in 1 .. Len(t) PROVE t[k] = s[k]
    <3>1. CASE k <= half
      <4>1. k \in 1 .. half
        BY <1>1, <3>1
      <4> QED BY <1>2, <1>4, <4>1
    <3>2. CASE ~(k <= half)
      <4>1. k - half \in 1 .. Len(s) - half /\ half + (k - half) = k
        BY <1>1, <2>1, <3>2
      <4>2. t[half + (k - half)] = b[k - half] /\ b[k - half] = s[half + (k - half)]
        BY <1>2, <1>3, <1>4, <4>1
      <4> QED BY <4>1, <4>2
    <3> QED BY <3>1, <3>2
  <2> QED BY <1>4, <2>1, <2>2, SeqEqual
<1>6. Shuffled(ListItems, HalfAdded(a), a) /\ Shuffled(ListItems, HalfAdded(b), b)
  BY <1>2, <1>3, HalfShuffled
<1>7. Shuffled(ListItems, HalfAdded(a) \o HalfAdded(b), s)
  BY <1>5, <1>6, ShuffledJoined DEF t
<1>8. LowHalf(s) = HalfAdded(a) /\ HighHalf(s) = HalfAdded(b)
  BY DEF LowHalf, HighHalf, a, b, half
<1>9. /\ HalfAdded(a) \in Seq(ListItems) /\ HalfAdded(b) \in Seq(ListItems)
      /\ Len(HalfAdded(a)) = half /\ Len(HalfAdded(b)) = Len(s) - half
  BY <1>2, <1>3, <1>6 DEF Shuffled
<1>10. half \in Nat /\ Len(s) - half \in Nat /\ (Len(s) > 1 => half < Len(s) /\ Len(s) - half < Len(s))
  BY <1>1
<1> QED BY <1>7, <1>8, <1>9, <1>10

LEMMA HalvedIs ==
  /\ \A s \in Seq(ListItems) : Halved[0][s] = s
  /\ \A n \in Nat : \A s \in Seq(ListItems) :
       Halved[n + 1][s] = IF Len(s) <= 1 THEN s
                          ELSE Merge(Halved[n][LowHalf(s)], Halved[n][HighHalf(s)])
<1> DEFINE Q == Seq(ListItems)
           same == [s \in Q |-> s]
           on(g) == [s \in Q |-> IF Len(s) <= 1 THEN s ELSE Merge(g[LowHalf(s)], g[HighHalf(s)])]
           F == [g \in Sorts |-> on(g)]
<1>1. ASSUME NEW g \in Sorts PROVE on(g) \in Sorts
  <2>1. ASSUME NEW s \in Q PROVE (IF Len(s) <= 1 THEN s ELSE Merge(g[LowHalf(s)], g[HighHalf(s)])) \in Q
    <3>1. LowHalf(s) \in Q /\ HighHalf(s) \in Q
      BY HalvesJoined
    <3>2. g[LowHalf(s)] \in Q /\ g[HighHalf(s)] \in Q
      BY <3>1 DEF Sorts
    <3>3. Merge(g[LowHalf(s)], g[HighHalf(s)]) \in Q
      <4>1. Shuffled(ListItems, Merge(g[LowHalf(s)], g[HighHalf(s)]), g[LowHalf(s)] \o g[HighHalf(s)])
        BY <3>2, MergeSorts
      <4> QED BY <4>1 DEF Shuffled
    <3> QED BY <3>3
  <2> HIDE DEF Q
  <2> QED BY <2>1 DEF Sorts, Q
<1>2. same \in Sorts /\ F \in [Sorts -> Sorts] /\ \A g \in Sorts : F[g] = on(g)
  <2>1. same \in Sorts
    BY DEF Sorts
  <2> HIDE DEF on
  <2> QED BY <1>1, <2>1
<1> HIDE DEF F
<1>3. PICK f \in [Nat -> Sorts] : f[0] = same /\ \A n \in Nat : f[n + 1] = F[f[n]]
  <2> HIDE DEF same
  <2>1. same \in Sorts /\ F \in [Sorts -> Sorts]
    BY <1>2
  <2>2. \E f \in [Nat -> Sorts] : f[0] = same /\ \A n \in Nat : f[n + 1] = F[f[n]]
    BY <2>1, Iterated
  <2> QED BY <2>2
<1> DEFINE body(h, depth) ==
             [items \in Q |->
                LET half == Len(items) \div 2
                IN  IF depth = 0 \/ Len(items) <= 1 THEN items
                    ELSE Merge(h[depth - 1][HalfAdded(SubSeq(items, 1, half))],
                               h[depth - 1][HalfAdded(SubSeq(items, half + 1, Len(items)))])]
<1>4. \A h : body(h, 0) = same
  OBVIOUS
<1>5. \A h : \A n \in Nat : body(h, n + 1) = on(h[n])
  <2> SUFFICES ASSUME NEW h, NEW n \in Nat PROVE body(h, n + 1) = on(h[n])
    OBVIOUS
  <2>1. (n + 1) - 1 = n /\ ~(n + 1 = 0)
    OBVIOUS
  <2> QED BY <2>1, Zenon DEF LowHalf, HighHalf
<1>6. ASSUME NEW depth \in Nat PROVE f[depth] = body(f, depth)
  <2> HIDE DEF body, on, same
  <2>1. CASE depth = 0
    BY <1>3, <1>4, <2>1
  <2>2. CASE depth # 0
    <3>1. depth - 1 \in Nat /\ (depth - 1) + 1 = depth
      BY <2>2
    <3>2. f[depth - 1] \in Sorts
      BY <1>3, <3>1
    <3>3. f[(depth - 1) + 1] = on(f[depth - 1])
      BY <1>2, <1>3, <3>1, <3>2
    <3>4. body(f, (depth - 1) + 1) = on(f[depth - 1])
      BY <1>5, <3>1
    <3> QED BY <3>1, <3>3, <3>4
  <2> QED BY <2>1, <2>2
<1>7. f = [depth \in Nat |-> body(f, depth)]
  <2> HIDE DEF body
  <2>1. f = [depth \in Nat |-> f[depth]]
    BY <1>3
  <2> QED BY <1>6, <2>1
<1>8. HalvesOf(f)
  BY <1>7, Zenon DEF HalvesOf
<1>9. HalvesOf(Halved)
  <2>1. Halved = CHOOSE h : HalvesOf(h)
    BY Zenon DEF Halved, HalvesOf
  <2> QED BY <1>8, <2>1
<1>10. Halved = [depth \in Nat |-> body(Halved, depth)]
  BY <1>9, Zenon DEF HalvesOf
<1> DEFINE h == Halved
<1> HIDE DEF h
<1>11. \A depth \in Nat : h[depth] = body(h, depth)
  <2>1. h = [depth \in Nat |-> body(h, depth)]
    BY <1>10 DEF h
  <2> DEFINE g == [depth \in Nat |-> body(h, depth)]
  <2>2. \A depth \in Nat : g[depth] = body(h, depth)
    <3> HIDE DEF body
    <3> QED OBVIOUS
  <2> HIDE DEF body
  <2> QED BY <2>1, <2>2
<1>12. h[0] = same /\ \A n \in Nat : h[n + 1] = on(h[n])
  <2> HIDE DEF body, same, on
  <2>1. \A n \in Nat : n + 1 \in Nat
    OBVIOUS
  <2> QED BY <1>4, <1>5, <1>11, <2>1
<1>13. \A s \in Q : h[0][s] = s
  BY <1>12
<1>14. ASSUME NEW n \in Nat, NEW s \in Q
       PROVE  h[n + 1][s] = IF Len(s) <= 1 THEN s ELSE Merge(h[n][LowHalf(s)], h[n][HighHalf(s)])
  <2>1. h[n + 1] = on(h[n])
    BY <1>12
  <2> DEFINE v == IF Len(s) <= 1 THEN s ELSE Merge(h[n][LowHalf(s)], h[n][HighHalf(s)])
  <2>2. on(h[n])[s] = v
    OBVIOUS
  <2> HIDE DEF on, v
  <2>3. h[n + 1][s] = v
    BY <2>1, <2>2
  <2> QED BY <2>3 DEF v
<1> QED BY <1>13, <1>14 DEF h

LEMMA MergesortSorts ==
  ASSUME NEW s \in Seq(ListItems)
  PROVE  Shuffled(ListItems, Mergesort(s), s) /\ Ascends(Mergesort(s))
<1> DEFINE S == {n \in Nat : \A t \in Seq(ListItems) :
                   Len(t) <= n + 1 => Shuffled(ListItems, Halved[n][t], t) /\ Ascends(Halved[n][t])}
<1>1. ASSUME NEW t \in Seq(ListItems), Len(t) <= 1 PROVE Shuffled(ListItems, t, t) /\ Ascends(t)
  <2>1. Ascends(t)
    <3>1. Len(t) \in Nat
      OBVIOUS
    <3> QED BY <1>1, <3>1 DEF Ascends
  <2> QED BY <2>1, ShuffledSame
<1>2. 0 \in S
  BY <1>1, HalvedIs
<1>3. ASSUME NEW n \in Nat, n \in S PROVE n + 1 \in S
  <2>1. ASSUME NEW t \in Seq(ListItems), Len(t) <= (n + 1) + 1
        PROVE  Shuffled(ListItems, Halved[n + 1][t], t) /\ Ascends(Halved[n + 1][t])
    <3>1. Halved[n + 1][t] = IF Len(t) <= 1 THEN t
                             ELSE Merge(Halved[n][LowHalf(t)], Halved[n][HighHalf(t)])
      BY HalvedIs
    <3>2. CASE Len(t) <= 1
      BY <1>1, <3>1, <3>2
    <3>3. CASE ~(Len(t) <= 1)
      <4> DEFINE a == LowHalf(t)
                 b == HighHalf(t)
                 u == Halved[n][a]
                 v == Halved[n][b]
      <4>1. /\ a \in Seq(ListItems) /\ b \in Seq(ListItems) /\ Shuffled(ListItems, a \o b, t)
            /\ Len(t) > 1 => Len(a) < Len(t) /\ Len(b) < Len(t)
            /\ Len(a) \in Nat /\ Len(b) \in Nat
        BY HalvesJoined
      <4>2. Len(a) <= n + 1 /\ Len(b) <= n + 1
        <5>1. Len(t) \in Nat
          OBVIOUS
        <5> HIDE DEF a, b
        <5> QED BY <2>1, <3>3, <4>1, <5>1
      <4>3. Shuffled(ListItems, u, a) /\ Ascends(u) /\ Shuffled(ListItems, v, b) /\ Ascends(v)
        <5> HIDE DEF a, b
        <5> QED BY <1>3, <4>1, <4>2
      <4>4. Halved[n + 1][t] = Merge(u, v)
        BY <3>1, <3>3
      <4> HIDE DEF a, b, u, v
      <4>5. u \in Seq(ListItems) /\ v \in Seq(ListItems) /\ Shuffled(ListItems, u \o v, a \o b)
        <5>1. Shuffled(ListItems, u \o v, a \o b)
          BY <4>3, ShuffledJoined
        <5> QED BY <4>3, <5>1 DEF Shuffled
      <4>6. Shuffled(ListItems, Merge(u, v), u \o v) /\ Ascends(Merge(u, v))
        BY <4>3, <4>5, MergeSorts
      <4>7. Shuffled(ListItems, Merge(u, v), t)
        BY <4>1, <4>5, <4>6, ShuffledTwice
      <4> QED BY <4>4, <4>6, <4>7
    <3> QED BY <3>2, <3>3
  <2> QED BY <2>1
<1>4. Nat \subseteq S
  <2> HIDE DEF S
  <2> QED BY <1>2, <1>3, NatInSet
<1>5. Len(s) \in Nat /\ Len(s) <= Len(s) + 1
  OBVIOUS
<1>6. Len(s) \in S
  <2> HIDE DEF S
  <2> QED BY <1>4, <1>5
<1> QED BY <1>5, <1>6 DEF Mergesort

\* The sorted list is the one in Ordered.
LEMMA MergesortIsOrdered ==
  ASSUME NEW w \in Seq(ListItems) PROVE Mergesort(w) = Ordered(w)
<1> DEFINE n == Len(w)
           good(p) == p \in Bijection(1 .. n, 1 .. n)
                      /\ \A i, j \in 1 .. n : i < j => w[p[i]] <= w[p[j]]
           p == CHOOSE p \in Bijection(DOMAIN w, DOMAIN w) :
                  \A i, j \in DOMAIN w : i < j => w[p[i]] <= w[p[j]]
           t == [k \in 1 .. n |-> w[p[k]]]
           s == Mergesort(w)
<1>1. n \in Nat /\ DOMAIN w = 1 .. n
  OBVIOUS
<1>2. Shuffled(ListItems, s, w) /\ Ascends(s)
  BY MergesortSorts
<1> HIDE DEF s
<1>3. PICK q : ShuffledBy(s, w, q)
  BY <1>2 DEF Shuffled
<1>4. Injects(q, n) /\ Len(s) = n /\ \A k \in 1 .. n : s[k] = w[q[k]]
  BY <1>2, <1>3 DEF ShuffledBy, Shuffled
<1>5. q \in Bijection(1 .. n, 1 .. n)
  BY <1>1, <1>4, InjectsOnto
<1>6. \A i, j \in 1 .. n : i < j => w[q[i]] <= w[q[j]]
  BY <1>2, <1>4 DEF Ascends
<1>7. p \in Bijection(1 .. n, 1 .. n) /\ \A i, j \in 1 .. n : i < j => w[p[i]] <= w[p[j]]
  <2>1. p = CHOOSE x \in Bijection(1 .. n, 1 .. n) : \A i, j \in 1 .. n : i < j => w[x[i]] <= w[x[j]]
    BY <1>1
  <2> HIDE DEF p, n
  <2> QED BY <1>5, <1>6, <2>1
<1>8. Ordered(w) = t
  BY <1>1 DEF Ordered
<1> HIDE DEF p, n
<1>9. Injects(p, n)
  BY <1>7 DEF Injects, Bijection, Injection, IsInjective
<1>10. p \in [1 .. n -> 1 .. n] /\ \A k \in 1 .. n : p[k] \in 1 .. n
  BY <1>9 DEF Injects
<1>11. \A k \in 1 .. n : t[k] = w[p[k]] /\ t[k] \in ListItems
  <2>1. \A k \in 1 .. n : w[p[k]] \in ListItems
    BY <1>10, ElementOfSeq DEF n
  <2> QED BY <2>1
<1>12. t \in Seq(ListItems) /\ Len(t) = n
  BY <1>1, <1>11, IsASeq
<1> HIDE DEF t
<1>13. ShuffledBy(t, w, p)
  BY <1>9, <1>11 DEF ShuffledBy, n
<1>14. Shuffled(ListItems, t, w)
  BY <1>12, <1>13 DEF Shuffled, n
<1>15. Ascends(t)
  BY <1>7, <1>11, <1>12 DEF Ascends
<1>16. s = t
  BY <1>2, <1>14, <1>15, SortedIsUnique
<1> QED BY <1>8, <1>16 DEF s

-----------------------------------------------------------------------------
(***************************************************************************)
(* The calls.                                                              *)
(***************************************************************************)
LEMMA TracedInv ==
  ASSUME NEW r, NEW q, NEW w, NEW c, Traces(r, q, w, c)
  PROVE  InvOf(r, w, c) /\ w # << >> /\ c \in 1 .. Len(w) /\ Len(q) = Len(w)
<1>1. /\ Sequenced(q, w) /\ Len(q) \in Nat \ {0} /\ Len(w) = Len(q) /\ c \in 1 .. Len(q)
      /\ w \in Seq(ListItems) /\ MaxNodes \in Nat
  BY TracesHave
<1>2. IsFiniteSet(NodesOf(q)) /\ Cardinality(NodesOf(q)) = Len(q) /\ NodesOf(q) \subseteq AllNodes
  BY <1>1, NodesCounted
<1>3. IsFiniteSet(AllNodes) /\ Cardinality(AllNodes) = MaxNodes
  <2>1. 1 \in Int /\ MaxNodes \in Int
    BY <1>1
  <2>2. /\ IsFiniteSet(1 .. MaxNodes)
        /\ Cardinality(1 .. MaxNodes) = IF 1 > MaxNodes THEN 0 ELSE MaxNodes - 1 + 1
    BY <2>1, FS_Interval
  <2>3. (IF 1 > MaxNodes THEN 0 ELSE MaxNodes - 1 + 1) = MaxNodes
    BY <1>1
  <2> QED BY <2>2, <2>3 DEF AllNodes
<1>4. Len(w) <= MaxNodes
  <2>1. Cardinality(NodesOf(q)) <= Cardinality(AllNodes)
    BY <1>2, <1>3, FS_Subset
  <2> QED BY <1>1, <1>2, <1>3, <2>1
<1>5. w # << >>
  BY <1>1, EmptySeq
<1> QED BY <1>1, <1>4, <1>5 DEF InvOf, RingHolds

LEMMA InvTraces ==
  ASSUME LinkedInv, wanted # << >>
  PROVE  \E q : /\ Traces(ring, q, wanted, cursor) /\ Len(q) = Len(wanted) /\ Len(q) \in Nat \ {0}
                /\ cursor \in 1 .. Len(q)
<1>1. PICK q : Traces(ring, q, wanted, cursor)
  BY DEF LinkedInv, InvOf, RingHolds
<1>2. Len(q) = Len(wanted) /\ Len(q) \in Nat \ {0} /\ cursor \in 1 .. Len(q)
  BY <1>1, TracesHave
<1> QED BY <1>1, <1>2

LEMMA LinkedStart == LinkedInit => LinkedInv
<1> SUFFICES ASSUME LinkedInit PROVE LinkedInv
  OBVIOUS
<1>1. wanted = << >> /\ ring = EmptyRing /\ cursor = 0
  BY DEF LinkedInit
<1>2. << >> \in Seq(ListItems) /\ Len(<< >>) <= MaxNodes
  BY LinkedListAssumption
<1> QED BY <1>1, <1>2 DEF LinkedInv, InvOf, RingHolds

LEMMA InsertKeeps ==
  ASSUME LinkedInv, NEW x \in ListItems, InsertItem(x) PROVE LinkedInv'
<1>1. CASE wanted = << >>
  <2>1. /\ ring = EmptyRing /\ wanted' = <<x>> /\ cursor' = 1 /\ ring' = InsertedNode(EmptyRing, x)
        /\ Len(wanted) + 1 <= MaxNodes
    BY <1>1 DEF InsertItem, Becomes, HasRoom, LinkedInv, InvOf, RingHolds
  <2>2. MaxNodes > 0
    <3>1. Len(wanted) = 0 /\ MaxNodes \in Nat
      BY <1>1, LinkedListAssumption
    <3> QED BY <2>1, <3>1
  <2>3. EmptyRing.root = NoNode
    BY DEF EmptyRing
  <2>4. \E q : Traces(InsertedNode(EmptyRing, x), q, <<x>>, 1)
    <3> DEFINE n == Fresh(EmptyRing)
               t == InsertedNode(EmptyRing, x)
    <3>1. t = [Linked(EmptyRing, n, n, n, x) EXCEPT !.root = n, !.position = n]
      BY <2>3 DEF InsertedNode
    <3> QED BY <2>2, <3>1, FirstTraced
  <2> QED BY <2>1, <2>4, TracedInv DEF LinkedInv
<1>2. CASE wanted # << >>
  <2>1. PICK q : Traces(ring, q, wanted, cursor) /\ Len(q) = Len(wanted) /\ Len(q) \in Nat \ {0}
    BY <1>2, InvTraces
  <2>2. /\ Len(wanted) + 1 <= MaxNodes /\ ring' = InsertedNode(ring, x)
        /\ wanted' = InsertAt(wanted, cursor, x) /\ cursor' = IF cursor = 1 THEN 1 ELSE cursor + 1
    BY <1>2 DEF InsertItem, Becomes, HasRoom
  <2>3. Len(q) < MaxNodes
    BY <2>1, <2>2, LinkedListAssumption
  <2>4. \E u : Traces(ring', u, wanted', cursor')
    BY <2>1, <2>2, <2>3, InsertedTraced
  <2> QED BY <2>4, TracedInv DEF LinkedInv
<1> QED BY <1>1, <1>2

LEMMA AddKeeps ==
  ASSUME LinkedInv, NEW x \in ListItems, AddItem(x) PROVE LinkedInv'
<1>1. CASE wanted = << >>
  <2>1. /\ ring = EmptyRing /\ wanted' = <<x>> /\ cursor' = 1 /\ ring' = AddedNode(EmptyRing, x)
        /\ Len(wanted) + 1 <= MaxNodes
    BY <1>1 DEF AddItem, Becomes, HasRoom, LinkedInv, InvOf, RingHolds
  <2>2. MaxNodes > 0
    <3>1. Len(wanted) = 0 /\ MaxNodes \in Nat
      BY <1>1, LinkedListAssumption
    <3> QED BY <2>1, <3>1
  <2>3. EmptyRing.root = NoNode
    BY DEF EmptyRing
  <2>4. \E q : Traces(AddedNode(EmptyRing, x), q, <<x>>, 1)
    <3> DEFINE n == Fresh(EmptyRing)
               t == AddedNode(EmptyRing, x)
    <3>1. t = [Linked(EmptyRing, n, n, n, x) EXCEPT !.root = n, !.position = n]
      BY <2>3 DEF AddedNode
    <3> QED BY <2>2, <3>1, FirstTraced
  <2> QED BY <2>1, <2>4, TracedInv DEF LinkedInv
<1>2. CASE wanted # << >>
  <2>1. PICK q : Traces(ring, q, wanted, cursor) /\ Len(q) = Len(wanted) /\ Len(q) \in Nat \ {0}
    BY <1>2, InvTraces
  <2>2. /\ Len(wanted) + 1 <= MaxNodes /\ ring' = AddedNode(ring, x)
        /\ wanted' = InsertAt(wanted, cursor + 1, x) /\ cursor' = cursor
    BY <1>2 DEF AddItem, Becomes, HasRoom
  <2>3. Len(q) < MaxNodes
    BY <2>1, <2>2, LinkedListAssumption
  <2>4. \E u : Traces(ring', u, wanted', cursor')
    BY <2>1, <2>2, <2>3, AddedTraced
  <2> QED BY <2>4, TracedInv DEF LinkedInv
<1> QED BY <1>1, <1>2

LEMMA ReplaceKeeps ==
  ASSUME LinkedInv, NEW x \in ListItems, ReplaceItem(x) PROVE LinkedInv'
<1>1. /\ wanted # << >> /\ ring' = [ring EXCEPT !.item[ring.position] = x]
      /\ wanted' = [wanted EXCEPT ![cursor] = x] /\ cursor' = cursor
  BY DEF ReplaceItem, Becomes
<1>2. PICK q : Traces(ring, q, wanted, cursor)
  BY <1>1, InvTraces
<1>3. Traces(ring', q, wanted', cursor')
  BY <1>1, <1>2, ReplacedTraced
<1> QED BY <1>3, TracedInv DEF LinkedInv

LEMMA DelKeeps == ASSUME LinkedInv, DelItem PROVE LinkedInv'
<1>1. /\ wanted # << >> /\ ring' = DeletedNode(ring) /\ wanted' = RemoveAt(wanted, cursor)
      /\ cursor' = IF Len(wanted) = 1 THEN 0 ELSE IF cursor = Len(wanted) THEN 1 ELSE cursor
  BY DEF DelItem, Becomes
<1>2. PICK q : /\ Traces(ring, q, wanted, cursor) /\ Len(q) = Len(wanted) /\ Len(q) \in Nat \ {0}
               /\ cursor \in 1 .. Len(q)
  BY <1>1, InvTraces
<1>3. CASE Len(q) = 1
  <2>1. ring' = EmptyRing /\ cursor' = 0 /\ cursor = 1
    BY <1>1, <1>2, <1>3, LastDeleted
  <2>2. wanted' = << >>
    <3>1. wanted \in Seq(ListItems) /\ 0 \in 0 .. Len(wanted) - 1 /\ 0 + 1 = cursor
      BY <1>2, <1>3, <2>1 DEF LinkedInv, InvOf
    <3>2. IsTaken(ListItems, RemoveAt(wanted, 0 + 1), wanted, 0)
      BY <3>1, RemovedIsTaken
    <3> DEFINE v == RemoveAt(wanted, 0 + 1)
    <3>3. wanted' = v
      BY <1>1, <3>1
    <3> HIDE DEF v
    <3>4. wanted' \in Seq(ListItems) /\ Len(wanted') = 0
      <4>1. v \in Seq(ListItems) /\ Len(v) = Len(wanted) - 1
        <5>1. IsTaken(ListItems, v, wanted, 0)
          BY <3>2 DEF v
        <5> QED BY <5>1 DEF IsTaken
      <4>2. Len(v) = 0
        <5>1. Len(wanted) = 1
          BY <1>2, <1>3
        <5> QED BY <4>1, <5>1
      <4> QED BY <3>3, <4>1, <4>2
    <3> QED BY <3>4, EmptySeq
  <2>3. << >> \in Seq(ListItems) /\ Len(<< >>) <= MaxNodes
    BY LinkedListAssumption
  <2> QED BY <2>1, <2>2, <2>3 DEF LinkedInv, InvOf, RingHolds
<1>4. CASE Len(q) # 1
  <2>1. Len(q) > 1
    BY <1>2, <1>4
  <2>2. \E u : Traces(ring', u, wanted', cursor')
    BY <1>1, <1>2, <1>4, <2>1, DeletedTraced
  <2> QED BY <2>2, TracedInv DEF LinkedInv
<1> QED BY <1>3, <1>4

LEMMA FoundThere ==
  ASSUME NEW w \in Seq(ListItems), NEW x \in ToSet(w)
  PROVE  SelectInSeq(w, LAMBDA y : y = x) \in 1 .. Len(w)
<1> DEFINE I == {i \in 1 .. Len(w) : w[i] = x}
           p == SelectInSeq(w, LAMBDA y : y = x)
<1>1. p = IF I # {} THEN Min(I) ELSE 0
  BY DEF SelectInSeq
<1>2. I # {}
  BY DEF ToSet
<1>3. I \in SUBSET Nat /\ I \subseteq 1 .. Len(w)
  OBVIOUS
<1> HIDE DEF I
<1>4. \E n \in I : \A m \in I : n <= m
  BY <1>2, <1>3, LeastNatural
<1>5. Min(I) \in I
  BY <1>4 DEF Min
<1> QED BY <1>1, <1>2, <1>3, <1>5

LEMMA FindKeeps == ASSUME LinkedInv, NEW x, FindItem(x) PROVE LinkedInv'
<1> DEFINE place(s) == SelectInSeq(s, LAMBDA y : y = x)
<1>1. /\ x \in ToSet(wanted) /\ wanted' = wanted /\ cursor' = place(wanted)
      /\ ring' = [ring EXCEPT !.position = NodeAt(ring, place(FromRoot(ring)))]
  BY DEF FindItem, Becomes
<1>2. wanted \in Seq(ListItems)
  BY DEF LinkedInv, InvOf
<1>3. place(wanted) \in 1 .. Len(wanted)
  BY <1>1, <1>2, FoundThere
<1>4. wanted # << >>
  <2>1. Len(wanted) # 0
    BY <1>2, <1>3
  <2> QED BY <1>2, <2>1
<1>5. PICK q : Traces(ring, q, wanted, cursor) /\ Len(q) = Len(wanted)
  BY <1>4, InvTraces
<1>6. FromRoot(ring) = wanted
  BY <1>5, RingShows
<1> DEFINE d == place(wanted)
<1>7. d \in 1 .. Len(q) /\ cursor' = d /\ ring' = [ring EXCEPT !.position = NodeAt(ring, d)]
  BY <1>1, <1>3, <1>5, <1>6
<1> HIDE DEF d
<1>8. NodeAt(ring, d) = q[d]
  BY <1>5, <1>7, NodeAtIs
<1>9. Traces(ring', q, wanted', cursor')
  BY <1>1, <1>5, <1>7, <1>8, MovedTraced
<1> QED BY <1>9, TracedInv DEF LinkedInv

LEMMA MoveKeeps ==
  ASSUME LinkedInv, StepOn \/ StepBack \/ Beginning \/ End PROVE LinkedInv'
<1>1. wanted # << >> /\ wanted' = wanted
  BY DEF StepOn, StepBack, Beginning, End, Becomes
<1>2. PICK q : /\ Traces(ring, q, wanted, cursor) /\ Len(q) = Len(wanted) /\ Len(q) \in Nat \ {0}
               /\ cursor \in 1 .. Len(q)
  BY <1>1, InvTraces
<1> DEFINE l == Len(q)
<1>3. /\ ring.root = q[1] /\ ring.position = q[cursor] /\ HasFields(ring)
      /\ ring.next[q[cursor]] = q[After(cursor, l)] /\ ring.previous[q[cursor]] = q[Before(cursor, l)]
      /\ 1 \in 1 .. l /\ ring.previous[q[1]] = q[Before(1, l)]
  BY <1>2, TracesHave
<1>4. /\ After(cursor, l) \in 1 .. l /\ Before(cursor, l) \in 1 .. l /\ Before(1, l) = l /\ l \in 1 .. l
  BY <1>2 DEF After, Before
<1>5. \A n : ring' = [ring EXCEPT !.position = n] /\ (\E d \in 1 .. l : n = q[d] /\ cursor' = d) => LinkedInv'
  <2> SUFFICES ASSUME NEW d \in 1 .. l, ring' = [ring EXCEPT !.position = q[d]], cursor' = d
               PROVE  LinkedInv'
    BY Zenon
  <2>1. Traces(ring', q, wanted', cursor')
    BY <1>1, <1>2, MovedTraced
  <2> QED BY <2>1, TracedInv DEF LinkedInv
<1>6. CASE StepOn
  <2>1. cursor' = After(cursor, l) /\ ring' = [ring EXCEPT !.position = ring.next[@]]
    BY <1>2, <1>6 DEF StepOn, Becomes, After
  <2>2. ring' = [ring EXCEPT !.position = q[After(cursor, l)]]
    BY <1>3, <2>1 DEF HasFields
  <2> QED BY <1>4, <1>5, <2>1, <2>2
<1>7. CASE StepBack
  <2>1. cursor' = Before(cursor, l) /\ ring' = [ring EXCEPT !.position = ring.previous[@]]
    BY <1>2, <1>7 DEF StepBack, Becomes, Before
  <2>2. ring' = [ring EXCEPT !.position = q[Before(cursor, l)]]
    BY <1>3, <2>1 DEF HasFields
  <2> QED BY <1>4, <1>5, <2>1, <2>2
<1>8. CASE Beginning
  <2>1. cursor' = 1 /\ ring' = [ring EXCEPT !.position = q[1]]
    BY <1>3, <1>8 DEF Beginning, Becomes
  <2> QED BY <1>3, <1>5, <2>1
<1>9. CASE End
  <2>1. cursor' = l /\ ring' = [ring EXCEPT !.position = q[l]]
    BY <1>2, <1>3, <1>4, <1>9 DEF End, Becomes
  <2> QED BY <1>4, <1>5, <2>1
<1> QED BY <1>6, <1>7, <1>8, <1>9

LEMMA ClearKeeps == ASSUME LinkedInv, ClearItems PROVE LinkedInv'
<1>1. ring' = EmptyRing /\ wanted' = << >> /\ cursor' = 0
  BY DEF ClearItems, Becomes
<1>2. << >> \in Seq(ListItems) /\ Len(<< >>) <= MaxNodes
  BY LinkedListAssumption
<1> QED BY <1>1, <1>2 DEF LinkedInv, InvOf, RingHolds

LEMMA CopyKeeps == ASSUME LinkedInv, CopyItems PROVE LinkedInv'
<1>1. wanted # << >> /\ wanted' = wanted /\ cursor' = cursor
  BY DEF CopyItems, Becomes
<1>2. PICK place \in 1 .. Len(wanted) :
        NodeAt(ring, place) = ring.position /\ ring' = BuiltList(FromRoot(ring), place)
  BY DEF CopyItems
<1>3. PICK q : /\ Traces(ring, q, wanted, cursor) /\ Len(q) = Len(wanted) /\ Len(q) \in Nat \ {0}
               /\ cursor \in 1 .. Len(q)
  BY <1>1, InvTraces
<1>4. FromRoot(ring) = wanted
  BY <1>3, RingShows
<1>5. NodeAt(ring, place) = q[place]
  BY <1>2, <1>3, NodeAtIs
<1>6. ring.position = q[cursor] /\ \A i, j \in 1 .. Len(q) : q[i] = q[j] => i = j
  BY <1>3, TracesHave
<1>7. place = cursor
  BY <1>2, <1>3, <1>5, <1>6
<1>8. wanted \in Seq(ListItems) /\ Len(wanted) <= MaxNodes
  BY DEF LinkedInv, InvOf
<1>9. \E u : Traces(BuiltList(wanted, place), u, wanted, place)
  BY <1>1, <1>8, BuiltTraced
<1> QED BY <1>1, <1>2, <1>4, <1>7, <1>9, TracedInv DEF LinkedInv

LEMMA ConcatenateKeeps ==
  ASSUME LinkedInv, NEW other \in Others, Concatenate(other), wanted # << >> PROVE LinkedInv'
<1> DEFINE all == wanted \o other
<1>1. /\ other # << >> /\ Len(wanted) + Len(other) <= MaxNodes
      /\ ring' = Concatenated(ring, other) /\ wanted' = all /\ cursor' = Len(all)
  BY DEF Concatenate, HasRoom
<1>2. other \in Seq(ListItems) /\ wanted \in Seq(ListItems) /\ RingHolds(ring, wanted, cursor)
  BY LinkedListAssumption DEF LinkedInv, InvOf
<1>3. \E u : Traces(Concatenated(ring, other), u, all, Len(all))
  BY <1>1, <1>2, ConcatenatedTraced
<1> HIDE DEF all
<1> QED BY <1>1, <1>3, TracedInv DEF LinkedInv

LEMMA SortKeeps == ASSUME LinkedInv, SortItems PROVE LinkedInv'
<1> DEFINE t == Mergesort(wanted)
<1>1. /\ Len(wanted) > 1 /\ ring' = BuiltList(Mergesort(FromRoot(ring)), 1)
      /\ wanted' = Ordered(wanted) /\ cursor' = 1
  BY DEF SortItems, Becomes
<1>2. wanted \in Seq(ListItems) /\ Len(wanted) <= MaxNodes /\ Len(wanted) \in Nat
  BY DEF LinkedInv, InvOf
<1>3. wanted # << >>
  <2>1. Len(wanted) # 0
    BY <1>1, <1>2
  <2> QED BY <2>1
<1>4. FromRoot(ring) = wanted
  BY <1>3, InvTraces, RingShows
<1>5. Shuffled(ListItems, t, wanted) /\ t = Ordered(wanted)
  BY <1>2, MergesortSorts, MergesortIsOrdered
<1> HIDE DEF t
<1>6. t \in Seq(ListItems) /\ Len(t) = Len(wanted)
  BY <1>5 DEF Shuffled
<1>7. t # << >> /\ 1 \in 1 .. Len(t) /\ Len(t) <= MaxNodes
  <2>1. Len(t) # 0 /\ 1 \in 1 .. Len(t) /\ Len(t) <= MaxNodes
    BY <1>1, <1>2, <1>6
  <2> QED BY <2>1
<1>8. \E u : Traces(BuiltList(t, 1), u, t, 1)
  BY <1>6, <1>7, BuiltTraced
<1>9. ring' = BuiltList(t, 1) /\ wanted' = t
  BY <1>1, <1>4, <1>5 DEF t
<1> QED BY <1>1, <1>8, <1>9, TracedInv DEF LinkedInv

\* Until an empty list is concatenated, the ring is the caller's list.
UndoubledInv == ~doubled => LinkedInv

LEMMA LinkedSteps == ASSUME UndoubledInv, [LinkedNext]_linkedVars PROVE UndoubledInv'
<1>1. CASE UNCHANGED linkedVars
  BY <1>1 DEF linkedVars, UndoubledInv, LinkedInv
<1> SUFFICES ASSUME LinkedInv, LinkedStep PROVE UndoubledInv'
  BY <1>1 DEF LinkedNext, UndoubledInv
<1>2. CASE \E x \in ListItems : InsertItem(x) \/ AddItem(x) \/ ReplaceItem(x) \/ FindItem(x)
  BY <1>2, InsertKeeps, AddKeeps, ReplaceKeeps, FindKeeps DEF UndoubledInv
<1>3. CASE \E other \in Others : Concatenate(other)
  <2>1. PICK other \in Others : Concatenate(other)
    BY <1>3
  <2>2. CASE wanted = << >>
    <3>1. doubled' = (wanted = << >>)
      BY <2>1 DEF Concatenate
    <3> QED BY <2>2, <3>1 DEF UndoubledInv
  <2>3. CASE wanted # << >>
    BY <2>1, <2>3, ConcatenateKeeps DEF UndoubledInv
  <2> QED BY <2>2, <2>3
<1>4. CASE DelItem
  BY <1>4, DelKeeps DEF UndoubledInv
<1>5. CASE StepOn \/ StepBack \/ Beginning \/ End
  BY <1>5, MoveKeeps DEF UndoubledInv
<1>6. CASE ClearItems \/ CopyItems \/ SortItems
  BY <1>6, ClearKeeps, CopyKeeps, SortKeeps DEF UndoubledInv
<1> QED BY <1>2, <1>3, <1>4, <1>5, <1>6 DEF LinkedStep

LEMMA LinkedShows == UndoubledInv => RingIsTheList
<1> SUFFICES ASSUME LinkedInv PROVE RingIsTheList
  BY DEF UndoubledInv, RingIsTheList
<1>1. CASE wanted = << >>
  <2>1. RingNodes(ring) = {}
    BY <1>1 DEF LinkedInv, InvOf, RingHolds, EmptyRing, RingNodes
  <2>2. Cardinality(RingNodes(ring)) = 0 /\ Len(wanted) = 0
    BY <1>1, <2>1, FS_EmptySet
  <2> QED BY <1>1, <2>2 DEF RingIsTheList
<1>2. CASE wanted # << >>
  <2>1. PICK q : Traces(ring, q, wanted, cursor)
    BY <1>2, InvTraces
  <2> QED BY <2>1, RingShows DEF RingIsTheList
<1> QED BY <1>1, <1>2

\* Whatever the calls of Insert, Add, Replace, Del, Find, the steps, Concatenate, the copy
\* and Sort, and until Concatenate is called of an empty list, a CircularLinkedList or
\* LinkedList is the caller's list, to which Concatenate appends the other, in both
\* directions, without nodes outside of it, and its position is the current element.
THEOREM RingCorrect == LinkedSpec => []RingIsTheList
<1>1. LinkedInit => UndoubledInv
  BY LinkedStart DEF UndoubledInv
<1> QED BY <1>1, LinkedSteps, LinkedShows, PTL DEF LinkedSpec
===============================================================================
