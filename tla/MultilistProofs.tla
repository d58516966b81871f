-------------------------- MODULE MultilistProofs ---------------------------
(***************************************************************************)
(* Proofs about Multilist, for arrays and lists of any size.  The cells    *)
(* hold the caller's list, a queue's round its ring, and are in order when *)
(* the list says so.  The quick sort's calls leave ranges of which no cut  *)
(* between two has a cell too great before it; the comparison of two lists *)
(* has counted what it has gone past.                                      *)
(***************************************************************************)
EXTENDS Multilist, Induction

(***************************************************************************)
(* The order of a list is that of all its pairs, and a list that is in     *)
(* order is the only one with its items.                                   *)
(***************************************************************************)
Sorts(s, asc) == \A i, j \in 1 .. Len(s) : i < j => Ascending(s[i], s[j], asc)

LEMMA AscendingOrders ==
  ASSUME NEW a \in Int, NEW b \in Int, NEW c \in Int, NEW asc \in BOOLEAN
  PROVE  /\ Ascending(a, b, asc) /\ Ascending(b, c, asc) => Ascending(a, c, asc)
         /\ Ascending(a, b, asc) \/ Ascending(b, a, asc)
         /\ Ascending(a, a, asc)
         /\ Ascending(a, b, asc) /\ Ascending(b, a, asc) => a = b
  BY DEF Ascending

LEMMA InOrderSorts ==
  ASSUME NEW s \in Seq(Int), NEW asc \in BOOLEAN
  PROVE  InOrder(s, asc) <=> Sorts(s, asc)
<1>0. Len(s) \in Nat /\ \A k \in 1 .. Len(s) : s[k] \in Int
  BY ElementOfSeq
<1>1. ASSUME Sorts(s, asc) PROVE InOrder(s, asc)
  <2>1. \A i \in 1 .. Len(s) - 1 : i \in 1 .. Len(s) /\ i + 1 \in 1 .. Len(s) /\ i < i + 1
    BY <1>0
  <2> QED BY <1>1, <2>1 DEF InOrder, Sorts
<1>2. ASSUME InOrder(s, asc) PROVE Sorts(s, asc)
  <2> DEFINE A == {d \in Nat : \A i, j \in 1 .. Len(s) : j = i + d => Ascending(s[i], s[j], asc)}
  <2>1. 0 \in A
    <3>1. \A i, j \in 1 .. Len(s) : j = i + 0 => i = j
      BY <1>0
    <3>2. \A i \in 1 .. Len(s) : Ascending(s[i], s[i], asc)
      BY <1>0, AscendingOrders
    <3> QED BY <3>1, <3>2
  <2>2. ASSUME NEW d \in Nat, d \in A PROVE d + 1 \in A
    <3> SUFFICES ASSUME NEW i \in 1 .. Len(s), NEW j \in 1 .. Len(s), j = i + (d + 1)
                 PROVE  Ascending(s[i], s[j], asc)
      BY <2>2
    <3>1. j - 1 \in 1 .. Len(s) - 1 /\ j - 1 \in 1 .. Len(s) /\ j - 1 = i + d /\ (j - 1) + 1 = j
      BY <1>0
    <3>2. Ascending(s[i], s[j - 1], asc)
      BY <2>2, <3>1
    <3>3. Ascending(s[j - 1], s[j], asc)
      <4>1. Ascending(s[j - 1], s[(j - 1) + 1], asc)
        BY <1>2, <3>1 DEF InOrder
      <4> QED BY <3>1, <4>1
    <3>4. s[i] \in Int /\ s[j] \in Int /\ s[j - 1] \in Int
      BY <1>0, <3>1
    <3> QED BY <3>2, <3>3, <3>4, AscendingOrders
  <2>3. Nat \subseteq A
    <3> HIDE DEF A
    <3> QED BY <2>1, <2>2, NatInSet
  <2>4. ASSUME NEW i \in 1 .. Len(s), NEW j \in 1 .. Len(s), i < j PROVE Ascending(s[i], s[j], asc)
    <3>1. j - i \in Nat /\ j = i + (j - i)
      BY <1>0, <2>4
    <3> QED BY <2>3, <3>1
  <2> QED BY <2>4 DEF Sorts
<1> QED BY <1>1, <1>2

LEMMA SortsUnique ==
  ASSUME NEW s, NEW t, NEW u, NEW asc \in BOOLEAN,
         Shuffled(Int, s, u), Shuffled(Int, t, u), Sorts(s, asc), Sorts(t, asc)
  PROVE  s = t
<1>1. CASE asc
  <2>1. Ascends(s) /\ Ascends(t)
    BY <1>1 DEF Ascends, Sorts, Ascending
  <2> QED BY <2>1, SortedIsUnique
<1>2. CASE ~asc
  <2> DEFINE n == Len(u)
             ns == [k \in 1 .. n |-> 0 - s[k]]
             nt == [k \in 1 .. n |-> 0 - t[k]]
             nu == [k \in 1 .. n |-> 0 - u[k]]
  <2>1. n \in Nat /\ Len(s) = n /\ Len(t) = n /\ s \in Seq(Int) /\ t \in Seq(Int) /\ u \in Seq(Int)
    BY DEF Shuffled
  <2>2. \A k \in 1 .. n : s[k] \in Int /\ t[k] \in Int /\ u[k] \in Int
    BY <2>1, ElementOfSeq
  <2>3. PICK p : ShuffledBy(s, u, p)
    BY DEF Shuffled
  <2>4. PICK q : ShuffledBy(t, u, q)
    BY DEF Shuffled
  <2> HIDE DEF n
  <2>5. /\ ns \in Seq(Int) /\ Len(ns) = n /\ nt \in Seq(Int) /\ Len(nt) = n
        /\ nu \in Seq(Int) /\ Len(nu) = n
    <3>1. \A k \in 1 .. n : 0 - s[k] \in Int /\ 0 - t[k] \in Int /\ 0 - u[k] \in Int
      BY <2>2
    <3> QED BY <2>1, <3>1, IsASeq
  <2>6. \A k \in 1 .. n : ns[k] = 0 - s[k] /\ nt[k] = 0 - t[k] /\ nu[k] = 0 - u[k]
    OBVIOUS
  <2> HIDE DEF ns, nt, nu
  <2>7. /\ Injects(p, n) /\ \A k \in 1 .. n : p[k] \in 1 .. n /\ s[k] = u[p[k]]
        /\ Injects(q, n) /\ \A k \in 1 .. n : q[k] \in 1 .. n /\ t[k] = u[q[k]]
    BY <2>3, <2>4 DEF ShuffledBy, Injects, n
  <2>8. \A k \in 1 .. n : ns[k] = nu[p[k]] /\ nt[k] = nu[q[k]]
    BY <2>6, <2>7
  <2>9. Shuffled(Int, ns, nu) /\ Shuffled(Int, nt, nu)
    BY <2>5, <2>7, <2>8 DEF Shuffled, ShuffledBy
  <2>10. Ascends(ns) /\ Ascends(nt)
    <3>1. ASSUME NEW i \in 1 .. n, NEW j \in 1 .. n, i < j PROVE ns[i] <= ns[j] /\ nt[i] <= nt[j]
      <4>1. s[i] >= s[j] /\ t[i] >= t[j]
        BY <1>2, <2>1, <3>1 DEF Sorts, Ascending
      <4> QED BY <2>2, <2>6, <4>1
    <3> QED BY <2>5, <3>1 DEF Ascends
  <2>11. ns = nt
    BY <2>9, <2>10, SortedIsUnique
  <2>12. ASSUME NEW k \in 1 .. n PROVE s[k] = t[k]
    <3>1. 0 - s[k] = 0 - t[k]
      BY <2>6, <2>11
    <3> QED BY <2>2, <3>1
  <2> QED BY <2>1, <2>12, SeqEqual
<1> QED BY <1>1, <1>2

LEMMA SortedIs ==
  ASSUME NEW s, NEW t, NEW asc \in BOOLEAN, Shuffled(Int, s, t), Sorts(s, asc)
  PROVE  Sorted(t, asc) = s
<1> DEFINE n == Len(t)
           p == CHOOSE p \in Bijection(DOMAIN t, DOMAIN t) :
                  \A i, j \in DOMAIN t : i < j => Ascending(t[p[i]], t[p[j]], asc)
           u == [k \in 1 .. n |-> t[p[k]]]
<1>1. n \in Nat /\ DOMAIN t = 1 .. n /\ s \in Seq(Int) /\ t \in Seq(Int) /\ Len(s) = n
  BY DEF Shuffled
<1>3. PICK q : ShuffledBy(s, t, q)
  BY DEF Shuffled
<1>4. Injects(q, n) /\ \A k \in 1 .. n : s[k] = t[q[k]]
  BY <1>3 DEF ShuffledBy
<1>5. q \in Bijection(1 .. n, 1 .. n)
  BY <1>1, <1>4, InjectsOnto
<1>6. \A i, j \in 1 .. n : i < j => Ascending(t[q[i]], t[q[j]], asc)
  BY <1>1, <1>4 DEF Sorts
<1>7. p \in Bijection(1 .. n, 1 .. n) /\ \A i, j \in 1 .. n : i < j => Ascending(t[p[i]], t[p[j]], asc)
  <2>1. p = CHOOSE x \in Bijection(1 .. n, 1 .. n) :
              \A i, j \in 1 .. n : i < j => Ascending(t[x[i]], t[x[j]], asc)
    BY <1>1
  <2> HIDE DEF p, n
  <2> QED BY <1>5, <1>6, <2>1
<1>8. Sorted(t, asc) = u
  BY <1>1 DEF Sorted
<1> HIDE DEF p, n
<1>9. Injects(p, n)
  BY <1>7 DEF Injects, Bijection, Injection, IsInjective
<1>10. p \in [1 .. n -> 1 .. n] /\ \A k \in 1 .. n : p[k] \in 1 .. n
  BY <1>9 DEF Injects
<1>11. \A k \in 1 .. n : u[k] = t[p[k]] /\ u[k] \in Int
  <2>1. \A k \in 1 .. n : t[p[k]] \in Int
    BY <1>1, <1>10, ElementOfSeq DEF n
  <2> QED BY <2>1
<1>12. u \in Seq(Int) /\ Len(u) = n
  BY <1>1, <1>11, IsASeq
<1> HIDE DEF u
<1>13. ShuffledBy(u, t, p)
  BY <1>9, <1>11 DEF ShuffledBy, n
<1>14. Shuffled(Int, u, t)
  BY <1>1, <1>12, <1>13 DEF Shuffled, n
<1>15. Sorts(u, asc)
  BY <1>7, <1>11, <1>12 DEF Sorts
<1>16. s = u
  BY <1>14, <1>15, SortsUnique
<1> QED BY <1>8, <1>16

-----------------------------------------------------------------------------
(***************************************************************************)
(* The array.  Good(m, list): m is a multilist that holds the list.        *)
(***************************************************************************)
Multilists == [data : Seq(Int), dataSize : Nat, queueHead : Nat, queueTail : Nat,
               preallocationSize : Nat, sorted : BOOLEAN, ascending : BOOLEAN, type : Types]
\* n items fit in, and a queue's head is a cell of the array.
Fits(m, n) == n <= Len(m.data) /\ (IsQueue(m) /\ n > 0 => m.queueHead < Len(m.data))
TailRight(m) ==
  IsQueue(m) => IF m.dataSize = 0 THEN m.queueTail = m.queueHead
                ELSE m.queueTail \in {m.queueHead + m.dataSize,
                                      (m.queueHead + m.dataSize) - Len(m.data)}
Holds(m, list) == /\ m \in Multilists /\ Fits(m, m.dataSize)
                  /\ list \in Seq(Int) /\ Shown(m) = list
RightOrder(m, list) == KeepsOrder(m) => Sorts(list, m.ascending)
Good(m, list) == Holds(m, list) /\ TailRight(m) /\ RightOrder(m, list)
\* The members a call that moves the items leaves as they are.
Alike(r, m) == /\ r.type = m.type /\ r.sorted = m.sorted /\ r.ascending = m.ascending
               /\ r.preallocationSize = m.preallocationSize

LEMMA CellsDiffer ==
  ASSUME NEW m \in Multilists, NEW n \in Nat, Fits(m, n)
  PROVE  /\ \A k \in 1 .. n : CellOf(m, k - 1) \in 0 .. Len(m.data) - 1
         /\ \A k \in 1 .. n : CellOf(m, k - 1) + 1 \in 1 .. Len(m.data)
         /\ \A k, l \in 1 .. n : CellOf(m, k - 1) = CellOf(m, l - 1) => k = l
<1>1. Len(m.data) \in Nat /\ m.queueHead \in Nat /\ n <= Len(m.data)
  BY DEF Multilists, Fits
<1>2. \A k \in 1 .. n : CellOf(m, k - 1) = IF ~IsQueue(m) THEN k - 1
        ELSE IF m.queueHead + (k - 1) >= Len(m.data) THEN m.queueHead + (k - 1) - Len(m.data)
        ELSE m.queueHead + (k - 1)
  BY DEF CellOf, allocationSize
<1>3. IsQueue(m) /\ n > 0 => m.queueHead < Len(m.data)
  BY DEF Fits
<1> DEFINE L == Len(m.data)
           h == m.queueHead
<1>4. ASSUME NEW k \in 1 .. n
      PROVE  CellOf(m, k - 1) \in 0 .. Len(m.data) - 1 /\ CellOf(m, k - 1) + 1 \in 1 .. Len(m.data)
  <2>1. n > 0
    OBVIOUS
  <2>2. CASE ~IsQueue(m)
    BY <1>1, <1>2, <2>2
  <2>3. CASE IsQueue(m)
    <3>1. h < L /\ L \in Nat /\ h \in Nat /\ n <= L
      BY <1>1, <1>3, <2>1, <2>3
    <3>2. CellOf(m, k - 1) = IF h + (k - 1) >= L THEN h + (k - 1) - L ELSE h + (k - 1)
      BY <1>2, <2>3
    <3> HIDE DEF h, L
    <3>3. CellOf(m, k - 1) \in 0 .. L - 1
      BY <3>1, <3>2
    <3> QED BY <3>1, <3>3 DEF L
  <2> QED BY <2>2, <2>3
<1>5. ASSUME NEW k \in 1 .. n, NEW l \in 1 .. n, CellOf(m, k - 1) = CellOf(m, l - 1) PROVE k = l
  <2>1. n > 0
    OBVIOUS
  <2>2. CASE ~IsQueue(m)
    BY <1>1, <1>2, <1>5, <2>2
  <2>3. CASE IsQueue(m)
    <3>1. h < L /\ L \in Nat /\ h \in Nat /\ n <= L
      BY <1>1, <1>3, <2>1, <2>3
    <3>2. /\ CellOf(m, k - 1) = IF h + (k - 1) >= L THEN h + (k - 1) - L ELSE h + (k - 1)
          /\ CellOf(m, l - 1) = IF h + (l - 1) >= L THEN h + (l - 1) - L ELSE h + (l - 1)
      BY <1>2, <2>3
    <3> HIDE DEF h, L
    <3>3. (IF h + (k - 1) >= L THEN h + (k - 1) - L ELSE h + (k - 1))
          = (IF h + (l - 1) >= L THEN h + (l - 1) - L ELSE h + (l - 1))
      BY <1>5, <3>2
    <3> QED BY <3>1, <3>3
  <2> QED BY <2>2, <2>3
<1> QED BY <1>4, <1>5

LEMMA ShownIs ==
  ASSUME NEW m \in Multilists, Fits(m, m.dataSize)
  PROVE  /\ Shown(m) \in Seq(Int) /\ Len(Shown(m)) = m.dataSize
         /\ \A k \in 1 .. m.dataSize : /\ Shown(m)[k] = m.data[CellOf(m, k - 1) + 1]
                                       /\ m.data[CellOf(m, k - 1) + 1] \in Int
<1> DEFINE n == m.dataSize
           s == Shown(m)
<1>1. n \in Nat /\ m.data \in Seq(Int)
  BY DEF Multilists
<1>2. s = [k \in 1 .. n |-> m.data[CellOf(m, k - 1) + 1]]
  BY DEF Shown, Value
<1>3. \A k \in 1 .. n : m.data[CellOf(m, k - 1) + 1] \in Int
  BY <1>1, CellsDiffer, ElementOfSeq
<1> HIDE DEF n
<1>4. \A k \in 1 .. n : s[k] = m.data[CellOf(m, k - 1) + 1] /\ s[k] \in Int
  <2> HIDE DEF s
  <2> QED BY <1>2, <1>3
<1>5. s \in Seq(Int) /\ Len(s) = n
  BY <1>1, <1>2, <1>3, IsASeq
<1> QED BY <1>3, <1>4, <1>5 DEF n

\* What Holding leaves.
LEMMA HoldingHolds ==
  ASSUME NEW m \in Multilists, NEW items \in Seq(Int), Fits(m, Len(items))
  PROVE  LET r == Holding(m, items)
         IN  /\ Holds(r, items) /\ Alike(r, m)
             /\ r.dataSize = Len(items) /\ Len(r.data) = Len(m.data)
             /\ r.queueHead = m.queueHead /\ r.queueTail = m.queueTail
<1> DEFINE n == Len(items)
           L == Len(m.data)
           Ks(c) == {k \in 1 .. n : CellOf(m, k - 1) = c - 1}
           d == [c \in 1 .. L |-> IF Ks(c) = {} THEN BlankCell ELSE items[CHOOSE k \in Ks(c) : TRUE]]
           r == Holding(m, items)
<1>1. n \in Nat /\ L \in Nat /\ m.data \in Seq(Int)
  BY DEF Multilists
<1>2. r = [m EXCEPT !.dataSize = n, !.data = d]
  BY DEF Holding, allocationSize
<1>3. ASSUME NEW k \in 1 .. n
      PROVE  /\ CellOf(m, k - 1) + 1 \in 1 .. L
             /\ d[CellOf(m, k - 1) + 1] = items[k]
  <2> DEFINE c == CellOf(m, k - 1) + 1
  <2>1. CellOf(m, k - 1) \in 0 .. L - 1 /\ c \in 1 .. L
    BY <1>1, CellsDiffer
  <2>2. c - 1 = CellOf(m, k - 1)
    BY <1>1, <2>1
  <2>3. \A l \in 1 .. n : CellOf(m, l - 1) = CellOf(m, k - 1) => l = k
    BY <1>1, CellsDiffer
  <2>4. Ks(c) = {k}
    BY <2>2, <2>3
  <2>5. (CHOOSE l \in {k} : TRUE) = k
    OBVIOUS
  <2>6. d[c] = IF Ks(c) = {} THEN BlankCell ELSE items[CHOOSE l \in Ks(c) : TRUE]
    BY <2>1
  <2> HIDE DEF d, c
  <2>7. d[c] = items[k]
    BY <2>4, <2>5, <2>6
  <2> QED BY <2>1, <2>7 DEF c
<1>4. \A c \in 1 .. L : d[c] \in Int
  <2> SUFFICES ASSUME NEW c \in 1 .. L PROVE d[c] \in Int
    OBVIOUS
  <2>1. BlankCell \in Int
    BY MultilistAssumption
  <2>2. CASE Ks(c) = {}
    BY <2>1, <2>2
  <2>3. CASE Ks(c) # {}
    <3>1. (CHOOSE k \in Ks(c) : TRUE) \in Ks(c)
      BY <2>3
    <3>2. (CHOOSE k \in Ks(c) : TRUE) \in 1 .. n
      BY <3>1
    <3> DEFINE k == CHOOSE k \in Ks(c) : TRUE
    <3>3. items[k] \in Int
      BY <3>2, ElementOfSeq
    <3>4. d[c] = items[k]
      BY <2>3
    <3> QED BY <3>3, <3>4
  <2> QED BY <2>2, <2>3
<1>5. d \in Seq(Int) /\ Len(d) = L
  <2>1. d = [c \in 1 .. L |-> d[c]]
    OBVIOUS
  <2> HIDE DEF d
  <2>2. [c \in 1 .. L |-> d[c]] \in Seq(Int) /\ Len([c \in 1 .. L |-> d[c]]) = L
    BY <1>1, <1>4, IsASeq
  <2> QED BY <2>1, <2>2
<1> HIDE DEF d, n, L
<1>6. /\ r \in Multilists /\ r.data = d /\ r.dataSize = n /\ r.queueHead = m.queueHead
      /\ r.queueTail = m.queueTail /\ r.type = m.type /\ r.sorted = m.sorted
      /\ r.ascending = m.ascending /\ r.preallocationSize = m.preallocationSize
  BY <1>1, <1>2, <1>5 DEF Multilists
<1>7. \A p : CellOf(r, p) = CellOf(m, p)
  BY <1>5, <1>6 DEF CellOf, IsQueue, allocationSize, L
<1>8. Fits(r, n)
  BY <1>5, <1>6 DEF Fits, IsQueue, n, L
<1> HIDE DEF r
<1>9. \A k \in 1 .. n : Shown(r)[k] = items[k]
  <2>1. \A k \in 1 .. n : Shown(r)[k] = d[CellOf(m, k - 1) + 1]
    BY <1>6, <1>7, <1>8, ShownIs
  <2> QED BY <1>3, <2>1
<1>10. Shown(r) = items
  BY <1>6, <1>8, <1>9, ShownIs, SeqEqual DEF n
<1>11. Holds(r, items)
  BY <1>6, <1>8, <1>10 DEF Holds
<1> QED BY <1>5, <1>6, <1>11 DEF Alike, r, n, L

\* Members that do not say where the items are.
LEMMA HoldsStill ==
  ASSUME NEW m, NEW list, Holds(m, list), NEW r \in Multilists,
         r.data = m.data, r.dataSize = m.dataSize, IsQueue(r) <=> IsQueue(m),
         IsQueue(m) => r.queueHead = m.queueHead
  PROVE  Holds(r, list)
<1>1. \A p : CellOf(r, p) = CellOf(m, p)
  BY DEF CellOf, allocationSize
<1>2. Shown(r) = Shown(m)
  BY <1>1 DEF Shown, Value
<1>3. Fits(r, r.dataSize)
  BY DEF Holds, Fits
<1> QED BY <1>2, <1>3 DEF Holds

Sound(m, list) == Holds(m, list) /\ TailRight(m)

LEMMA AlikeOrder ==
  ASSUME NEW r, NEW m, Alike(r, m), NEW list, RightOrder(m, list)
  PROVE  RightOrder(r, list)
  BY DEF Alike, RightOrder, KeepsOrder

LEMMA ReallocatedHolds ==
  ASSUME NEW m, NEW list, Sound(m, list), NEW size \in Nat, m.dataSize <= size
  PROVE  LET r == ReallocToSize(m, size)
         IN  /\ Sound(r, list) /\ Alike(r, m)
             /\ r.dataSize = m.dataSize /\ Len(r.data) = size
<1> DEFINE n == m.dataSize
           d == [c \in 1 .. size |-> IF c <= n THEN Shown(m)[c] ELSE BlankCell]
           moved == [m EXCEPT !.data = d]
           r == ReallocToSize(m, size)
<1>1. m \in Multilists /\ n \in Nat /\ n <= size /\ Shown(m) = list /\ list \in Seq(Int)
      /\ Fits(m, n)
  BY DEF Sound, Holds, Multilists
<1>2. Len(list) = n /\ \A k \in 1 .. n : list[k] \in Int
  BY <1>1, ShownIs, ElementOfSeq
<1>3. r = IF n > 0 /\ IsQueue(m) THEN [moved EXCEPT !.queueHead = 0, !.queueTail = n] ELSE moved
  BY DEF ReallocToSize
<1>4. \A c \in 1 .. size : d[c] = (IF c <= n THEN list[c] ELSE BlankCell) /\ d[c] \in Int
  <2> SUFFICES ASSUME NEW c \in 1 .. size
               PROVE  d[c] = (IF c <= n THEN list[c] ELSE BlankCell) /\ d[c] \in Int
    OBVIOUS
  <2>1. d[c] = IF c <= n THEN list[c] ELSE BlankCell
    BY <1>1
  <2>2. c <= n => c \in 1 .. n
    BY <1>1
  <2>3. BlankCell \in Int
    BY MultilistAssumption
  <2> HIDE DEF d
  <2> QED BY <1>2, <2>1, <2>2, <2>3
<1>5. d \in Seq(Int) /\ Len(d) = size
  <2>1. d = [c \in 1 .. size |-> d[c]]
    OBVIOUS
  <2> HIDE DEF d
  <2>2. [c \in 1 .. size |-> d[c]] \in Seq(Int) /\ Len([c \in 1 .. size |-> d[c]]) = size
    BY <1>4, IsASeq
  <2> QED BY <2>1, <2>2
<1> HIDE DEF d
<1>6. /\ moved \in Multilists /\ moved.data = d /\ moved.dataSize = n
      /\ moved.queueHead = m.queueHead /\ moved.queueTail = m.queueTail /\ Alike(moved, m)
  BY <1>1, <1>5 DEF Multilists, Alike
<1> HIDE DEF moved
<1>7. /\ r \in Multilists /\ r.data = d /\ r.dataSize = n /\ Alike(r, m)
      /\ n > 0 /\ IsQueue(m) => r.queueHead = 0 /\ r.queueTail = n
      /\ ~(n > 0 /\ IsQueue(m)) => r.queueHead = m.queueHead /\ r.queueTail = m.queueTail
  <2>1. CASE n > 0 /\ IsQueue(m)
    <3>1. r = [moved EXCEPT !.queueHead = 0, !.queueTail = n]
      BY <1>3, <2>1
    <3> HIDE DEF r, n
    <3> QED BY <1>1, <1>6, <2>1, <3>1 DEF Multilists, Alike
  <2>2. CASE ~(n > 0 /\ IsQueue(m))
    BY <1>3, <1>6, <2>2
  <2> QED BY <2>1, <2>2
<1> HIDE DEF r
<1>8. IsQueue(r) <=> IsQueue(m)
  BY <1>7 DEF Alike, IsQueue
<1>9. Fits(r, n)
  BY <1>1, <1>5, <1>7, <1>8 DEF Fits
<1>10. \A k \in 1 .. n : CellOf(r, k - 1) = k - 1
  <2> SUFFICES ASSUME NEW k \in 1 .. n PROVE CellOf(r, k - 1) = k - 1
    OBVIOUS
  <2>1. n > 0
    BY <1>1
  <2>2. CASE ~IsQueue(r)
    BY <2>2 DEF CellOf
  <2>3. CASE IsQueue(r)
    <3>1. r.queueHead = 0 /\ Len(r.data) = size
      BY <1>5, <1>7, <1>8, <2>1, <2>3
    <3> QED BY <1>1, <2>3, <3>1 DEF CellOf, allocationSize
  <2> QED BY <2>2, <2>3
<1>11. \A k \in 1 .. n : Shown(r)[k] = list[k]
  <2> SUFFICES ASSUME NEW k \in 1 .. n PROVE Shown(r)[k] = list[k]
    OBVIOUS
  <2>1. Shown(r)[k] = r.data[CellOf(r, k - 1) + 1]
    BY <1>7, <1>9, ShownIs
  <2>2. (k - 1) + 1 = k /\ k \in 1 .. size /\ k <= n
    BY <1>1
  <2> QED BY <1>4, <1>7, <1>10, <2>1, <2>2
<1>12. Shown(r) = list
  BY <1>1, <1>2, <1>7, <1>9, <1>11, ShownIs, SeqEqual
<1>13. Holds(r, list)
  BY <1>1, <1>7, <1>9, <1>12 DEF Holds
<1>14. TailRight(r)
  <2>1. CASE n > 0 /\ IsQueue(m)
    BY <1>1, <1>7, <1>8, <2>1 DEF TailRight
  <2>2. CASE ~(n > 0 /\ IsQueue(m))
    <3>1. n = 0 \/ ~IsQueue(m)
      BY <1>1, <2>2
    <3>2. TailRight(m)
      BY DEF Sound
    <3> QED BY <1>7, <1>8, <3>1, <3>2, <2>2 DEF TailRight
  <2> QED BY <2>1, <2>2
<1> QED BY <1>5, <1>7, <1>13, <1>14 DEF Sound, r

LEMMA WithSpace ==
  ASSUME NEW m, NEW list, Sound(m, list)
  PROVE  LET r == ReallocateIfNeeded(m)
         IN  /\ Sound(r, list) /\ Alike(r, m)
             /\ r.dataSize = m.dataSize /\ r.dataSize < Len(r.data)
<1> DEFINE L == Len(m.data)
           n == m.dataSize
           size == IF L < FirstBlock \div 2 THEN FirstBlock
                   ELSE IF L > LargeBlock THEN L + LargeBlock ELSE 2 * L
<1>1. L \in Nat /\ n \in Nat /\ n <= L
  BY DEF Sound, Holds, Multilists, Fits
<1>2. ReallocateIfNeeded(m) = IF n < L THEN m ELSE ReallocToSize(m, size)
  BY DEF ReallocateIfNeeded, allocationSize
<1>3. CASE n < L
  BY <1>2, <1>3 DEF Alike
<1>4. CASE ~(n < L)
  <2>1. n = L
    BY <1>1, <1>4
  <2>2. FirstBlock \in Nat /\ FirstBlock >= 2 /\ LargeBlock \in Nat /\ LargeBlock > 0
    BY MultilistAssumption
  <2>3. size \in Nat /\ n < size
    <3>1. FirstBlock \div 2 \in Nat /\ FirstBlock \div 2 >= 1 /\ FirstBlock \div 2 <= FirstBlock
      BY <2>2
    <3> QED BY <1>1, <2>1, <2>2, <3>1
  <2>4. ReallocateIfNeeded(m) = ReallocToSize(m, size)
    BY <1>2, <1>4
  <2>5. n <= size
    BY <1>1, <2>3
  <2> HIDE DEF size
  <2> QED BY <2>3, <2>4, <2>5, ReallocatedHolds
<1> QED BY <1>3, <1>4

LEMMA WithoutSpace ==
  ASSUME NEW m, NEW list, Sound(m, list)
  PROVE  LET r == DeallocateIfNeeded(m)
         IN  Sound(r, list) /\ Alike(r, m) /\ r.dataSize = m.dataSize
<1> DEFINE n == m.dataSize
           r == DeallocateIfNeeded(m)
<1>1. n \in Nat
  BY DEF Sound, Holds, Multilists
<1>2. r = m \/ r = ReallocToSize(m, 2 * n)
  BY DEF DeallocateIfNeeded
<1>3. 2 * n \in Nat /\ n <= 2 * n
  BY <1>1
<1>4. CASE r = m
  BY <1>4 DEF Alike
<1>5. CASE r = ReallocToSize(m, 2 * n)
  BY <1>3, <1>5, ReallocatedHolds
<1> QED BY <1>2, <1>4, <1>5

-----------------------------------------------------------------------------
(***************************************************************************)
(* Lists made of lists, and their order.                                   *)
(***************************************************************************)
LEMMA FrontIs ==
  ASSUME NEW s \in Seq(Int), s # << >>
  PROVE  /\ Front(s) \in Seq(Int) /\ Len(Front(s)) = Len(s) - 1 /\ Len(s) \in Nat \ {0}
         /\ \A k \in 1 .. Len(s) - 1 : Front(s)[k] = s[k]
<1>1. Len(s) \in Nat \ {0}
  BY EmptySeq
<1> DEFINE n == Len(s) - 1
           f == SubSeq(s, 1, n)
<1>2. n \in Nat /\ n <= Len(s)
  BY <1>1
<1>3. f \in Seq(Int) /\ Len(f) = n /\ \A k \in 1 .. n : f[k] = s[k]
  <2> HIDE DEF n
  <2> QED BY <1>1, <1>2
<1> QED BY <1>1, <1>3 DEF Front

LEMMA TailIs ==
  ASSUME NEW s \in Seq(Int), s # << >>
  PROVE  /\ Tail(s) \in Seq(Int) /\ Len(Tail(s)) = Len(s) - 1 /\ Len(s) \in Nat \ {0}
         /\ \A k \in 1 .. Len(s) - 1 : Tail(s)[k] = s[k + 1]
  BY HeadTailProperties

LEMMA PutFirst ==
  ASSUME NEW s \in Seq(Int), NEW x \in Int
  PROVE  /\ <<x>> \o s \in Seq(Int) /\ InsertAt(s, 1, x) = <<x>> \o s
<1> DEFINE t == <<x>> \o s
<1>1. t \in Seq(Int) /\ Len(t) = Len(s) + 1 /\ Len(s) \in Nat
      /\ \A k \in 1 .. Len(s) + 1 : t[k] = IF k = 1 THEN x ELSE s[k - 1]
  OBVIOUS
<1> HIDE DEF t
<1>2. IsPut(Int, InsertAt(s, 0 + 1, x), s, 0, x)
  <2>1. 0 \in 0 .. Len(s)
    BY <1>1
  <2> QED BY <2>1, InsertedIsPut
<1>3. /\ InsertAt(s, 1, x) \in Seq(Int) /\ Len(InsertAt(s, 1, x)) = Len(s) + 1
      /\ \A k \in 1 .. Len(s) + 1 : InsertAt(s, 1, x)[k] =
            IF k <= 0 THEN s[k] ELSE IF k = 0 + 1 THEN x ELSE s[k - 1]
  BY <1>2 DEF IsPut
<1>4. \A k \in 1 .. Len(s) + 1 : InsertAt(s, 1, x)[k] = t[k]
  <2> SUFFICES ASSUME NEW k \in 1 .. Len(s) + 1 PROVE InsertAt(s, 1, x)[k] = t[k]
    OBVIOUS
  <2>1. ~(k <= 0) /\ 0 + 1 = 1
    BY <1>1
  <2> QED BY <1>1, <1>3, <2>1
<1>5. InsertAt(s, 1, x) = t
  BY <1>1, <1>3, <1>4, SeqEqual
<1> QED BY <1>1, <1>5 DEF t

LEMMA ReverseIs ==
  ASSUME NEW s \in Seq(Int)
  PROVE  /\ Reverse(s) \in Seq(Int) /\ Len(Reverse(s)) = Len(s) /\ Len(s) \in Nat
         /\ \A k \in 1 .. Len(s) : Reverse(s)[k] = s[(Len(s) - k) + 1]
                                   /\ (Len(s) - k) + 1 \in 1 .. Len(s)
<1> DEFINE r == [k \in 1 .. Len(s) |-> s[(Len(s) - k) + 1]]
<1>1. Len(s) \in Nat /\ \A k \in 1 .. Len(s) : (Len(s) - k) + 1 \in 1 .. Len(s)
  OBVIOUS
<1>2. \A k \in 1 .. Len(s) : s[(Len(s) - k) + 1] \in Int
  BY <1>1, ElementOfSeq
<1>3. r \in Seq(Int) /\ Len(r) = Len(s)
  BY <1>1, <1>2, IsASeq
<1> QED BY <1>1, <1>3 DEF Reverse

LEMMA SublistsSorted ==
  ASSUME NEW s \in Seq(Int), s # << >>, NEW asc, Sorts(s, asc)
  PROVE  Sorts(Front(s), asc) /\ Sorts(Tail(s), asc)
<1>1. /\ Len(s) \in Nat \ {0} /\ Len(Front(s)) = Len(s) - 1 /\ Len(Tail(s)) = Len(s) - 1
      /\ \A k \in 1 .. Len(s) - 1 : Front(s)[k] = s[k] /\ Tail(s)[k] = s[k + 1]
  BY FrontIs, TailIs
<1>2. ASSUME NEW i \in 1 .. Len(s) - 1, NEW j \in 1 .. Len(s) - 1, i < j
      PROVE  Ascending(s[i], s[j], asc) /\ Ascending(s[i + 1], s[j + 1], asc)
  <2>1. i \in 1 .. Len(s) /\ j \in 1 .. Len(s) /\ i + 1 \in 1 .. Len(s) /\ j + 1 \in 1 .. Len(s) /\ i + 1 < j + 1
    BY <1>1, <1>2
  <2> QED BY <1>2, <2>1 DEF Sorts
<1> QED BY <1>1, <1>2 DEF Sorts

LEMMA ReverseSorted ==
  ASSUME NEW s \in Seq(Int), NEW asc \in BOOLEAN, Sorts(s, asc)
  PROVE  Sorts(Reverse(s), ~asc)
<1>1. /\ Len(Reverse(s)) = Len(s) /\ Len(s) \in Nat
      /\ \A k \in 1 .. Len(s) : Reverse(s)[k] = s[(Len(s) - k) + 1] /\ (Len(s) - k) + 1 \in 1 .. Len(s)
  BY ReverseIs
<1>2. ASSUME NEW i \in 1 .. Len(s), NEW j \in 1 .. Len(s), i < j
      PROVE  Ascending(Reverse(s)[i], Reverse(s)[j], ~asc)
  <2> DEFINE a == (Len(s) - i) + 1
             b == (Len(s) - j) + 1
  <2>1. a \in 1 .. Len(s) /\ b \in 1 .. Len(s) /\ b < a
    BY <1>1, <1>2
  <2>2. Reverse(s)[i] = s[a] /\ Reverse(s)[j] = s[b]
    BY <1>1
  <2>3. s[a] \in Int /\ s[b] \in Int
    BY <2>1, ElementOfSeq
  <2> HIDE DEF a, b
  <2>4. Ascending(s[b], s[a], asc)
    BY <2>1 DEF Sorts
  <2> QED BY <2>2, <2>3, <2>4 DEF Ascending
<1> QED BY <1>1, <1>2 DEF Sorts

-----------------------------------------------------------------------------
(***************************************************************************)
(* The place of a key, and an item put there.                              *)
(***************************************************************************)
\* r is a place of key in s, or the one where it would be.
PlaceIn(s, key, asc, r) ==
  /\ r.exists \in BOOLEAN /\ r.index \in 0 .. Len(s)
  /\ r.exists => r.index < Len(s) /\ s[r.index + 1] = key
  /\ ~r.exists => \A k \in 1 .. Len(s) : /\ s[k] # key
                                         /\ k <= r.index => Ascending(s[k], key, asc)
                                         /\ k > r.index => Ascending(key, s[k], asc)

LEMMA PlaceFinds ==
  ASSUME NEW m, NEW list, Holds(m, list), Sorts(list, m.ascending), NEW key \in Int
  PROVE  PlaceIn(list, key, m.ascending, Place(m, key))
<1> DEFINE n == m.dataSize
           asc == m.ascending
           cf == [i \in 0 .. n - 1 |-> IF asc THEN Compare(key, Value(m, i)) ELSE Compare(Value(m, i), key)]
           r == Place(m, key)
<1>1. n \in Nat /\ asc \in BOOLEAN /\ Len(list) = n /\ list = Shown(m) /\ \A k \in 1 .. n : list[k] \in Int
  <2>1. m \in Multilists /\ Fits(m, n) /\ list \in Seq(Int) /\ Shown(m) = list
    BY DEF Holds
  <2>2. n \in Nat /\ asc \in BOOLEAN
    BY <2>1 DEF Multilists
  <2>3. Len(list) = n
    BY <2>1, ShownIs
  <2> QED BY <2>1, <2>2, <2>3, ElementOfSeq
<1>2. \A i \in 0 .. n - 1 : Value(m, i) = list[i + 1] /\ i + 1 \in 1 .. n
  <2> SUFFICES ASSUME NEW i \in 0 .. n - 1 PROVE Value(m, i) = list[i + 1] /\ i + 1 \in 1 .. n
    OBVIOUS
  <2>1. i + 1 \in 1 .. n /\ (i + 1) - 1 = i
    BY <1>1
  <2>2. list = [k \in 1 .. n |-> Value(m, k - 1)]
    BY <1>1 DEF Shown
  <2> QED BY <2>1, <2>2
<1>3. \A a, b \in Int : /\ Compare(a, b) \in Int
                        /\ (Compare(a, b) = 0) <=> (a = b)
                        /\ (Compare(a, b) > 0) <=> (a > b)
                        /\ (Compare(a, b) < 0) <=> (a < b)
                        /\ \A c \in Int : b <= c => Compare(a, c) <= Compare(a, b)
                        /\ \A c \in Int : a <= c => Compare(a, b) <= Compare(c, b)
  BY DEF Compare
<1>4. r = GetIndexFromKey(n, cf)
  BY DEF Place
<1>5. \A i \in 0 .. n - 1 :
        /\ list[i + 1] \in Int /\ i + 1 \in 1 .. n
        /\ cf[i] = IF asc THEN Compare(key, list[i + 1]) ELSE Compare(list[i + 1], key)
        /\ cf[i] \in Int
  BY <1>1, <1>2, <1>3
<1>6. cf = [i \in 0 .. n - 1 |-> cf[i]]
  OBVIOUS
<1> HIDE DEF cf, r, n, asc
<1>7. ASSUME NEW i \in 0 .. n - 1, NEW j \in 0 .. n - 1, i <= j PROVE cf[j] <= cf[i]
  <2>1. list[i + 1] \in Int /\ list[j + 1] \in Int /\ i + 1 \in 1 .. n /\ j + 1 \in 1 .. n /\ cf[i] \in Int
    BY <1>5
  <2>2. i = j \/ i + 1 < j + 1
    BY <1>1, <1>7
  <2>3. CASE i = j
    BY <2>1, <2>3
  <2>4. CASE i + 1 < j + 1
    <3>1. Ascending(list[i + 1], list[j + 1], asc)
      BY <1>1, <2>1, <2>4 DEF Sorts, asc
    <3>2. CASE asc
      <4>1. list[i + 1] <= list[j + 1]
        BY <3>1, <3>2 DEF Ascending
      <4>2. Compare(key, list[j + 1]) <= Compare(key, list[i + 1])
        BY <1>3, <2>1, <4>1, Zenon
      <4>3. cf[i] = Compare(key, list[i + 1]) /\ cf[j] = Compare(key, list[j + 1])
        BY <1>5, <3>2
      <4> QED BY <4>2, <4>3
    <3>3. CASE ~asc
      <4>1. list[j + 1] <= list[i + 1]
        BY <2>1, <3>1, <3>3 DEF Ascending
      <4>2. Compare(list[j + 1], key) <= Compare(list[i + 1], key)
        BY <1>3, <2>1, <4>1, Zenon
      <4>3. cf[i] = Compare(list[i + 1], key) /\ cf[j] = Compare(list[j + 1], key)
        BY <1>5, <3>3
      <4> QED BY <4>2, <4>3
    <3> QED BY <3>2, <3>3
  <2> QED BY <2>2, <2>3, <2>4
<1>8. cf \in [0 .. n - 1 -> Int]
  BY <1>5, <1>6
<1>9. IsAnswer(n, cf, r)
  BY <1>1, <1>4, <1>7, <1>8, SearchAnswers DEF Falling
<1>10. r.exists \in BOOLEAN /\ r.index \in 0 .. n
  BY <1>9 DEF IsAnswer
<1>11. ASSUME r.exists PROVE r.index < n /\ list[r.index + 1] = key
  <2>1. r.index < n /\ cf[r.index] = 0 /\ r.index \in 0 .. n - 1
    BY <1>1, <1>9, <1>10, <1>11 DEF IsAnswer
  <2>2. list[r.index + 1] \in Int
        /\ 0 = IF asc THEN Compare(key, list[r.index + 1]) ELSE Compare(list[r.index + 1], key)
    BY <1>5, <2>1
  <2>3. list[r.index + 1] = key
    <3>1. CASE asc
      <4>1. Compare(key, list[r.index + 1]) = 0
        BY <2>2, <3>1
      <4> QED BY <1>3, <2>2, <4>1, Zenon
    <3>2. CASE ~asc
      <4>1. Compare(list[r.index + 1], key) = 0
        BY <2>2, <3>2
      <4> QED BY <1>3, <2>2, <4>1, Zenon
    <3> QED BY <3>1, <3>2
  <2> QED BY <2>1, <2>3
<1>12. ASSUME ~r.exists, NEW k \in 1 .. n
       PROVE  /\ list[k] # key
              /\ k <= r.index => Ascending(list[k], key, asc)
              /\ k > r.index => Ascending(key, list[k], asc)
  <2>1. k - 1 \in 0 .. n - 1 /\ (k - 1) + 1 = k /\ k \in Int /\ r.index \in Int
    BY <1>1, <1>10
  <2>2. /\ k - 1 < r.index => cf[k - 1] > 0
        /\ k - 1 >= r.index => cf[k - 1] < 0
    BY <1>9, <1>12, <2>1 DEF IsAnswer
  <2>3. list[k] \in Int /\ cf[k - 1] = IF asc THEN Compare(key, list[k]) ELSE Compare(list[k], key)
    <3>1. list[(k - 1) + 1] \in Int /\ cf[k - 1] = IF asc THEN Compare(key, list[(k - 1) + 1]) ELSE Compare(list[(k - 1) + 1], key)
      BY <1>5, <2>1
    <3> QED BY <2>1, <3>1
  <2>4. (k <= r.index <=> k - 1 < r.index) /\ (k > r.index <=> k - 1 >= r.index)
    BY <2>1
  <2>5. CASE asc
    <3>2. cf[k - 1] = Compare(key, list[k])
      BY <2>3, <2>5
    <3>3. /\ (Compare(key, list[k]) > 0) <=> (key > list[k])
          /\ (Compare(key, list[k]) < 0) <=> (key < list[k])
      BY <1>3, <2>3, Zenon
    <3>1. (cf[k - 1] > 0 => key > list[k]) /\ (cf[k - 1] < 0 => key < list[k])
      BY <3>2, <3>3, Zenon
    <3> QED BY <2>1, <2>2, <2>3, <2>4, <2>5, <3>1 DEF Ascending
  <2>6. CASE ~asc
    <3>2. cf[k - 1] = Compare(list[k], key)
      BY <2>3, <2>6
    <3>3. /\ (Compare(list[k], key) > 0) <=> (list[k] > key)
          /\ (Compare(list[k], key) < 0) <=> (list[k] < key)
      BY <1>3, <2>3, Zenon
    <3>1. (cf[k - 1] > 0 => list[k] > key) /\ (cf[k - 1] < 0 => list[k] < key)
      BY <3>2, <3>3, Zenon
    <3> QED BY <2>1, <2>2, <2>3, <2>4, <2>6, <3>1 DEF Ascending
  <2> QED BY <1>1, <2>5, <2>6
<1>13. PlaceIn(list, key, asc, r)
  BY <1>1, <1>10, <1>11, <1>12 DEF PlaceIn
<1> QED BY <1>13 DEF asc, r

LEMMA InsertShuffled ==
  ASSUME NEW s \in Seq(Int), NEW index \in 0 .. Len(s), NEW x \in Int
  PROVE  Shuffled(Int, InsertAt(s, index + 1, x), Append(s, x))
<1> DEFINE n == Len(s)
           a == InsertAt(s, index + 1, x)
           b == Append(s, x)
           p == [k \in 1 .. n + 1 |-> IF k <= index THEN k ELSE IF k = index + 1 THEN n + 1 ELSE k - 1]
<1>1. /\ a \in Seq(Int) /\ Len(a) = n + 1 /\ n \in Nat
      /\ \A k \in 1 .. n + 1 : a[k] = IF k <= index THEN s[k] ELSE IF k = index + 1 THEN x ELSE s[k - 1]
  <2>1. IsPut(Int, InsertAt(s, index + 1, x), s, index, x)
    BY InsertedIsPut
  <2>2. n \in Nat
    OBVIOUS
  <2> QED BY <2>1, <2>2 DEF IsPut
<1>2. b \in Seq(Int) /\ Len(b) = n + 1 /\ b[n + 1] = x /\ \A k \in 1 .. n : b[k] = s[k]
  BY AppendProperties
<1> HIDE DEF a, b, n
<1>3. index \in Nat /\ index <= n
  BY <1>1 DEF n
<1>4. p \in [1 .. n + 1 -> 1 .. n + 1] /\ \A i, j \in 1 .. n + 1 : p[i] = p[j] => i = j
  <2>1. n \in Nat /\ index \in Nat /\ index <= n
    BY <1>1, <1>3
  <2>2. \A k \in 1 .. n + 1 : p[k] = IF k <= index THEN k ELSE IF k = index + 1 THEN n + 1 ELSE k - 1
    OBVIOUS
  <2>3. p = [k \in 1 .. n + 1 |-> p[k]]
    OBVIOUS
  <2> HIDE DEF p
  <2>4. \A k \in 1 .. n + 1 : p[k] \in 1 .. n + 1
    BY <2>1, <2>2
  <2>5. \A i, j \in 1 .. n + 1 : p[i] = p[j] => i = j
    BY <2>1, <2>2
  <2> QED BY <2>3, <2>4, <2>5
<1>5. ASSUME NEW k \in 1 .. n + 1 PROVE a[k] = b[p[k]]
  <2>1. CASE k <= index
    <3>1. k \in 1 .. n /\ p[k] = k /\ a[k] = s[k]
      BY <1>1, <1>3, <2>1
    <3> QED BY <1>2, <3>1
  <2>2. CASE k = index + 1
    <3>1. ~(k <= index) /\ p[k] = n + 1 /\ a[k] = x
      BY <1>1, <1>3, <2>2
    <3> QED BY <1>2, <3>1
  <2>3. CASE k > index + 1
    <3>1. k - 1 \in 1 .. n /\ p[k] = k - 1 /\ a[k] = s[k - 1]
      BY <1>1, <1>3, <2>3
    <3> QED BY <1>2, <3>1
  <2> QED BY <1>1, <1>3, <2>1, <2>2, <2>3
<1> HIDE DEF p
<1>6. ShuffledBy(a, b, p)
  BY <1>2, <1>4, <1>5 DEF ShuffledBy, Injects
<1> QED BY <1>1, <1>2, <1>6 DEF Shuffled, a, b

LEMMA InsertSorted ==
  ASSUME NEW s \in Seq(Int), NEW asc \in BOOLEAN, Sorts(s, asc), NEW x \in Int,
         NEW r, PlaceIn(s, x, asc, r)
  PROVE  /\ InsertAt(s, r.index + 1, x) \in Seq(Int)
         /\ Sorts(InsertAt(s, r.index + 1, x), asc)
         /\ Sorted(Append(s, x), asc) = InsertAt(s, r.index + 1, x)
<1> DEFINE n == Len(s)
           q == r.index
           a == InsertAt(s, q + 1, x)
<1>1. q \in 0 .. n /\ n \in Nat
  BY DEF PlaceIn
<1>2. /\ a \in Seq(Int) /\ Len(a) = n + 1
      /\ \A k \in 1 .. n + 1 : a[k] = IF k <= q THEN s[k] ELSE IF k = q + 1 THEN x ELSE s[k - 1]
  <2>1. IsPut(Int, InsertAt(s, q + 1, x), s, q, x)
    <3>1. q \in 0 .. Len(s)
      BY <1>1
    <3> HIDE DEF q
    <3> QED BY <3>1, InsertedIsPut
  <2> QED BY <2>1 DEF IsPut
<1>3. \A k \in 1 .. n : s[k] \in Int
  BY ElementOfSeq
<1>4. \A k \in 1 .. n : (k <= q => Ascending(s[k], x, asc)) /\ (k > q => Ascending(x, s[k], asc))
  <2> SUFFICES ASSUME NEW k \in 1 .. n
               PROVE  (k <= q => Ascending(s[k], x, asc)) /\ (k > q => Ascending(x, s[k], asc))
    OBVIOUS
  <2>1. CASE ~r.exists
    BY <2>1 DEF PlaceIn
  <2>2. CASE r.exists
    <3>1. q < n /\ s[q + 1] = x /\ q + 1 \in 1 .. n
      BY <1>1, <2>2 DEF PlaceIn
    <3>2. k < q + 1 \/ k = q + 1 \/ q + 1 < k
      BY <1>1
    <3>3. /\ k < q + 1 => Ascending(s[k], s[q + 1], asc)
          /\ q + 1 < k => Ascending(s[q + 1], s[k], asc)
      BY <3>1 DEF Sorts
    <3>4. Ascending(x, x, asc)
      BY AscendingOrders
    <3> QED BY <1>1, <3>1, <3>2, <3>3, <3>4
  <2> QED BY <2>1, <2>2 DEF PlaceIn
<1> HIDE DEF a, n, q
<1>5. ASSUME NEW i \in 1 .. n + 1, NEW j \in 1 .. n + 1, i < j PROVE Ascending(a[i], a[j], asc)
  <2>0. \A k, l \in 1 .. n : k < l => Ascending(s[k], s[l], asc)
    BY DEF Sorts, n
  <2>1. CASE j <= q
    <3>1. i \in 1 .. n /\ j \in 1 .. n /\ i <= q /\ a[i] = s[i] /\ a[j] = s[j]
      BY <1>1, <1>2, <1>5, <2>1
    <3> QED BY <1>5, <2>0, <3>1
  <2>2. CASE j = q + 1
    <3>1. i \in 1 .. n /\ i <= q /\ a[i] = s[i] /\ a[j] = x
      BY <1>1, <1>2, <1>5, <2>2
    <3> QED BY <1>4, <3>1
  <2>3. CASE j > q + 1 /\ i <= q
    <3>1. i \in 1 .. n /\ j - 1 \in 1 .. n /\ i < j - 1 /\ a[i] = s[i] /\ a[j] = s[j - 1]
      BY <1>1, <1>2, <1>5, <2>3
    <3> QED BY <2>0, <3>1
  <2>4. CASE j > q + 1 /\ i = q + 1
    <3>1. j - 1 \in 1 .. n /\ j - 1 > q /\ a[i] = x /\ a[j] = s[j - 1]
      BY <1>1, <1>2, <1>5, <2>4
    <3> QED BY <1>4, <3>1
  <2>5. CASE i > q + 1
    <3>2. /\ i - 1 \in 1 .. n /\ j - 1 \in 1 .. n /\ i - 1 < j - 1
          /\ ~(i <= q) /\ i # q + 1 /\ ~(j <= q) /\ j # q + 1
      BY <1>1, <1>5, <2>5
    <3>1. i - 1 \in 1 .. n /\ j - 1 \in 1 .. n /\ i - 1 < j - 1 /\ a[i] = s[i - 1] /\ a[j] = s[j - 1]
      BY <1>2, <3>2
    <3> QED BY <2>0, <3>1
  <2> QED BY <1>1, <1>5, <2>1, <2>2, <2>3, <2>4, <2>5
<1>6. Sorts(a, asc)
  BY <1>2, <1>5 DEF Sorts
<1>7. Shuffled(Int, a, Append(s, x))
  BY <1>1, InsertShuffled DEF a, n
<1>8. Sorted(Append(s, x), asc) = a
  BY <1>6, <1>7, SortedIs
<1> QED BY <1>2, <1>6, <1>8 DEF a, q

-----------------------------------------------------------------------------
(***************************************************************************)
(* The sort of the cells.  Within(d, e, a, b): e has the cells of d, those *)
(* from a to b in another order.                                           *)
(***************************************************************************)
MovedBy(d, e, p, a, b) ==
  /\ ShuffledBy(e, d, p)
  /\ \A k \in 1 .. Len(d) : IF k \in a .. b THEN p[k] \in a .. b ELSE p[k] = k
Within(d, e, a, b) == /\ d \in Seq(Int) /\ e \in Seq(Int) /\ Len(e) = Len(d)
                      /\ \E p : MovedBy(d, e, p, a, b)

LEMMA WithinSame == ASSUME NEW d \in Seq(Int), NEW a \in Int, NEW b \in Int PROVE Within(d, d, a, b)
<1> DEFINE p == [k \in 1 .. Len(d) |-> k]
<1>1. \A k \in 1 .. Len(d) : p[k] = k
  OBVIOUS
<1>2. p \in [1 .. Len(d) -> 1 .. Len(d)]
  OBVIOUS
<1> HIDE DEF p
<1>3. MovedBy(d, d, p, a, b)
  BY <1>1, <1>2 DEF MovedBy, ShuffledBy, Injects
<1> QED BY <1>3 DEF Within

LEMMA WithinIs ==
  ASSUME NEW d, NEW e, NEW a \in Int, NEW b \in Int, Within(d, e, a, b)
  PROVE  /\ \A k \in 1 .. Len(d) : k \notin a .. b => e[k] = d[k]
         /\ \A k \in 1 .. Len(d) : k \in a .. b => \E l \in 1 .. Len(d) : l \in a .. b /\ e[k] = d[l]
<1>1. PICK p : MovedBy(d, e, p, a, b)
  BY DEF Within
<1>2. /\ \A k \in 1 .. Len(d) : e[k] = d[p[k]] /\ p[k] \in 1 .. Len(d)
      /\ \A k \in 1 .. Len(d) : IF k \in a .. b THEN p[k] \in a .. b ELSE p[k] = k
  BY <1>1 DEF MovedBy, ShuffledBy, Injects
<1>3. ASSUME NEW k \in 1 .. Len(d), k \notin a .. b PROVE e[k] = d[k]
  BY <1>2, <1>3, Zenon
<1>4. ASSUME NEW k \in 1 .. Len(d), k \in a .. b PROVE \E l \in 1 .. Len(d) : l \in a .. b /\ e[k] = d[l]
  <2>1. e[k] = d[p[k]] /\ p[k] \in 1 .. Len(d) /\ p[k] \in a .. b
    BY <1>2, <1>4, Zenon
  <2> QED BY <2>1, Zenon
<1> QED BY <1>3, <1>4, Zenon

LEMMA WithinTwice ==
  ASSUME NEW d, NEW e, NEW f, NEW a \in Int, NEW b \in Int, NEW c \in Int, NEW h \in Int,
         Within(d, e, a, b), Within(e, f, c, h), a <= c, h <= b
  PROVE  Within(d, f, a, b)
<1>1. PICK p : MovedBy(d, e, p, a, b)
  BY DEF Within
<1>2. PICK q : MovedBy(e, f, q, c, h)
  BY DEF Within
<1> DEFINE n == Len(d)
           r == [k \in 1 .. n |-> p[q[k]]]
<1>3. /\ d \in Seq(Int) /\ e \in Seq(Int) /\ f \in Seq(Int) /\ Len(e) = n /\ Len(f) = n /\ n \in Nat
      /\ \A k \in 1 .. n : p[k] \in 1 .. n /\ q[k] \in 1 .. n
      /\ \A i, j \in 1 .. n : p[i] = p[j] => i = j
      /\ \A i, j \in 1 .. n : q[i] = q[j] => i = j
      /\ \A k \in 1 .. n : e[k] = d[p[k]] /\ f[k] = e[q[k]]
      /\ \A k \in 1 .. n : IF k \in a .. b THEN p[k] \in a .. b ELSE p[k] = k
      /\ \A k \in 1 .. n : IF k \in c .. h THEN q[k] \in c .. h ELSE q[k] = k
  <2>1. d \in Seq(Int) /\ e \in Seq(Int) /\ f \in Seq(Int) /\ Len(e) = n /\ Len(f) = n /\ n \in Nat
    BY DEF Within
  <2>2. /\ ShuffledBy(e, d, p) /\ ShuffledBy(f, e, q)
        /\ \A k \in 1 .. Len(d) : IF k \in a .. b THEN p[k] \in a .. b ELSE p[k] = k
        /\ \A k \in 1 .. Len(e) : IF k \in c .. h THEN q[k] \in c .. h ELSE q[k] = k
    BY <1>1, <1>2 DEF MovedBy
  <2> QED BY <2>1, <2>2 DEF ShuffledBy, Injects
<1> HIDE DEF n
<1>4. r \in [1 .. n -> 1 .. n] /\ \A k \in 1 .. n : r[k] = p[q[k]]
  BY <1>3
<1> HIDE DEF r
<1>5. ASSUME NEW i \in 1 .. n, NEW j \in 1 .. n, r[i] = r[j] PROVE i = j
  <2>1. p[q[i]] = p[q[j]] /\ q[i] \in 1 .. n /\ q[j] \in 1 .. n
    BY <1>3, <1>4, <1>5
  <2>2. q[i] = q[j]
    BY <1>3, <2>1
  <2> QED BY <1>3, <2>2
<1>6. ASSUME NEW k \in 1 .. n PROVE f[k] = d[r[k]]
  <2>1. f[k] = e[q[k]] /\ q[k] \in 1 .. n /\ r[k] = p[q[k]]
    BY <1>3, <1>4
  <2>2. e[q[k]] = d[p[q[k]]]
    BY <1>3, <2>1
  <2> QED BY <2>1, <2>2
<1>7. ASSUME NEW k \in 1 .. n PROVE IF k \in a .. b THEN r[k] \in a .. b ELSE r[k] = k
  <2>0. q[k] \in 1 .. n /\ r[k] = p[q[k]]
        /\ (IF k \in c .. h THEN q[k] \in c .. h ELSE q[k] = k)
        /\ (IF q[k] \in a .. b THEN p[q[k]] \in a .. b ELSE p[q[k]] = q[k])
    BY <1>3, <1>4
  <2>1. \A x \in c .. h : x \in a .. b
    OBVIOUS
  <2>2. CASE k \in a .. b
    <3>1. q[k] \in a .. b
      BY <2>0, <2>1, <2>2
    <3> QED BY <2>0, <2>2, <3>1
  <2>3. CASE k \notin a .. b
    <3>1. q[k] = k
      BY <2>0, <2>1, <2>3
    <3> QED BY <2>0, <2>3, <3>1
  <2> QED BY <2>2, <2>3
<1>8. ShuffledBy(f, d, r)
  BY <1>4, <1>5, <1>6 DEF ShuffledBy, Injects, n
<1>9. MovedBy(d, f, r, a, b)
  BY <1>7, <1>8 DEF MovedBy, n
<1> QED BY <1>3, <1>9 DEF Within

LEMMA ExchangedIs ==
  ASSUME NEW d \in Seq(Int), NEW i \in 1 .. Len(d), NEW j \in 1 .. Len(d)
  PROVE  LET e == Exchanged(d, i, j)
         IN  /\ e \in Seq(Int) /\ Len(e) = Len(d) /\ e[i] = d[j] /\ e[j] = d[i]
             /\ \A k \in 1 .. Len(d) : k # i /\ k # j => e[k] = d[k]
<1> DEFINE e1 == [d EXCEPT ![i] = d[j]]
           e2 == [e1 EXCEPT ![j] = d[i]]
<1>0. d[i] \in Int /\ d[j] \in Int
  BY ElementOfSeq
<1>1. e1 \in Seq(Int) /\ Len(e1) = Len(d) /\ \A k \in 1 .. Len(d) : e1[k] = IF k = i THEN d[j] ELSE d[k]
  BY <1>0, ExceptSeq
<1>2. Exchanged(d, i, j) = e2
  BY DEF Exchanged
<1> HIDE DEF e1
<1>3. e2 \in Seq(Int) /\ Len(e2) = Len(e1) /\ \A k \in 1 .. Len(e1) : e2[k] = IF k = j THEN d[i] ELSE e1[k]
  BY <1>0, <1>1, ExceptSeq
<1> HIDE DEF e2
<1> QED BY <1>1, <1>2, <1>3

LEMMA WithinExchange ==
  ASSUME NEW d \in Seq(Int), NEW i \in 1 .. Len(d), NEW j \in 1 .. Len(d),
         NEW a \in Int, NEW b \in Int, i \in a .. b, j \in a .. b
  PROVE  Within(d, Exchanged(d, i, j), a, b)
<1> DEFINE e == Exchanged(d, i, j)
           n == Len(d)
           p == [k \in 1 .. n |-> IF k = i THEN j ELSE IF k = j THEN i ELSE k]
<1>1. /\ e \in Seq(Int) /\ Len(e) = n /\ e[i] = d[j] /\ e[j] = d[i]
      /\ \A k \in 1 .. n : k # i /\ k # j => e[k] = d[k]
  BY ExchangedIs
<1>2. \A k \in 1 .. n : p[k] = (IF k = i THEN j ELSE IF k = j THEN i ELSE k) /\ p[k] \in 1 .. n
  OBVIOUS
<1>3. p \in [1 .. n -> 1 .. n]
  OBVIOUS
<1> HIDE DEF e, p
<1>4. \A k \in 1 .. n : e[k] = d[p[k]]
  BY <1>1, <1>2
<1>5. \A k, l \in 1 .. n : p[k] = p[l] => k = l
  BY <1>2
<1>6. \A k \in 1 .. n : IF k \in a .. b THEN p[k] \in a .. b ELSE p[k] = k
  BY <1>2
<1>7. MovedBy(d, e, p, a, b)
  BY <1>3, <1>4, <1>5, <1>6 DEF MovedBy, ShuffledBy, Injects
<1> QED BY <1>1, <1>7 DEF Within, e

\* The turns of QSort's inner loop.
TurnsAre(d, l, r, asc, n, f) ==
  f = [k \in 0 .. n |-> IF k = 0 THEN [d |-> d, left |-> l + 1, right |-> r]
                        ELSE Passed(f[k - 1], l, asc)]

LEMMA TurnsExist ==
  ASSUME NEW d, NEW l, NEW r, NEW asc, NEW n \in Nat
  PROVE  \E f : TurnsAre(d, l, r, asc, n, f)
<1> DEFINE first == [d |-> d, left |-> l + 1, right |-> r]
           S == {m \in 0 .. n : \E f : TurnsAre(d, l, r, asc, m, f)}
<1>1. 0 \in S
  <2> DEFINE f == [k \in 0 .. 0 |-> first]
  <2>1. f = [k \in 0 .. 0 |-> IF k = 0 THEN first ELSE Passed(f[k - 1], l, asc)]
    OBVIOUS
  <2> HIDE DEF f
  <2>2. TurnsAre(d, l, r, asc, 0, f)
    BY <2>1 DEF TurnsAre
  <2> QED BY <2>2
<1>2. ASSUME NEW m \in 0 .. n - 1, m \in S PROVE m + 1 \in S
  <2>1. PICK f : TurnsAre(d, l, r, asc, m, f)
    BY <1>2
  <2> DEFINE g == [k \in 0 .. m + 1 |-> IF k = m + 1 THEN Passed(f[m], l, asc) ELSE f[k]]
  <2>2. \A k \in 0 .. m : f[k] = IF k = 0 THEN first ELSE Passed(f[k - 1], l, asc)
    BY <2>1, Zenon DEF TurnsAre
  <2>3. ASSUME NEW k \in 0 .. m + 1 PROVE g[k] = IF k = 0 THEN first ELSE Passed(g[k - 1], l, asc)
    <3>1. CASE k = m + 1
      <4>1. k # 0 /\ k - 1 = m /\ k - 1 \in 0 .. m + 1 /\ k - 1 # m + 1
        BY <3>1
      <4>2. g[k] = Passed(f[m], l, asc) /\ g[k - 1] = f[m]
        BY <3>1, <4>1
      <4> HIDE DEF g
      <4> QED BY <4>1, <4>2
    <3>2. CASE k \in 0 .. m
      <4>1. g[k] = f[k]
        BY <3>2
      <4>2. k # 0 => k - 1 \in 0 .. m + 1 /\ k - 1 # m + 1
        BY <3>2
      <4>3. k # 0 => g[k - 1] = f[k - 1]
        BY <4>2
      <4> HIDE DEF g
      <4> QED BY <2>2, <3>2, <4>1, <4>3
    <3> QED BY <3>1, <3>2
  <2>4. g = [k \in 0 .. m + 1 |-> IF k = 0 THEN first ELSE Passed(g[k - 1], l, asc)]
    <3>1. g = [k \in 0 .. m + 1 |-> g[k]]
      OBVIOUS
    <3> HIDE DEF g
    <3> QED BY <2>3, <3>1
  <2>5. m + 1 \in 0 .. n
    OBVIOUS
  <2> HIDE DEF g
  <2>6. TurnsAre(d, l, r, asc, m + 1, g)
    BY <2>4 DEF TurnsAre
  <2> QED BY <2>5, <2>6
<1>3. n \in S
  <2> HIDE DEF S
  <2>1. 0 .. n \subseteq S
    BY <1>1, <1>2, UpToInSet
  <2> QED BY <2>1
<1> QED BY <1>3

\* What is before i belongs before the pivot, what is behind j belongs after it.
PartedAt(d, l, r, asc, c, i, j) ==
  /\ i \in Int /\ j \in Int /\ l + 1 <= i /\ i <= j /\ j <= r
  /\ Within(d, c, l + 1, r)
  /\ \A k \in 1 .. Len(d) : /\ l + 1 <= k /\ k < i => Ascending(c[k], d[l], asc)
                            /\ j < k /\ k <= r => Ascending(d[l], c[k], asc)

LEMMA PartedCells ==
  ASSUME NEW d \in Seq(Int), NEW l \in 1 .. Len(d), NEW r \in 1 .. Len(d), NEW asc \in BOOLEAN,
         NEW c, NEW i, NEW j, PartedAt(d, l, r, asc, c, i, j)
  PROVE  /\ c \in Seq(Int) /\ Len(c) = Len(d) /\ Len(d) \in Nat
         /\ \A k \in 1 .. Len(d) : c[k] \in Int /\ d[k] \in Int
         /\ c[l] = d[l]
         /\ l \in Int /\ r \in Int /\ 1 <= l /\ r <= Len(d)
         /\ i \in Int /\ j \in Int /\ l + 1 <= i /\ i <= j /\ j <= r
<1>1. Within(d, c, l + 1, r)
  BY DEF PartedAt
<1>2. c \in Seq(Int) /\ Len(c) = Len(d) /\ Len(d) \in Nat
  BY <1>1 DEF Within
<1>3. c[l] = d[l]
  <2>1. l \notin l + 1 .. r /\ l + 1 \in Int /\ r \in Int
    OBVIOUS
  <2> QED BY <1>1, <2>1, WithinIs
<1>4. i \in Int /\ j \in Int /\ l + 1 <= i /\ i <= j /\ j <= r
  BY DEF PartedAt
<1>5. \A k \in 1 .. Len(d) : c[k] \in Int /\ d[k] \in Int
  BY <1>2, ElementOfSeq
<1> QED BY <1>2, <1>3, <1>4, <1>5

LEMMA PassedLeft ==
  ASSUME NEW d \in Seq(Int), NEW l \in 1 .. Len(d), NEW r \in 1 .. Len(d), NEW asc \in BOOLEAN,
         NEW c, NEW i, NEW j, PartedAt(d, l, r, asc, c, i, j), i < j, Ascending(c[i], d[l], asc)
  PROVE  PartedAt(d, l, r, asc, c, i + 1, j)
<1>1. i \in Int /\ j \in Int /\ l + 1 <= i /\ i <= j /\ j <= r /\ l \in Int
  BY PartedCells
<1>2. Within(d, c, l + 1, r)
  BY DEF PartedAt
<1>3. ASSUME NEW k \in 1 .. Len(d)
      PROVE  /\ l + 1 <= k /\ k < i + 1 => Ascending(c[k], d[l], asc)
             /\ j < k /\ k <= r => Ascending(d[l], c[k], asc)
  <2>1. k < i + 1 => k < i \/ k = i
    BY <1>1
  <2> QED BY <2>1 DEF PartedAt
<1>4. i + 1 \in Int /\ l + 1 <= i + 1 /\ i + 1 <= j
  BY <1>1
<1> QED BY <1>1, <1>2, <1>3, <1>4 DEF PartedAt

LEMMA PassedRight ==
  ASSUME NEW d \in Seq(Int), NEW l \in 1 .. Len(d), NEW r \in 1 .. Len(d), NEW asc \in BOOLEAN,
         NEW c, NEW i, NEW j, PartedAt(d, l, r, asc, c, i, j), i < j, ~Ascending(c[i], d[l], asc)
  PROVE  PartedAt(d, l, r, asc, Exchanged(c, i, j), i, j - 1)
<1> DEFINE e == Exchanged(c, i, j)
           L == Len(d)
<1>1. /\ i \in Int /\ j \in Int /\ l + 1 <= i /\ i <= j /\ j <= r /\ l \in Int /\ r \in Int
      /\ 1 <= l /\ r <= L /\ c \in Seq(Int) /\ Len(c) = L /\ L \in Nat
      /\ \A k \in 1 .. L : c[k] \in Int /\ d[k] \in Int
  BY PartedCells
<1>2. /\ Within(d, c, l + 1, r)
      /\ \A k \in 1 .. L : /\ l + 1 <= k /\ k < i => Ascending(c[k], d[l], asc)
                           /\ j < k /\ k <= r => Ascending(d[l], c[k], asc)
  BY DEF PartedAt
<1> HIDE DEF L
<1>3. i \in 1 .. L /\ j \in 1 .. L /\ i \in l + 1 .. r /\ j \in l + 1 .. r /\ l \in 1 .. L
  BY <1>1
<1>4. /\ e[i] = c[j] /\ e[j] = c[i] /\ \A k \in 1 .. L : k # i /\ k # j => e[k] = c[k]
  BY <1>1, <1>3, ExchangedIs
<1>5. Within(d, e, l + 1, r)
  <2>1. l + 1 \in Int /\ r \in Int /\ l + 1 <= l + 1 /\ r <= r
    BY <1>1
  <2>2. Within(c, e, l + 1, r)
    BY <1>1, <1>3, <2>1, WithinExchange
  <2> HIDE DEF e
  <2> QED BY <1>2, <2>1, <2>2, WithinTwice
<1> HIDE DEF e
<1>6. Ascending(d[l], c[i], asc)
  <2>1. d[l] \in Int /\ c[i] \in Int
    BY <1>1, <1>3
  <2> QED BY <2>1, AscendingOrders
<1>7. ASSUME NEW k \in 1 .. L
      PROVE  /\ l + 1 <= k /\ k < i => Ascending(e[k], d[l], asc)
             /\ j - 1 < k /\ k <= r => Ascending(d[l], e[k], asc)
  <2>1. CASE k < i
    <3>1. k # i /\ k # j /\ ~(j - 1 < k)
      BY <1>1, <2>1
    <3> QED BY <1>2, <1>4, <3>1
  <2>2. CASE k = j
    <3>1. e[k] = c[i] /\ ~(k < i)
      BY <1>1, <1>4, <2>2
    <3> QED BY <1>6, <3>1
  <2>3. CASE ~(k < i) /\ k # j
    <3>1. j - 1 < k => j < k /\ k # i
      BY <1>1, <2>3
    <3> QED BY <1>2, <1>4, <2>3, <3>1
  <2> QED BY <2>1, <2>2, <2>3
<1>8. j - 1 \in Int /\ i <= j - 1 /\ j - 1 <= r
  BY <1>1
<1> QED BY <1>1, <1>5, <1>7, <1>8 DEF PartedAt, L, e

\* After n turns.
Parted(d, l, r, asc, n, t) ==
  /\ t = [d |-> t.d, left |-> t.left, right |-> t.right]
  /\ PartedAt(d, l, r, asc, t.d, t.left, t.right)
  /\ t.right - t.left = (r - l - 1) - n

LEMMA PassedParts ==
  ASSUME NEW d \in Seq(Int), NEW l \in 1 .. Len(d), NEW r \in 1 .. Len(d), NEW asc \in BOOLEAN,
         NEW n \in Nat, NEW t, Parted(d, l, r, asc, n, t), n < r - l - 1
  PROVE  Parted(d, l, r, asc, n + 1, Passed(t, l, asc))
<1> DEFINE u == Passed(t, l, asc)
<1>1. /\ PartedAt(d, l, r, asc, t.d, t.left, t.right) /\ t.right - t.left = (r - l - 1) - n
      /\ t = [d |-> t.d, left |-> t.left, right |-> t.right]
  BY DEF Parted
<1>2. t.left \in Int /\ t.right \in Int /\ l \in Int /\ r \in Int /\ (t.d)[l] = d[l]
  <2>1. \A c, i, j : PartedAt(d, l, r, asc, c, i, j) =>
                       i \in Int /\ j \in Int /\ l \in Int /\ r \in Int /\ c[l] = d[l]
    BY PartedCells
  <2> QED BY <1>1, <2>1, Zenon
<1> DEFINE i == t.left
           j == t.right
<1>6. /\ i \in Int /\ j \in Int /\ l \in Int /\ r \in Int /\ j - i = (r - l - 1) - n
      /\ n \in Nat /\ n < r - l - 1
  BY <1>1, <1>2
<1>7. i < j /\ j - (i + 1) = (r - l - 1) - (n + 1) /\ (j - 1) - i = (r - l - 1) - (n + 1)
  <2> HIDE DEF i, j
  <2>1. i < j
    BY <1>6
  <2>2. j - (i + 1) = (r - l - 1) - (n + 1)
    BY <1>6
  <2>3. (j - 1) - i = (r - l - 1) - (n + 1)
    BY <1>6
  <2> QED BY <2>1, <2>2, <2>3
<1>3. t.left < t.right
  BY <1>7
<1>4. CASE Ascending((t.d)[t.left], d[l], asc)
  <2>1. u = [t EXCEPT !.left = t.left + 1]
    BY <1>2, <1>4 DEF Passed
  <2>2. u = [d |-> t.d, left |-> t.left + 1, right |-> t.right]
    BY <1>1, <2>1
  <2>3. PartedAt(d, l, r, asc, t.d, t.left + 1, t.right)
    BY <1>1, <1>3, <1>4, PassedLeft
  <2>4. t.right - (t.left + 1) = (r - l - 1) - (n + 1)
    BY <1>7
  <2> HIDE DEF u
  <2>5. u.d = t.d /\ u.left = t.left + 1 /\ u.right = t.right
    BY <2>2
  <2> QED BY <2>2, <2>3, <2>4, <2>5 DEF Parted, u
<1>5. CASE ~Ascending((t.d)[t.left], d[l], asc)
  <2> DEFINE e == Exchanged(t.d, t.left, t.right)
  <2>1. u = [t EXCEPT !.d = e, !.right = t.right - 1]
    BY <1>2, <1>5 DEF Passed
  <2>3. PartedAt(d, l, r, asc, e, t.left, t.right - 1)
    BY <1>1, <1>3, <1>5, PassedRight
  <2>4. (t.right - 1) - t.left = (r - l - 1) - (n + 1)
    BY <1>7
  <2> HIDE DEF u, e
  <2>2. u = [d |-> e, left |-> t.left, right |-> t.right - 1]
    BY <1>1, <2>1
  <2>5. u.d = e /\ u.left = t.left /\ u.right = t.right - 1
    BY <2>2
  <2> QED BY <2>2, <2>3, <2>4, <2>5 DEF Parted, u
<1> QED BY <1>4, <1>5

LEMMA PartitionParts ==
  ASSUME NEW d \in Seq(Int), NEW l \in 1 .. Len(d), NEW r \in 1 .. Len(d), NEW asc \in BOOLEAN, l < r
  PROVE  Parted(d, l, r, asc, r - l - 1, Partition(d, l, r, asc))
<1> DEFINE N == r - l - 1
           turn == CHOOSE f : TurnsAre(d, l, r, asc, N, f)
           S == {n \in 0 .. N : Parted(d, l, r, asc, n, turn[n])}
<1>1. N \in Nat
  OBVIOUS
<1>2. Partition(d, l, r, asc) = turn[N]
  BY DEF Partition, TurnsAre
<1>3. TurnsAre(d, l, r, asc, N, turn)
  BY <1>1, TurnsExist
<1> HIDE DEF turn, N
<1>4. \A k \in 0 .. N : turn[k] = IF k = 0 THEN [d |-> d, left |-> l + 1, right |-> r]
                                  ELSE Passed(turn[k - 1], l, asc)
  BY <1>3, Zenon DEF TurnsAre
<1>5. 0 \in S
  <2> DEFINE t == [d |-> d, left |-> l + 1, right |-> r]
  <2>1. turn[0] = t
    BY <1>1, <1>4
  <2>2. Within(d, d, l + 1, r)
    <3>1. l + 1 \in Int /\ r \in Int
      OBVIOUS
    <3> QED BY <3>1, WithinSame
  <2>3. t.d = d /\ t.left = l + 1 /\ t.right = r /\ t = [d |-> t.d, left |-> t.left, right |-> t.right]
    OBVIOUS
  <2> HIDE DEF t
  <2>4. /\ r - (l + 1) = (r - l - 1) - 0 /\ l + 1 <= l + 1 /\ l + 1 <= r /\ r <= r
        /\ l + 1 \in Int /\ r \in Int
    OBVIOUS
  <2>5. \A k \in 1 .. Len(d) : ~(l + 1 <= k /\ k < l + 1) /\ ~(r < k /\ k <= r)
    OBVIOUS
  <2>6. PartedAt(d, l, r, asc, d, l + 1, r)
    BY <2>2, <2>4, <2>5 DEF PartedAt
  <2>7. Parted(d, l, r, asc, 0, t)
    BY <2>3, <2>4, <2>6 DEF Parted
  <2> QED BY <1>1, <2>1, <2>7
<1>6. ASSUME NEW n \in 0 .. N - 1, n \in S PROVE n + 1 \in S
  <2>1. n + 1 \in 0 .. N /\ n + 1 # 0 /\ (n + 1) - 1 = n /\ n \in Nat /\ n < r - l - 1
    BY <1>1 DEF N
  <2>2. turn[n + 1] = Passed(turn[n], l, asc)
    BY <1>4, <2>1
  <2>3. Parted(d, l, r, asc, n + 1, turn[n + 1])
    BY <1>6, <2>1, <2>2, PassedParts
  <2> QED BY <2>1, <2>3
<1>7. N \in S
  <2> HIDE DEF S
  <2>1. 0 .. N \subseteq S
    BY <1>1, <1>5, <1>6, UpToInSet
  <2> QED BY <1>1, <2>1
<1> QED BY <1>2, <1>7 DEF N

-----------------------------------------------------------------------------
(***************************************************************************)
(* QSort.  A call takes the leftmost range that is left and splits it: no  *)
(* cell before the cut belongs after one behind it.                        *)
(***************************************************************************)
Split(d, size, c, asc) == \A k, h \in 1 .. size : k <= c /\ c < h => Ascending(d[k], d[h], asc)

\* What a call does with its range; center is where the pivot goes.
LEMMA CallSplits ==
  ASSUME NEW d \in Seq(Int), NEW l \in 1 .. Len(d), NEW r \in 1 .. Len(d), NEW asc \in BOOLEAN, l < r
  PROVE  LET p == Partition(d, l, r, asc)
             center == IF Ascending((p.d)[p.left], (p.d)[l], asc) THEN p.left ELSE p.left - 1
             e == Exchanged(p.d, l, center)
         IN  /\ p.left = p.right /\ p.left \in l + 1 .. r
             /\ Within(d, e, l, r)
             /\ \A k, h \in 1 .. Len(d) : l <= k /\ k < p.left /\ p.left <= h /\ h <= r
                                          => Ascending(e[k], e[h], asc)
<1> DEFINE p == Partition(d, l, r, asc)
           c == p.d
           q == p.left
           center == IF Ascending(c[q], c[l], asc) THEN q ELSE q - 1
           e == Exchanged(c, l, center)
           L == Len(d)
<1>1. Parted(d, l, r, asc, r - l - 1, p)
  BY PartitionParts
<1>2. PartedAt(d, l, r, asc, c, q, p.right) /\ p.right - q = (r - l - 1) - (r - l - 1)
  BY <1>1 DEF Parted
<1>3. /\ c \in Seq(Int) /\ Len(c) = L /\ L \in Nat /\ \A k \in 1 .. L : c[k] \in Int /\ d[k] \in Int
      /\ c[l] = d[l] /\ l \in Int /\ r \in Int /\ 1 <= l /\ r <= L
      /\ q \in Int /\ p.right \in Int /\ l + 1 <= q /\ q <= p.right /\ p.right <= r
  <2>1. \A x, i, j : PartedAt(d, l, r, asc, x, i, j) =>
          /\ x \in Seq(Int) /\ Len(x) = L /\ L \in Nat /\ \A k \in 1 .. L : x[k] \in Int /\ d[k] \in Int
          /\ x[l] = d[l] /\ l \in Int /\ r \in Int /\ 1 <= l /\ r <= L
          /\ i \in Int /\ j \in Int /\ l + 1 <= i /\ i <= j /\ j <= r
    BY PartedCells
  <2> HIDE DEF p
  <2> QED BY <1>2, <2>1, Zenon
<1> HIDE DEF p
<1>4. q = p.right /\ q \in l + 1 .. r
  <2> DEFINE j == p.right
  <2>1. q \in Int /\ j \in Int /\ r \in Int /\ l \in Int /\ j - q = (r - l - 1) - (r - l - 1) /\ l + 1 <= q /\ j <= r
    BY <1>2, <1>3
  <2> HIDE DEF j, q
  <2>2. q = j /\ q \in l + 1 .. r
    BY <2>1
  <2> QED BY <2>2 DEF j
<1>5. /\ Within(d, c, l + 1, r)
      /\ \A k \in 1 .. L : /\ l + 1 <= k /\ k < q => Ascending(c[k], c[l], asc)
                           /\ q < k /\ k <= r => Ascending(c[l], c[k], asc)
  BY <1>2, <1>3, <1>4, Zenon DEF PartedAt
<1>6. l \in Int /\ r \in Int /\ l + 1 \in Int /\ l <= l + 1 /\ r <= r /\ l <= l /\ l < r
  OBVIOUS
<1>20. center = IF Ascending(c[q], c[l], asc) THEN q ELSE q - 1
  OBVIOUS
<1> HIDE DEF c, q, L, center
<1>7. center \in l .. r /\ l \in l .. r /\ center \in 1 .. L /\ l \in 1 .. L /\ q \in 1 .. L /\ q - 1 \in 1 .. L
      /\ q - 1 < q
  <2>1. center = q \/ center = q - 1
    BY <1>20
  <2>2. /\ l \in Int /\ r \in Int /\ q \in Int /\ L \in Nat /\ 1 <= l /\ l + 1 <= q /\ q <= r /\ r <= L
    BY <1>3, <1>4, <1>6
  <2> HIDE DEF e
  <2>3. q \in 1 .. L /\ q - 1 \in 1 .. L /\ l \in 1 .. L /\ l \in l .. r /\ q - 1 < q
    BY <2>2
  <2>4. center \in l .. r
    BY <2>1, <2>2
  <2>5. center \in 1 .. L
    BY <2>1, <2>3
  <2> QED BY <2>3, <2>4, <2>5
<1>8. /\ e[l] = c[center] /\ e[center] = c[l] /\ \A k \in 1 .. L : k # l /\ k # center => e[k] = c[k]
  BY <1>3, <1>7, ExchangedIs
<1>9. Within(d, e, l, r)
  <2>1. Within(c, e, l, r)
    BY <1>3, <1>6, <1>7, WithinExchange
  <2>2. Within(d, d, l, r)
    BY <1>6, WithinSame
  <2>3. Within(d, c, l, r)
    BY <1>5, <1>6, <2>2, WithinTwice
  <2> HIDE DEF e
  <2> QED BY <1>6, <2>1, <2>3, WithinTwice
<1> HIDE DEF e
<1>10. c[l] \in Int /\ c[q] \in Int /\ \A k \in 1 .. L : c[k] \in Int
  BY <1>3, <1>7
<1>11. Ascending(c[l], c[l], asc)
  BY <1>10, AscendingOrders
<1>12. /\ \A k \in 1 .. L : l <= k /\ k < q => Ascending(e[k], c[l], asc)
       /\ \A k \in 1 .. L : q <= k /\ k <= r => Ascending(c[l], e[k], asc)
       /\ \A k \in 1 .. L : e[k] \in Int
  <2>1. CASE Ascending(c[q], c[l], asc)
    <3>1. center = q
      BY <1>20, <2>1
    <3>2. ASSUME NEW k \in 1 .. L, l <= k, k < q PROVE Ascending(e[k], c[l], asc)
      <4>1. CASE k = l
        BY <1>8, <2>1, <3>1, <4>1
      <4>2. CASE k # l
        <5>1. l + 1 <= k /\ k # q
          BY <1>3, <3>2, <4>2
        <5> QED BY <1>5, <1>8, <3>1, <3>2, <4>2, <5>1
      <4> QED BY <4>1, <4>2
    <3>3. ASSUME NEW k \in 1 .. L, q <= k, k <= r PROVE Ascending(c[l], e[k], asc)
      <4>1. CASE k = q
        BY <1>8, <1>11, <3>1, <4>1
      <4>2. CASE k # q
        <5>1. q < k /\ k # l
          BY <1>3, <3>3, <4>2
        <5> QED BY <1>5, <1>8, <3>1, <3>3, <4>2, <5>1
      <4> QED BY <4>1, <4>2
    <3>4. \A k \in 1 .. L : e[k] \in Int
      BY <1>7, <1>8, <1>10
    <3> QED BY <3>2, <3>3, <3>4
  <2>2. CASE ~Ascending(c[q], c[l], asc)
    <3>1. center = q - 1
      BY <1>20, <2>2
    <3>5. Ascending(c[l], c[q], asc)
      BY <1>10, <2>2, AscendingOrders
    <3>2. ASSUME NEW k \in 1 .. L, l <= k, k < q PROVE Ascending(e[k], c[l], asc)
      <4>1. CASE k = center
        BY <1>8, <1>11, <4>1
      <4>2. CASE k # center /\ k # l
        <5>1. l + 1 <= k
          BY <1>3, <3>2, <4>2
        <5> QED BY <1>5, <1>8, <3>2, <4>2, <5>1
      <4>3. CASE k # center /\ k = l
        <5>1. l + 1 <= center /\ center < q /\ e[k] = c[center]
          BY <1>3, <1>7, <1>8, <3>1, <4>3
        <5> QED BY <1>5, <1>7, <5>1
      <4> QED BY <4>1, <4>2, <4>3
    <3>3. ASSUME NEW k \in 1 .. L, q <= k, k <= r PROVE Ascending(c[l], e[k], asc)
      <4>1. k # l /\ k # center /\ (k = q \/ q < k)
        BY <1>3, <3>1, <3>3
      <4> QED BY <1>5, <1>8, <3>3, <3>5, <4>1
    <3>4. \A k \in 1 .. L : e[k] \in Int
      BY <1>7, <1>8, <1>10
    <3> QED BY <3>2, <3>3, <3>4
  <2> QED BY <2>1, <2>2
<1>13. \A k, h \in 1 .. L : l <= k /\ k < q /\ q <= h /\ h <= r => Ascending(e[k], e[h], asc)
  <2> SUFFICES ASSUME NEW k \in 1 .. L, NEW h \in 1 .. L, l <= k, k < q, q <= h, h <= r
               PROVE  Ascending(e[k], e[h], asc)
    OBVIOUS
  <2>1. Ascending(e[k], c[l], asc) /\ Ascending(c[l], e[h], asc) /\ e[k] \in Int /\ e[h] \in Int
    BY <1>12
  <2> QED BY <1>10, <2>1, AscendingOrders
<1>14. q = p.right /\ q \in l + 1 .. r
  BY <1>4
<1> QED BY <1>9, <1>13, <1>14 DEF p, c, q, center, e, L

LEMMA SplitWithin ==
  ASSUME NEW d, NEW e, NEW a \in Int, NEW b \in Int, Within(d, e, a, b), NEW asc \in BOOLEAN,
         NEW size \in Nat, size <= Len(d), NEW c \in Int, Split(d, size, c, asc),
         1 <= a, b <= size, c < a \/ b <= c
  PROVE  Split(e, size, c, asc)
<1>1. Len(d) \in Nat
  BY DEF Within
<1>2. ASSUME NEW k \in 1 .. size PROVE \E l \in 1 .. size : e[k] = d[l] /\ (l <= c <=> k <= c)
  <2>1. k \in 1 .. Len(d)
    BY <1>1
  <2>2. CASE k \notin a .. b
    <3>1. e[k] = d[k]
      BY <2>1, <2>2, WithinIs
    <3> QED BY <3>1
  <2>3. CASE k \in a .. b
    <3>1. PICK l \in 1 .. Len(d) : l \in a .. b /\ e[k] = d[l]
      BY <2>1, <2>3, WithinIs
    <3>2. l \in 1 .. size /\ (l <= c <=> k <= c)
      BY <1>1, <2>3, <3>1
    <3> QED BY <3>1, <3>2
  <2> QED BY <2>2, <2>3
<1>3. ASSUME NEW k \in 1 .. size, NEW h \in 1 .. size, k <= c, c < h PROVE Ascending(e[k], e[h], asc)
  <2>1. PICK i \in 1 .. size : e[k] = d[i] /\ (i <= c <=> k <= c)
    BY <1>2
  <2>2. PICK j \in 1 .. size : e[h] = d[j] /\ (j <= c <=> h <= c)
    BY <1>2
  <2>3. i <= c /\ c < j
    BY <1>3, <2>1, <2>2
  <2> QED BY <2>1, <2>2, <2>3 DEF Split
<1> QED BY <1>3 DEF Split

\* The ranges a sort has still to split, and the cuts still to make in them.
RangesOf(size) == {r \in (1 .. size) \X (1 .. size) : r[1] < r[2]}
Apart(R) == \A r, t \in R : r # t => r[2] < t[1] \/ t[2] < r[1]
CutsOf(R, size) == {c \in 1 .. size - 1 : \E r \in R : r[1] <= c /\ c < r[2]}

LEMMA RangeCut ==
  ASSUME NEW size \in Nat, NEW R \in SUBSET RangesOf(size), Apart(R), NEW r \in R,
         NEW q \in r[1] + 1 .. r[2]
  PROVE  LET halves == {<<r[1], q - 1>>, <<q, r[2]>>}
             T == (R \ {r}) \union {h \in halves : h[1] < h[2]}
         IN  /\ T \in SUBSET RangesOf(size) /\ Apart(T)
             /\ q - 1 \in CutsOf(R, size) /\ CutsOf(T, size) = CutsOf(R, size) \ {q - 1}
<1> DEFINE a == r[1]
           b == r[2]
           h1 == <<a, q - 1>>
           h2 == <<q, b>>
           T == (R \ {r}) \union {h \in {h1, h2} : h[1] < h[2]}
<1>1. a \in 1 .. size /\ b \in 1 .. size /\ a < b /\ r = <<a, b>>
  BY DEF RangesOf
<1>2. q \in Int /\ a + 1 <= q /\ q <= b /\ a \in Int /\ b \in Int /\ 1 <= a /\ b <= size
  BY <1>1
<1>3. h1[1] = a /\ h1[2] = q - 1 /\ h2[1] = q /\ h2[2] = b
  OBVIOUS
<1>4. /\ h1 \in (1 .. size) \X (1 .. size) /\ h2 \in (1 .. size) \X (1 .. size)
  BY <1>2
<1>5. \A t \in R : t[1] \in Int /\ t[2] \in Int /\ t[1] < t[2] /\ t \in RangesOf(size)
  BY DEF RangesOf
<1>6. \A t \in R : t # r => t[2] < a \/ b < t[1]
  BY DEF Apart
<1> HIDE DEF a, b, h1, h2
<1>7. \A t : t \in T <=> (t \in R /\ t # r) \/ (t = h1 /\ a < q - 1) \/ (t = h2 /\ q < b)
  BY <1>3
<1> HIDE DEF T
<1>8. T \in SUBSET RangesOf(size)
  <2> SUFFICES ASSUME NEW t \in T PROVE t \in RangesOf(size)
    OBVIOUS
  <2>1. CASE t \in R
    BY <2>1
  <2>2. CASE t = h1 /\ a < q - 1
    BY <1>3, <1>4, <2>2 DEF RangesOf
  <2>3. CASE t = h2 /\ q < b
    BY <1>3, <1>4, <2>3 DEF RangesOf
  <2> QED BY <1>7, <2>1, <2>2, <2>3
<1>9. Apart(T)
  <2> SUFFICES ASSUME NEW t \in T, NEW u \in T, t # u PROVE t[2] < u[1] \/ u[2] < t[1]
    BY DEF Apart
  <2>1. \A v : v \in R /\ v # r => /\ v[2] < h1[1] \/ h1[2] < v[1]
                                   /\ v[2] < h2[1] \/ h2[2] < v[1]
    BY <1>2, <1>3, <1>5, <1>6
  <2>2. h1[2] < h2[1]
    BY <1>2, <1>3
  <2>3. CASE t \in R /\ t # r /\ u \in R /\ u # r
    BY <2>3 DEF Apart
  <2>4. CASE ~(t \in R /\ t # r) /\ u \in R /\ u # r
    BY <1>7, <2>1, <2>4
  <2>5. CASE t \in R /\ t # r /\ ~(u \in R /\ u # r)
    BY <1>7, <2>1, <2>5
  <2>6. CASE ~(t \in R /\ t # r) /\ ~(u \in R /\ u # r)
    BY <1>7, <2>2, <2>6
  <2> QED BY <2>3, <2>4, <2>5, <2>6
<1>10. q - 1 \in CutsOf(R, size)
  <2>1. q - 1 \in 1 .. size - 1 /\ a <= q - 1 /\ q - 1 < b
    BY <1>2
  <2> QED BY <2>1 DEF CutsOf, a, b
<1>11. ASSUME NEW c \in 1 .. size - 1
       PROVE  (\E t \in T : t[1] <= c /\ c < t[2]) <=> (c # q - 1 /\ \E t \in R : t[1] <= c /\ c < t[2])
  <2>1. ASSUME NEW t \in T, t[1] <= c, c < t[2] PROVE c # q - 1 /\ \E v \in R : v[1] <= c /\ c < v[2]
    <3>1. CASE t \in R /\ t # r
      <4>1. t[2] < a \/ b < t[1]
        BY <1>6, <3>1
      <4>2. t[1] \in Int /\ t[2] \in Int
        BY <1>5, <3>1
      <4>3. c # q - 1
        BY <1>2, <2>1, <4>1, <4>2
      <4> QED BY <2>1, <3>1, <4>3
    <3>2. CASE t = h1 \/ t = h2
      <4>1. a <= c /\ c < b /\ c # q - 1
        BY <1>2, <1>3, <2>1, <3>2
      <4> QED BY <4>1 DEF a, b
    <3> QED BY <1>7, <3>1, <3>2
  <2>2. ASSUME NEW t \in R, t[1] <= c, c < t[2], c # q - 1 PROVE \E v \in T : v[1] <= c /\ c < v[2]
    <3>1. CASE t # r
      BY <1>7, <2>2, <3>1
    <3>2. CASE t = r
      <4>1. a <= c /\ c < b
        BY <2>2, <3>2 DEF a, b
      <4>2. CASE c < q - 1
        <5>1. h1 \in T /\ h1[1] <= c /\ c < h1[2]
          BY <1>2, <1>3, <1>7, <4>1, <4>2
        <5> QED BY <5>1
      <4>3. CASE q <= c
        <5>1. h2 \in T /\ h2[1] <= c /\ c < h2[2]
          BY <1>2, <1>3, <1>7, <4>1, <4>3
        <5> QED BY <5>1
      <4> QED BY <1>2, <2>2, <4>2, <4>3
    <3> QED BY <3>1, <3>2
  <2> QED BY <2>1, <2>2, Zenon
<1>12. CutsOf(T, size) = CutsOf(R, size) \ {q - 1}
  BY <1>11 DEF CutsOf
<1> QED BY <1>8, <1>9, <1>10, <1>12 DEF T, h1, h2, a, b

\* The cells of d0 after n calls.
Sorting(d0, size, asc, n, s) ==
  /\ Within(d0, s.d, 1, size)
  /\ s.ranges \in SUBSET RangesOf(size) /\ Apart(s.ranges)
  /\ Cardinality(CutsOf(s.ranges, size)) = (size - 1) - n
  /\ \A c \in 1 .. size - 1 : c \in CutsOf(s.ranges, size) \/ Split(s.d, size, c, asc)

LEMMA CallSorts ==
  ASSUME NEW d0, NEW size \in Nat, size <= Len(d0), NEW asc \in BOOLEAN, NEW n \in Nat, n < size - 1,
         NEW s, Sorting(d0, size, asc, n, s)
  PROVE  Sorting(d0, size, asc, n + 1, QSortCall(s, asc))
<1> DEFINE d == s.d
           R == s.ranges
           range == CHOOSE r \in R : \A other \in R : r[1] <= other[1]
           l == range[1]
           r == range[2]
           p == Partition(d, l, r, asc)
           center == IF Ascending((p.d)[p.left], (p.d)[l], asc) THEN p.left ELSE p.left - 1
           e == Exchanged(p.d, l, center)
           T == (R \ {range}) \union {h \in {<<l, p.left - 1>>, <<p.right, r>>} : h[1] < h[2]}
           u == QSortCall(s, asc)
<1>1. /\ Within(d0, d, 1, size) /\ R \in SUBSET RangesOf(size) /\ Apart(R)
      /\ Cardinality(CutsOf(R, size)) = (size - 1) - n
      /\ \A c \in 1 .. size - 1 : c \in CutsOf(R, size) \/ Split(d, size, c, asc)
  BY DEF Sorting
<1>2. u = [d |-> e, ranges |-> T]
  BY DEF QSortCall
<1>3. u.d = e /\ u.ranges = T
  <2> HIDE DEF u, e, T
  <2> QED BY <1>2
<1> HIDE DEF u
<1>4. d \in Seq(Int) /\ Len(d) = Len(d0) /\ Len(d0) \in Nat
  BY <1>1 DEF Within
<1> HIDE DEF d, R
<1>5. range \in R
  <2>1. R # {}
    <3> SUFFICES ASSUME R = {} PROVE FALSE
      OBVIOUS
    <3>1. CutsOf(R, size) = {}
      BY DEF CutsOf
    <3>2. Cardinality(CutsOf(R, size)) = 0
      BY <3>1, FS_EmptySet
    <3> QED BY <1>1, <3>2
  <2> DEFINE S == {k \in Nat : \E t \in R : t[1] = k}
  <2>2. \A t \in R : t[1] \in Nat
    BY <1>1 DEF RangesOf
  <2>3. PICK k \in S : \A m \in S : k <= m
    <3>1. S \in SUBSET Nat /\ S # {}
      BY <2>1, <2>2
    <3> HIDE DEF S
    <3> QED BY <3>1, LeastNatural
  <2>4. PICK t \in R : t[1] = k
    BY <2>3
  <2>5. \A other \in R : t[1] <= other[1]
    BY <2>2, <2>3, <2>4
  <2> QED BY <2>5
<1> HIDE DEF range
<1>6. l \in 1 .. size /\ r \in 1 .. size /\ l < r
  BY <1>1, <1>5 DEF RangesOf
<1> HIDE DEF l, r
<1>7. l \in 1 .. Len(d) /\ r \in 1 .. Len(d) /\ l \in Int /\ r \in Int /\ 1 <= l /\ r <= size
  BY <1>4, <1>6
<1>8. /\ p.left = p.right /\ p.left \in l + 1 .. r
      /\ Within(d, e, l, r)
      /\ \A k, h \in 1 .. Len(d) : l <= k /\ k < p.left /\ p.left <= h /\ h <= r
                                   => Ascending(e[k], e[h], asc)
  <2>1. l < r
    BY <1>6
  <2> HIDE DEF p
  <2> QED BY <1>4, <1>7, <2>1, CallSplits DEF p
<1> DEFINE q == p.left
<1>9. T = (R \ {range}) \union {h \in {<<l, q - 1>>, <<q, r>>} : h[1] < h[2]}
  BY <1>8
<1>10. q \in l + 1 .. r /\ Within(d, e, l, r)
       /\ \A k, h \in 1 .. Len(d) : l <= k /\ k < q /\ q <= h /\ h <= r => Ascending(e[k], e[h], asc)
  BY <1>8
<1> HIDE DEF T, q, e, p
<1>11. /\ T \in SUBSET RangesOf(size) /\ Apart(T)
       /\ q - 1 \in CutsOf(R, size) /\ CutsOf(T, size) = CutsOf(R, size) \ {q - 1}
  <2>1. q \in range[1] + 1 .. range[2]
    BY <1>10 DEF l, r
  <2> QED BY <1>1, <1>5, <1>9, <2>1, RangeCut DEF l, r
<1>12. Cardinality(CutsOf(T, size)) = (size - 1) - (n + 1)
  <2> DEFINE C == CutsOf(R, size)
  <2>1. IsFiniteSet(C)
    <3>1. C \subseteq 1 .. size - 1
      BY DEF CutsOf
    <3>2. IsFiniteSet(1 .. size - 1)
      BY FS_Interval
    <3> QED BY <3>1, <3>2, FS_Subset
  <2> HIDE DEF C
  <2>2. Cardinality(C \ {q - 1}) = Cardinality(C) - 1
    BY <1>11, <2>1, FS_RemoveElement DEF C
  <2> QED BY <1>1, <1>11, <2>2 DEF C
<1>13. Within(d0, e, 1, size)
  BY <1>1, <1>7, <1>10, WithinTwice
<1>14. q \in Int /\ l + 1 <= q /\ q <= r
  BY <1>7, <1>10
<1>15. ASSUME NEW c \in 1 .. size - 1, c \notin CutsOf(T, size) PROVE Split(e, size, c, asc)
  <2>1. CASE c \notin CutsOf(R, size)
    <3>1. Split(d, size, c, asc)
      BY <1>1, <2>1
    <3>2. c < l \/ r <= c
      BY <1>5, <1>7, <2>1 DEF CutsOf, l, r
    <3> QED BY <1>4, <1>7, <1>10, <3>1, <3>2, SplitWithin
  <2>2. CASE c = q - 1
    <3>1. ASSUME NEW k \in 1 .. size, NEW h \in 1 .. size, k <= c, c < h
          PROVE  Ascending(e[k], e[h], asc)
      <4>1. k \in 1 .. Len(d) /\ h \in 1 .. Len(d) /\ k < q /\ q <= h
        BY <1>4, <1>14, <2>2, <3>1
      <4>2. CASE l <= k /\ h <= r
        BY <1>10, <4>1, <4>2
      <4>3. CASE l <= k /\ r < h
        <5>1. r \in 1 .. size - 1
          BY <1>7, <3>1, <4>3
        <5>2. r \notin CutsOf(R, size)
          BY <1>1, <1>5, <1>7 DEF CutsOf, Apart, RangesOf, l, r
        <5>3. Split(d, size, r, asc)
          BY <1>1, <5>1, <5>2
        <5>4. Split(e, size, r, asc)
          BY <1>4, <1>7, <1>10, <5>3, SplitWithin
        <5>5. k <= r
          BY <1>7, <1>14, <4>1
        <5> QED BY <4>3, <5>4, <5>5 DEF Split
      <4>4. CASE k < l
        <5>0. l - 1 \in 1 .. size - 1 /\ k <= l - 1 /\ l - 1 < h
          BY <1>7, <1>14, <4>1, <4>4
        <5>2. l - 1 \notin CutsOf(R, size)
          BY <1>1, <1>5, <1>7 DEF CutsOf, Apart, RangesOf, l, r
        <5>3. Split(d, size, l - 1, asc)
          BY <1>1, <5>0, <5>2
        <5>4. Split(e, size, l - 1, asc)
          BY <1>4, <1>7, <1>10, <5>3, SplitWithin
        <5> QED BY <5>0, <5>4 DEF Split
      <4> QED BY <1>7, <4>1, <4>2, <4>3, <4>4
    <3> QED BY <3>1 DEF Split
  <2> QED BY <1>11, <1>15, <2>1, <2>2
<1> QED BY <1>3, <1>11, <1>12, <1>13, <1>15 DEF Sorting, u

CallsAre(d, size, asc, n, f) ==
  f = [k \in 0 .. n |-> IF k = 0 THEN [d |-> d, ranges |-> {<<1, size>>}] ELSE QSortCall(f[k - 1], asc)]

LEMMA CallsExist ==
  ASSUME NEW d, NEW size, NEW asc, NEW n \in Nat
  PROVE  \E f : CallsAre(d, size, asc, n, f)
<1> DEFINE first == [d |-> d, ranges |-> {<<1, size>>}]
           S == {m \in 0 .. n : \E f : CallsAre(d, size, asc, m, f)}
<1>1. 0 \in S
  <2> DEFINE f == [k \in 0 .. 0 |-> first]
  <2>1. f = [k \in 0 .. 0 |-> IF k = 0 THEN first ELSE QSortCall(f[k - 1], asc)]
    OBVIOUS
  <2> HIDE DEF f
  <2>2. CallsAre(d, size, asc, 0, f)
    BY <2>1 DEF CallsAre
  <2> QED BY <2>2
<1>2. ASSUME NEW m \in 0 .. n - 1, m \in S PROVE m + 1 \in S
  <2>1. PICK f : CallsAre(d, size, asc, m, f)
    BY <1>2
  <2> DEFINE g == [k \in 0 .. m + 1 |-> IF k = m + 1 THEN QSortCall(f[m], asc) ELSE f[k]]
  <2>2. \A k \in 0 .. m : f[k] = IF k = 0 THEN first ELSE QSortCall(f[k - 1], asc)
    BY <2>1, Zenon DEF CallsAre
  <2>3. ASSUME NEW k \in 0 .. m + 1 PROVE g[k] = IF k = 0 THEN first ELSE QSortCall(g[k - 1], asc)
    <3>1. CASE k = m + 1
      <4>1. k # 0 /\ k - 1 = m /\ k - 1 \in 0 .. m + 1 /\ k - 1 # m + 1
        BY <3>1
      <4>2. g[k] = QSortCall(f[m], asc) /\ g[k - 1] = f[m]
        BY <3>1, <4>1
      <4> HIDE DEF g
      <4> QED BY <4>1, <4>2
    <3>2. CASE k \in 0 .. m
      <4>1. g[k] = f[k]
        BY <3>2
      <4>2. k # 0 => k - 1 \in 0 .. m + 1 /\ k - 1 # m + 1
        BY <3>2
      <4>3. k # 0 => g[k - 1] = f[k - 1]
        BY <4>2
      <4> HIDE DEF g
      <4> QED BY <2>2, <3>2, <4>1, <4>3
    <3> QED BY <3>1, <3>2
  <2>4. g = [k \in 0 .. m + 1 |-> IF k = 0 THEN first ELSE QSortCall(g[k - 1], asc)]
    <3>1. g = [k \in 0 .. m + 1 |-> g[k]]
      OBVIOUS
    <3> HIDE DEF g
    <3> QED BY <2>3, <3>1
  <2>5. m + 1 \in 0 .. n
    OBVIOUS
  <2> HIDE DEF g
  <2>6. CallsAre(d, size, asc, m + 1, g)
    BY <2>4 DEF CallsAre
  <2> QED BY <2>5, <2>6
<1>3. n \in S
  <2> HIDE DEF S
  <2>1. 0 .. n \subseteq S
    BY <1>1, <1>2, UpToInSet
  <2> QED BY <2>1
<1> QED BY <1>3

LEMMA QSortSorts ==
  ASSUME NEW d \in Seq(Int), NEW size \in Nat, 1 < size, size <= Len(d), NEW asc \in BOOLEAN
  PROVE  LET e == QSort(d, size, asc)
         IN  Within(d, e, 1, size) /\ \A k, h \in 1 .. size : k < h => Ascending(e[k], e[h], asc)
<1> DEFINE N == size - 1
           call == CHOOSE f : CallsAre(d, size, asc, N, f)
           S == {n \in 0 .. N : Sorting(d, size, asc, n, call[n])}
           e == (call[N]).d
<1>1. N \in Nat
  OBVIOUS
<1>2. QSort(d, size, asc) = e
  BY DEF QSort, CallsAre
<1>3. CallsAre(d, size, asc, N, call)
  BY <1>1, CallsExist
<1> HIDE DEF call, N
<1>4. \A k \in 0 .. N : call[k] = IF k = 0 THEN [d |-> d, ranges |-> {<<1, size>>}]
                                  ELSE QSortCall(call[k - 1], asc)
  BY <1>3, Zenon DEF CallsAre
<1>5. 0 \in S
  <2> DEFINE s == [d |-> d, ranges |-> {<<1, size>>}]
             R == {<<1, size>>}
  <2>1. call[0] = s
    <3>1. 0 \in 0 .. N
      BY <1>1
    <3> QED BY <1>4, <3>1, Zenon
  <2>2. s.d = d /\ s.ranges = R
    OBVIOUS
  <2>3. Within(d, d, 1, size)
    <3>1. 1 \in Int /\ size \in Int
      OBVIOUS
    <3> QED BY <3>1, WithinSame, Zenon
  <2> HIDE DEF s
  <2>4. R \in SUBSET RangesOf(size) /\ Apart(R)
    BY DEF RangesOf, Apart
  <2>5. CutsOf(R, size) = 1 .. size - 1
    BY DEF CutsOf
  <2>6. Cardinality(1 .. size - 1) = (size - 1) - 0
    <3>1. Cardinality(1 .. N) = N
      BY <1>1, FS_Interval
    <3> QED BY <3>1 DEF N
  <2> HIDE DEF R
  <2>7. Sorting(d, size, asc, 0, s)
    BY <2>2, <2>3, <2>4, <2>5, <2>6 DEF Sorting
  <2> QED BY <1>1, <2>1, <2>7
<1>6. ASSUME NEW n \in 0 .. N - 1, n \in S PROVE n + 1 \in S
  <2>1. n + 1 \in 0 .. N /\ n + 1 # 0 /\ (n + 1) - 1 = n /\ n \in Nat /\ n < size - 1
    BY <1>1 DEF N
  <2>2. call[n + 1] = QSortCall(call[n], asc)
    BY <1>4, <2>1
  <2>3. Sorting(d, size, asc, n + 1, call[n + 1])
    BY <1>6, <2>1, <2>2, CallSorts
  <2> QED BY <2>1, <2>3
<1>7. N \in S
  <2> HIDE DEF S
  <2>1. 0 .. N \subseteq S
    BY <1>1, <1>5, <1>6, UpToInSet
  <2> QED BY <1>1, <2>1
<1>8. Sorting(d, size, asc, N, call[N])
  BY <1>7
<1> DEFINE R == (call[N]).ranges
<1>9. /\ Within(d, e, 1, size) /\ Cardinality(CutsOf(R, size)) = (size - 1) - N
      /\ \A c \in 1 .. size - 1 : c \in CutsOf(R, size) \/ Split(e, size, c, asc)
  BY <1>8 DEF Sorting
<1> HIDE DEF R, e
<1>10. CutsOf(R, size) = {}
  <2>1. CutsOf(R, size) \subseteq 1 .. size - 1 /\ IsFiniteSet(1 .. size - 1)
    BY FS_Interval DEF CutsOf
  <2>2. IsFiniteSet(CutsOf(R, size))
    BY <2>1, FS_Subset
  <2>3. Cardinality(CutsOf(R, size)) = 0
    BY <1>9 DEF N
  <2> QED BY <2>2, <2>3, FS_EmptySet
<1>11. ASSUME NEW k \in 1 .. size, NEW h \in 1 .. size, k < h PROVE Ascending(e[k], e[h], asc)
  <2>1. k \in 1 .. size - 1
    BY <1>11
  <2>2. Split(e, size, k, asc)
    BY <1>9, <1>10, <2>1
  <2> QED BY <1>11, <2>2 DEF Split
<1> QED BY <1>2, <1>9, <1>11

\* Straight cells: those of a queue that begins at cell 0, and of every other list.
Begins(m) == IsQueue(m) => m.queueHead = 0

LEMMA CellsStraight ==
  ASSUME NEW m \in Multilists, Fits(m, m.dataSize), Begins(m)
  PROVE  \A k \in 1 .. m.dataSize : CellOf(m, k - 1) + 1 = k /\ Shown(m)[k] = m.data[k]
<1>1. Len(m.data) \in Nat /\ m.dataSize \in Nat /\ m.dataSize <= Len(m.data)
  BY DEF Multilists, Fits
<1>2. ASSUME NEW k \in 1 .. m.dataSize PROVE CellOf(m, k - 1) + 1 = k
  <2>1. k \in Int /\ 1 <= k /\ k <= Len(m.data) /\ k - 1 < Len(m.data)
    BY <1>1
  <2>2. CASE ~IsQueue(m)
    BY <2>1, <2>2 DEF CellOf
  <2>3. CASE IsQueue(m)
    <3>1. m.queueHead = 0
      BY <2>3 DEF Begins
    <3>2. CellOf(m, k - 1) = k - 1
      BY <1>1, <2>1, <2>3, <3>1 DEF CellOf, allocationSize
    <3> QED BY <2>1, <3>2
  <2> QED BY <2>2, <2>3
<1>3. \A k \in 1 .. m.dataSize : Shown(m)[k] = m.data[CellOf(m, k - 1) + 1]
  BY ShownIs
<1> QED BY <1>2, <1>3

LEMMA SortedCellsSorts ==
  ASSUME NEW m, NEW list, Holds(m, list), Begins(m) \/ m.dataSize <= 1
  PROVE  LET r == SortedCells(m)
             t == Sorted(list, m.ascending)
         IN  /\ Holds(r, t) /\ Alike(r, m) /\ r.dataSize = m.dataSize /\ Len(r.data) = Len(m.data)
             /\ r.queueHead = m.queueHead /\ r.queueTail = m.queueTail /\ Sorts(t, m.ascending)
<1> DEFINE n == m.dataSize
           asc == m.ascending
           r == SortedCells(m)
           t == Sorted(list, asc)
<1>1. /\ m \in Multilists /\ Fits(m, n) /\ list \in Seq(Int) /\ Shown(m) = list
      /\ n \in Nat /\ asc \in BOOLEAN /\ m.data \in Seq(Int) /\ Len(m.data) \in Nat /\ n <= Len(m.data)
      /\ Len(list) = n
  <2>1. m \in Multilists /\ Fits(m, n) /\ list \in Seq(Int) /\ Shown(m) = list
    BY DEF Holds
  <2>2. n \in Nat /\ asc \in BOOLEAN /\ m.data \in Seq(Int) /\ Len(m.data) \in Nat /\ n <= Len(m.data)
    BY <2>1 DEF Multilists, Fits
  <2>3. Len(list) = n
    BY <2>1, ShownIs
  <2> QED BY <2>1, <2>2, <2>3
<1>2. CASE ~(n > 1)
  <2>1. r = m
    BY <1>2 DEF SortedCells
  <2>2. Sorts(list, asc)
    BY <1>1, <1>2 DEF Sorts
  <2>3. t = list
    BY <1>1, <2>2, ShuffledSame, SortedIs
  <2> HIDE DEF r, t
  <2> QED BY <1>1, <2>1, <2>2, <2>3 DEF Alike, r, t
<1>3. CASE n > 1
  <2> DEFINE e == QSort(m.data, n, asc)
             shown == [k \in 1 .. n |-> e[k]]
  <2>1. r = [m EXCEPT !.data = e]
    BY <1>3 DEF SortedCells
  <2>2. Within(m.data, e, 1, n) /\ \A k, h \in 1 .. n : k < h => Ascending(e[k], e[h], asc)
    <3>1. 1 < n
      BY <1>1, <1>3
    <3> HIDE DEF n, asc
    <3> QED BY <1>1, <3>1, QSortSorts
  <2> HIDE DEF e, r
  <2>3. e \in Seq(Int) /\ Len(e) = Len(m.data) /\ \A k \in 1 .. Len(m.data) : e[k] \in Int
    <3>1. e \in Seq(Int) /\ Len(e) = Len(m.data)
      BY <2>2 DEF Within
    <3> QED BY <3>1, ElementOfSeq
  <2>4. /\ r \in Multilists /\ r.data = e /\ r.dataSize = n /\ r.queueHead = m.queueHead
        /\ r.queueTail = m.queueTail /\ Alike(r, m)
    BY <1>1, <2>1, <2>3 DEF Multilists, Alike
  <2>5. Begins(m) /\ Begins(r)
    BY <1>1, <1>3, <2>4 DEF Begins, Alike, IsQueue
  <2>6. Fits(r, n)
    BY <1>1, <2>3, <2>4 DEF Fits, Alike, IsQueue
  <2>7. \A k \in 1 .. n : list[k] = m.data[k]
    BY <1>1, <2>5, CellsStraight
  <2>8. Shown(r) \in Seq(Int) /\ Len(Shown(r)) = n /\ \A k \in 1 .. n : Shown(r)[k] = e[k]
    BY <2>4, <2>5, <2>6, CellsStraight, ShownIs
  <2>9. Sorts(Shown(r), asc)
    BY <2>2, <2>8 DEF Sorts
  <2>10. Shuffled(Int, Shown(r), list)
    <3>1. PICK p : MovedBy(m.data, e, p, 1, n)
      BY <2>2 DEF Within
    <3> DEFINE q == [k \in 1 .. n |-> p[k]]
    <3>2. \A k \in 1 .. n : k \in 1 .. Len(m.data) /\ k \in 1 .. n
      BY <1>1
    <3>3. /\ \A k \in 1 .. n : p[k] \in 1 .. n
          /\ \A i, j \in 1 .. n : p[i] = p[j] => i = j
          /\ \A k \in 1 .. n : e[k] = m.data[p[k]]
      BY <3>1, <3>2 DEF MovedBy, ShuffledBy, Injects
    <3>4. q \in [1 .. n -> 1 .. n] /\ \A k \in 1 .. n : q[k] = p[k]
      BY <3>3
    <3> HIDE DEF q
    <3>5. Injects(q, n)
      BY <3>3, <3>4 DEF Injects
    <3>6. ASSUME NEW k \in 1 .. n PROVE Shown(r)[k] = list[q[k]]
      <4>1. Shown(r)[k] = e[k] /\ e[k] = m.data[p[k]] /\ q[k] = p[k] /\ p[k] \in 1 .. n
        BY <2>8, <3>3, <3>4, Zenon
      <4>2. list[p[k]] = m.data[p[k]]
        BY <2>7, <4>1, Zenon
      <4> QED BY <4>1, <4>2, Zenon
    <3>7. ShuffledBy(Shown(r), list, q)
      BY <1>1, <3>5, <3>6 DEF ShuffledBy
    <3> QED BY <1>1, <2>8, <3>7 DEF Shuffled
  <2>11. t = Shown(r)
    BY <1>1, <2>9, <2>10, SortedIs
  <2> HIDE DEF t
  <2>12. Holds(r, t)
    BY <2>4, <2>6, <2>8, <2>11 DEF Holds
  <2> QED BY <2>3, <2>4, <2>9, <2>11, <2>12 DEF t, r
<1> QED BY <1>2, <1>3

\* Every list can be sorted.
LEMMA SortedSorts ==
  ASSUME NEW list \in Seq(Int), NEW asc \in BOOLEAN
  PROVE  Sorted(list, asc) \in Seq(Int) /\ Sorts(Sorted(list, asc), asc)
<1> DEFINE m == [data |-> list, dataSize |-> Len(list), queueHead |-> 0, queueTail |-> 0,
                 preallocationSize |-> 0, sorted |-> FALSE, ascending |-> asc, type |-> "unordered"]
<1>1. /\ m.data = list /\ m.dataSize = Len(list) /\ m.ascending = asc /\ m.type = "unordered"
      /\ Len(list) \in Nat
  OBVIOUS
<1>2. m \in Multilists
  BY DEF Multilists, Types
<1> HIDE DEF m
<1>3. Fits(m, m.dataSize) /\ Begins(m)
  BY <1>1 DEF Fits, Begins, IsQueue
<1>4. Shown(m) = list
  BY <1>1, <1>2, <1>3, CellsStraight, ShownIs, SeqEqual
<1>5. Holds(m, list)
  BY <1>2, <1>3, <1>4 DEF Holds
<1>6. Holds(SortedCells(m), Sorted(list, m.ascending)) /\ Sorts(Sorted(list, m.ascending), m.ascending)
  BY <1>3, <1>5, SortedCellsSorts
<1> QED BY <1>1, <1>6 DEF Holds

-----------------------------------------------------------------------------
(***************************************************************************)
(* The searches: of a key, and FindIntersection's of two lists.            *)
(***************************************************************************)
Finds(m, list, x) ==
  IF x \in ToSet(list) THEN list[IndexOfKey(m, x) + 1] = x ELSE IndexOfKey(m, x) = -1

LEMMA KeyFound ==
  ASSUME NEW m, NEW list, Holds(m, list), RightOrder(m, list), NEW x \in Int
  PROVE  Finds(m, list, x)
<1> DEFINE n == Len(list)
           index == IndexOfKey(m, x)
<1>1. list \in Seq(Int) /\ Shown(m) = list /\ m \in Multilists /\ n \in Nat
  BY DEF Holds
<1>2. x \in ToSet(list) <=> \E k \in 1 .. n : list[k] = x
  BY <1>1 DEF ToSet
<1>3. CASE KeepsOrder(m)
  <2> DEFINE r == Place(m, x)
  <2>1. PlaceIn(list, x, m.ascending, r)
    BY <1>3, PlaceFinds DEF RightOrder
  <2>2. index = IF r.exists THEN r.index ELSE -1
    BY <1>3 DEF IndexOfKey
  <2> HIDE DEF r, index
  <2>3. CASE r.exists
    <3>1. r.index \in 0 .. n /\ r.index < n /\ list[r.index + 1] = x
      BY <2>1, <2>3 DEF PlaceIn
    <3>2. r.index + 1 \in 1 .. n
      BY <1>1, <3>1
    <3> QED BY <1>2, <2>2, <2>3, <3>1, <3>2 DEF Finds, index
  <2>4. CASE ~r.exists
    <3>1. \A k \in 1 .. n : list[k] # x
      BY <2>1, <2>4 DEF PlaceIn
    <3> QED BY <1>2, <2>2, <2>4, <3>1 DEF Finds, index
  <2> QED BY <2>3, <2>4
<1>4. CASE ~KeepsOrder(m)
  <2> DEFINE places == {k \in 1 .. n : list[k] = x}
             first == CHOOSE k \in places : \A l \in places : k <= l
  <2>1. index = IF places = {} THEN -1 ELSE first - 1
    BY <1>1, <1>4 DEF IndexOfKey, FirstOf
  <2> HIDE DEF index
  <2>2. CASE places = {}
    <3>1. ~(x \in ToSet(list))
      BY <1>2, <2>2
    <3> QED BY <2>1, <2>2, <3>1 DEF Finds, index
  <2>3. CASE places # {}
    <3>1. \E k \in places : \A l \in places : k <= l
      <4>1. places \in SUBSET Nat
        OBVIOUS
      <4> HIDE DEF places
      <4> QED BY <2>3, <4>1, LeastNatural
    <3>2. first \in places
      <4> HIDE DEF places
      <4> QED BY <3>1
    <3> HIDE DEF first
    <3>3. first \in 1 .. n /\ list[first] = x /\ (first - 1) + 1 = first
      BY <3>2
    <3>4. x \in ToSet(list) /\ index = first - 1
      BY <1>2, <2>1, <2>3, <3>3
    <3> QED BY <3>3, <3>4 DEF Finds, index
  <2> QED BY <2>2, <2>3
<1> QED BY <1>3, <1>4

\* How often the first n items are x.
CountTo(items, n, x) == Cardinality({k \in 1 .. n : items[k] = x})

LEMMA CountOneMore ==
  ASSUME NEW items, NEW n \in Nat, NEW x
  PROVE  /\ CountTo(items, n, x) \in Nat
         /\ CountTo(items, n + 1, x) = IF items[n + 1] = x THEN CountTo(items, n, x) + 1
                                       ELSE CountTo(items, n, x)
<1> DEFINE S == {k \in 1 .. n : items[k] = x}
           T == {k \in 1 .. n + 1 : items[k] = x}
<1>1. IsFiniteSet(S) /\ Cardinality(S) \in Nat
  <2>1. S \subseteq 1 .. n /\ IsFiniteSet(1 .. n)
    BY FS_Interval
  <2> HIDE DEF S
  <2>2. IsFiniteSet(S)
    BY <2>1, FS_Subset
  <2> QED BY <2>2, FS_CardinalityType
<1>2. CASE items[n + 1] = x
  <2>1. T = S \union {n + 1} /\ n + 1 \notin S
    BY <1>2
  <2> HIDE DEF S, T
  <2>2. Cardinality(T) = Cardinality(S) + 1
    BY <1>1, <2>1, FS_AddElement
  <2> QED BY <1>1, <1>2, <2>2 DEF CountTo, S, T
<1>3. CASE items[n + 1] # x
  <2>1. T = S
    BY <1>3
  <2> HIDE DEF S, T
  <2> QED BY <1>1, <1>3, <2>1 DEF CountTo, S, T
<1> QED BY <1>2, <1>3

LEMMA CountAppended ==
  ASSUME NEW s \in Seq(Int), NEW y \in Int, NEW x
  PROVE  /\ Append(s, y) \in Seq(Int) /\ Count(s, x) \in Nat
         /\ Count(Append(s, y), x) = IF y = x THEN Count(s, x) + 1 ELSE Count(s, x)
<1> DEFINE t == Append(s, y)
           n == Len(s)
<1>1. t \in Seq(Int) /\ Len(t) = n + 1 /\ n \in Nat /\ t[n + 1] = y /\ \A k \in 1 .. n : t[k] = s[k]
  BY AppendProperties
<1>2. Count(s, x) = CountTo(s, n, x)
  BY DEF Count, CountTo
<1> HIDE DEF t, n
<1>3. Count(t, x) = CountTo(t, n + 1, x)
  BY <1>1 DEF Count, CountTo
<1>4. CountTo(t, n, x) = CountTo(s, n, x)
  BY <1>1 DEF CountTo
<1>5. /\ CountTo(t, n, x) \in Nat
      /\ CountTo(t, n + 1, x) = IF t[n + 1] = x THEN CountTo(t, n, x) + 1 ELSE CountTo(t, n, x)
  BY <1>1, CountOneMore
<1> QED BY <1>1, <1>2, <1>3, <1>4, <1>5 DEF t

\* i items of a and j of b are compared: s is in both, u only in a, v only in b.
ComparedAt(a, b, i, j, s, u, v) ==
  /\ i \in 0 .. Len(a) /\ j \in 0 .. Len(b) /\ s \in Seq(Int) /\ u \in Seq(Int) /\ v \in Seq(Int)
  /\ \A x \in Int : /\ Count(s, x) + Count(u, x) = CountTo(a, i, x)
                    /\ Count(s, x) + Count(v, x) = CountTo(b, j, x)
  /\ \A x \in Int : /\ Count(u, x) > 0 => \A k \in j + 1 .. Len(b) : x < b[k]
                    /\ Count(v, x) > 0 => \A k \in i + 1 .. Len(a) : x < a[k]
                    /\ Count(u, x) = 0 \/ Count(v, x) = 0

LEMMA ComparedBack ==
  ASSUME NEW a, NEW b, NEW i, NEW j, NEW s, NEW u, NEW v, ComparedAt(a, b, i, j, s, u, v)
  PROVE  ComparedAt(b, a, j, i, s, v, u)
  BY Zenon DEF ComparedAt

LEMMA TakenFromOne ==
  ASSUME NEW a \in Seq(Int), NEW b \in Seq(Int), Sorts(b, TRUE), NEW i, NEW j, NEW s, NEW u, NEW v,
         ComparedAt(a, b, i, j, s, u, v), i < Len(a), j < Len(b) => a[i + 1] < b[j + 1]
  PROVE  ComparedAt(a, b, i + 1, j, s, Append(u, a[i + 1]), v)
<1> DEFINE y == a[i + 1]
           w == Append(u, y)
<1>1. /\ Len(a) \in Nat /\ Len(b) \in Nat /\ i \in Nat /\ j \in Nat /\ i < Len(a) /\ j <= Len(b)
      /\ i + 1 \in 1 .. Len(a) /\ s \in Seq(Int) /\ u \in Seq(Int) /\ v \in Seq(Int)
  BY DEF ComparedAt
<1>2. y \in Int /\ \A k \in 1 .. Len(b) : b[k] \in Int
  BY <1>1, ElementOfSeq
<1>3. j < Len(b) => y < b[j + 1]
  OBVIOUS
<1>20. y = a[i + 1]
  OBVIOUS
<1> HIDE DEF y
<1>4. w \in Seq(Int) /\ \A x \in Int : /\ Count(u, x) \in Nat /\ Count(v, x) \in Nat /\ Count(s, x) \in Nat
                                       /\ Count(w, x) = IF y = x THEN Count(u, x) + 1 ELSE Count(u, x)
  BY <1>1, <1>2, CountAppended
<1> HIDE DEF w
<1>5. ASSUME NEW x \in Int
      PROVE  /\ Count(s, x) + Count(w, x) = CountTo(a, i + 1, x)
             /\ Count(s, x) + Count(v, x) = CountTo(b, j, x)
  <2>1. Count(s, x) + Count(u, x) = CountTo(a, i, x) /\ Count(s, x) + Count(v, x) = CountTo(b, j, x)
    BY DEF ComparedAt
  <2>2. CountTo(a, i + 1, x) = IF a[i + 1] = x THEN CountTo(a, i, x) + 1 ELSE CountTo(a, i, x)
    BY <1>1, CountOneMore
  <2>3. Count(u, x) \in Nat /\ Count(s, x) \in Nat /\ Count(w, x) = IF y = x THEN Count(u, x) + 1 ELSE Count(u, x)
    BY <1>4
  <2> QED BY <1>20, <2>1, <2>2, <2>3
<1>6. \A k \in j + 1 .. Len(b) : y < b[k]
  <2> SUFFICES ASSUME NEW k \in j + 1 .. Len(b) PROVE y < b[k]
    OBVIOUS
  <2>0. k \in Int /\ j + 1 <= k /\ k <= Len(b)
    BY <1>1
  <2>1. j < Len(b) /\ j + 1 \in 1 .. Len(b) /\ k \in 1 .. Len(b) /\ (k = j + 1 \/ j + 1 < k)
    BY <1>1, <2>0
  <2>2. b[j + 1] <= b[k]
    <3>1. CASE k = j + 1
      BY <1>2, <2>1, <3>1
    <3>2. CASE j + 1 < k
      BY <2>1, <3>2 DEF Sorts, Ascending
    <3> QED BY <2>1, <3>1, <3>2
  <2>3. y < b[j + 1] /\ b[j + 1] \in Int /\ b[k] \in Int
    BY <1>2, <1>3, <2>1
  <2> QED BY <1>2, <2>2, <2>3
<1>7. ASSUME NEW x \in Int
      PROVE  /\ Count(w, x) > 0 => \A k \in j + 1 .. Len(b) : x < b[k]
             /\ Count(v, x) > 0 => \A k \in (i + 1) + 1 .. Len(a) : x < a[k]
             /\ Count(w, x) = 0 \/ Count(v, x) = 0
  <2>1. /\ Count(u, x) > 0 => \A k \in j + 1 .. Len(b) : x < b[k]
        /\ Count(v, x) > 0 => \A k \in i + 1 .. Len(a) : x < a[k]
        /\ Count(u, x) = 0 \/ Count(v, x) = 0
    BY DEF ComparedAt
  <2>2. Count(u, x) \in Nat /\ Count(v, x) \in Nat /\ Count(w, x) = IF y = x THEN Count(u, x) + 1 ELSE Count(u, x)
    BY <1>4
  <2>3. \A k \in (i + 1) + 1 .. Len(a) : k \in i + 1 .. Len(a)
    BY <1>1
  <2>4. i + 1 \in i + 1 .. Len(a)
    BY <1>1
  <2>5. CASE y = x
    <3>1. ~(Count(v, x) > 0)
      <4> SUFFICES ASSUME Count(v, x) > 0 PROVE FALSE
        OBVIOUS
      <4>1. x < a[i + 1]
        BY <2>1, <2>4, Zenon
      <4>2. a[i + 1] = x
        BY <1>20, <2>5
      <4> QED BY <4>1, <4>2
    <3> QED BY <1>6, <2>2, <2>5, <3>1
  <2>6. CASE y # x
    BY <2>1, <2>2, <2>3, <2>6
  <2> QED BY <2>5, <2>6
<1>8. i + 1 \in 0 .. Len(a) /\ j \in 0 .. Len(b)
  BY <1>1
<1> QED BY <1>1, <1>4, <1>5, <1>7, <1>8 DEF ComparedAt, w, y

NextIs(items, n, y) == items[n + 1] = y

LEMMA CountBothMore ==
  ASSUME NEW a, NEW b, NEW i \in Nat, NEW j \in Nat, NEW y, NextIs(a, i, y), NextIs(b, j, y), NEW x
  PROVE  /\ CountTo(a, i + 1, x) = IF y = x THEN CountTo(a, i, x) + 1 ELSE CountTo(a, i, x)
         /\ CountTo(b, j + 1, x) = IF y = x THEN CountTo(b, j, x) + 1 ELSE CountTo(b, j, x)
<1>1. /\ CountTo(a, i + 1, x) = IF a[i + 1] = x THEN CountTo(a, i, x) + 1 ELSE CountTo(a, i, x)
      /\ CountTo(b, j + 1, x) = IF b[j + 1] = x THEN CountTo(b, j, x) + 1 ELSE CountTo(b, j, x)
  BY CountOneMore
<1> QED BY <1>1 DEF NextIs

LEMMA TakenFromBoth ==
  ASSUME NEW a \in Seq(Int), NEW b \in Seq(Int), NEW i, NEW j, NEW s, NEW u, NEW v,
         ComparedAt(a, b, i, j, s, u, v), i < Len(a), j < Len(b),
         NEW y, NextIs(a, i, y), NextIs(b, j, y)
  PROVE  ComparedAt(a, b, i + 1, j + 1, Append(s, y), u, v)
<1> DEFINE w == Append(s, y)
<1>1. /\ Len(a) \in Nat /\ Len(b) \in Nat /\ i \in Nat /\ j \in Nat /\ i < Len(a) /\ j < Len(b)
      /\ i + 1 \in 1 .. Len(a) /\ s \in Seq(Int) /\ u \in Seq(Int) /\ v \in Seq(Int)
  BY DEF ComparedAt
<1>2. y \in Int
  BY <1>1, ElementOfSeq DEF NextIs
<1>4. w \in Seq(Int) /\ \A x \in Int : /\ Count(u, x) \in Nat /\ Count(v, x) \in Nat /\ Count(s, x) \in Nat
                                       /\ Count(w, x) = IF y = x THEN Count(s, x) + 1 ELSE Count(s, x)
  BY <1>1, <1>2, CountAppended
<1> HIDE DEF w
<1>5. ASSUME NEW x \in Int
      PROVE  /\ Count(w, x) + Count(u, x) = CountTo(a, i + 1, x)
             /\ Count(w, x) + Count(v, x) = CountTo(b, j + 1, x)
  <2>1. Count(s, x) + Count(u, x) = CountTo(a, i, x) /\ Count(s, x) + Count(v, x) = CountTo(b, j, x)
    BY DEF ComparedAt
  <2>2. /\ CountTo(a, i + 1, x) = IF y = x THEN CountTo(a, i, x) + 1 ELSE CountTo(a, i, x)
        /\ CountTo(b, j + 1, x) = IF y = x THEN CountTo(b, j, x) + 1 ELSE CountTo(b, j, x)
    <3>1. i \in Nat /\ j \in Nat
      BY <1>1
    <3> QED BY <3>1, CountBothMore
  <2>3. /\ Count(u, x) \in Nat /\ Count(v, x) \in Nat /\ Count(s, x) \in Nat
        /\ Count(w, x) = IF y = x THEN Count(s, x) + 1 ELSE Count(s, x)
    BY <1>4
  <2>4. CASE y = x
    <3>1. CountTo(a, i + 1, x) = CountTo(a, i, x) + 1 /\ CountTo(b, j + 1, x) = CountTo(b, j, x) + 1
      BY <2>2, <2>4
    <3>2. Count(w, x) = Count(s, x) + 1
      BY <2>3, <2>4
    <3>5. \A p, q, t \in Nat : t = p + 1 => t + q = (p + q) + 1
      OBVIOUS
    <3>6. Count(u, x) \in Nat /\ Count(v, x) \in Nat /\ Count(s, x) \in Nat /\ Count(s, x) + 1 \in Nat
      BY <2>3
    <3>3. Count(w, x) + Count(u, x) = (Count(s, x) + Count(u, x)) + 1
      BY <3>2, <3>5, <3>6, Zenon
    <3>4. Count(w, x) + Count(v, x) = (Count(s, x) + Count(v, x)) + 1
      BY <3>2, <3>5, <3>6, Zenon
    <3> QED BY <2>1, <3>1, <3>3, <3>4, Zenon
  <2>5. CASE y # x
    <3>1. CountTo(a, i + 1, x) = CountTo(a, i, x) /\ CountTo(b, j + 1, x) = CountTo(b, j, x)
      BY <2>2, <2>5
    <3>2. Count(w, x) = Count(s, x)
      BY <2>3, <2>5
    <3> QED BY <2>1, <3>1, <3>2
  <2> QED BY <2>4, <2>5
<1>6. ASSUME NEW x \in Int
      PROVE  /\ Count(u, x) > 0 => \A k \in (j + 1) + 1 .. Len(b) : x < b[k]
             /\ Count(v, x) > 0 => \A k \in (i + 1) + 1 .. Len(a) : x < a[k]
             /\ Count(u, x) = 0 \/ Count(v, x) = 0
  <2>1. /\ Count(u, x) > 0 => \A k \in j + 1 .. Len(b) : x < b[k]
        /\ Count(v, x) > 0 => \A k \in i + 1 .. Len(a) : x < a[k]
        /\ Count(u, x) = 0 \/ Count(v, x) = 0
    BY DEF ComparedAt
  <2>2. /\ \A k \in (i + 1) + 1 .. Len(a) : k \in i + 1 .. Len(a)
        /\ \A k \in (j + 1) + 1 .. Len(b) : k \in j + 1 .. Len(b)
    BY <1>1
  <2> QED BY <2>1, <2>2
<1>7. i + 1 \in 0 .. Len(a) /\ j + 1 \in 0 .. Len(b)
  BY <1>1
<1> QED BY <1>1, <1>4, <1>5, <1>6, <1>7 DEF ComparedAt, w

\* The turns of FindIntersection's loops.
ComparisonsAre(a, b, n, f) ==
  f = [k \in 0 .. n |->
         IF k = 0 THEN [index1 |-> 0, index2 |-> 0, intersection |-> << >>,
                        uniqueToSource1 |-> << >>, uniqueToSource2 |-> << >>]
         ELSE ComparedOnce(a, b, f[k - 1])]
Comparisons == [index1 : Int, index2 : Int, intersection : Seq(Int),
                uniqueToSource1 : Seq(Int), uniqueToSource2 : Seq(Int)]
ComparedFor(a, b, c) ==
  ComparedAt(a, b, c.index1, c.index2, c.intersection, c.uniqueToSource1, c.uniqueToSource2)
Comparing(a, b, n, c) ==
  /\ c \in Comparisons /\ ComparedFor(a, b, c)
  /\ c.index1 + c.index2 >= n \/ (c.index1 = Len(a) /\ c.index2 = Len(b))

LEMMA FromIs ==
  ASSUME NEW a, NEW b, NEW c \in Comparisons
  PROVE  /\ a[c.index1 + 1] \in Int =>
              LET r == FromSource1(a, c)
              IN  /\ r \in Comparisons
                  /\ r.index1 = c.index1 + 1 /\ r.index2 = c.index2 /\ r.intersection = c.intersection
                  /\ r.uniqueToSource1 = Append(c.uniqueToSource1, a[c.index1 + 1])
                  /\ r.uniqueToSource2 = c.uniqueToSource2
         /\ b[c.index2 + 1] \in Int =>
              LET r == FromSource2(b, c)
              IN  /\ r \in Comparisons
                  /\ r.index1 = c.index1 /\ r.index2 = c.index2 + 1 /\ r.intersection = c.intersection
                  /\ r.uniqueToSource1 = c.uniqueToSource1
                  /\ r.uniqueToSource2 = Append(c.uniqueToSource2, b[c.index2 + 1])
         /\ a[c.index1 + 1] \in Int =>
              LET r == FromBoth(a, c)
              IN  /\ r \in Comparisons
                  /\ r.index1 = c.index1 + 1 /\ r.index2 = c.index2 + 1
                  /\ r.intersection = Append(c.intersection, a[c.index1 + 1])
                  /\ r.uniqueToSource1 = c.uniqueToSource1 /\ r.uniqueToSource2 = c.uniqueToSource2
<1>1. /\ c.index1 \in Int /\ c.index2 \in Int /\ c.intersection \in Seq(Int)
      /\ c.uniqueToSource1 \in Seq(Int) /\ c.uniqueToSource2 \in Seq(Int)
  BY DEF Comparisons
<1>2. c.index1 + 1 \in Int /\ c.index2 + 1 \in Int
  BY <1>1
<1>3. ASSUME a[c.index1 + 1] \in Int
      PROVE  LET r == FromSource1(a, c)
             IN  /\ r \in Comparisons
                 /\ r.index1 = c.index1 + 1 /\ r.index2 = c.index2 /\ r.intersection = c.intersection
                 /\ r.uniqueToSource1 = Append(c.uniqueToSource1, a[c.index1 + 1])
                 /\ r.uniqueToSource2 = c.uniqueToSource2
  <2> DEFINE y == Append(c.uniqueToSource1, a[c.index1 + 1])
  <2>1. y \in Seq(Int)
    BY <1>1, <1>3
  <2>2. FromSource1(a, c) = [c EXCEPT !.index1 = c.index1 + 1, !.uniqueToSource1 = y]
    BY DEF FromSource1
  <2> HIDE DEF y
  <2>3. QED BY <1>2, <2>1, <2>2 DEF Comparisons, y
<1>4. ASSUME b[c.index2 + 1] \in Int
      PROVE  LET r == FromSource2(b, c)
             IN  /\ r \in Comparisons
                 /\ r.index1 = c.index1 /\ r.index2 = c.index2 + 1 /\ r.intersection = c.intersection
                 /\ r.uniqueToSource1 = c.uniqueToSource1
                 /\ r.uniqueToSource2 = Append(c.uniqueToSource2, b[c.index2 + 1])
  <2> DEFINE y == Append(c.uniqueToSource2, b[c.index2 + 1])
  <2>1. y \in Seq(Int)
    BY <1>1, <1>4
  <2>2. FromSource2(b, c) = [c EXCEPT !.index2 = c.index2 + 1, !.uniqueToSource2 = y]
    BY DEF FromSource2
  <2> HIDE DEF y
  <2>3. QED BY <1>2, <2>1, <2>2 DEF Comparisons, y
<1>5. ASSUME a[c.index1 + 1] \in Int
      PROVE  LET r == FromBoth(a, c)
             IN  /\ r \in Comparisons
                 /\ r.index1 = c.index1 + 1 /\ r.index2 = c.index2 + 1
                 /\ r.intersection = Append(c.intersection, a[c.index1 + 1])
                 /\ r.uniqueToSource1 = c.uniqueToSource1 /\ r.uniqueToSource2 = c.uniqueToSource2
  <2> DEFINE y == Append(c.intersection, a[c.index1 + 1])
  <2>1. y \in Seq(Int)
    BY <1>1, <1>5
  <2>2. FromBoth(a, c) = [c EXCEPT !.index1 = c.index1 + 1, !.index2 = c.index2 + 1, !.intersection = y]
    BY DEF FromBoth
  <2> HIDE DEF y
  <2>3. QED BY <1>2, <2>1, <2>2 DEF Comparisons, y
<1> QED BY <1>3, <1>4, <1>5, Zenon

LEMMA ComparedOnceMore ==
  ASSUME NEW a \in Seq(Int), NEW b \in Seq(Int), Sorts(a, TRUE), Sorts(b, TRUE), NEW n \in Nat,
         NEW c, Comparing(a, b, n, c)
  PROVE  Comparing(a, b, n + 1, ComparedOnce(a, b, c))
<1> DEFINE i == c.index1
           j == c.index2
           s == c.intersection
           u == c.uniqueToSource1
           v == c.uniqueToSource2
           r == ComparedOnce(a, b, c)
           x == a[i + 1]
           y == b[j + 1]
           more1 == i < Len(a)
           more2 == j < Len(b)
<1>1. c \in Comparisons /\ ComparedAt(a, b, i, j, s, u, v)
      /\ (i + j >= n \/ (i = Len(a) /\ j = Len(b)))
  BY DEF Comparing, ComparedFor
<1>2. i \in 0 .. Len(a) /\ j \in 0 .. Len(b) /\ Len(a) \in Nat /\ Len(b) \in Nat
  BY <1>1 DEF ComparedAt
<1>3. ASSUME NEW q, q \in Comparisons, ComparedFor(a, b, q),
             q.index1 + q.index2 >= n + 1 \/ (q.index1 = Len(a) /\ q.index2 = Len(b))
      PROVE  Comparing(a, b, n + 1, q)
  BY <1>3, Zenon DEF Comparing
<1>4. r = IF more1 /\ (more2 => x < y) THEN FromSource1(a, c)
          ELSE IF more1 /\ x = y THEN FromBoth(a, c)
          ELSE IF more2 THEN FromSource2(b, c) ELSE c
  BY DEF ComparedOnce
<1>20. /\ more1 => i + 1 \in 1 .. Len(a)
       /\ more2 => j + 1 \in 1 .. Len(b)
  BY <1>2
<1>21. (more1 => x \in Int) /\ (more2 => y \in Int)
  BY <1>20, ElementOfSeq
<1> HIDE DEF r
<1>6. CASE more1 /\ (more2 => x < y)
  <2>1. ComparedAt(a, b, i + 1, j, s, Append(u, x), v)
    BY <1>1, <1>6, TakenFromOne
  <2>2. r = FromSource1(a, c)
    BY <1>4, <1>6
  <2>3. /\ r \in Comparisons /\ r.index1 = i + 1 /\ r.index2 = j /\ r.intersection = s
        /\ r.uniqueToSource1 = Append(u, x) /\ r.uniqueToSource2 = v
    BY <1>1, <1>6, <1>21, <2>2, FromIs, Zenon
  <2>4. ComparedFor(a, b, r)
    BY <2>1, <2>3, Zenon DEF ComparedFor
  <2> HIDE DEF i, j
  <2>5. (i + 1) + j >= n + 1
    BY <1>1, <1>2, <1>6
  <2> QED BY <1>3, <2>3, <2>4, <2>5, Zenon DEF r
<1>7. CASE ~(more1 /\ (more2 => x < y)) /\ more1 /\ x = y
  <2>1. ComparedAt(a, b, i + 1, j + 1, Append(s, x), u, v)
    BY <1>1, <1>7, TakenFromBoth DEF NextIs
  <2>2. r = FromBoth(a, c)
    BY <1>4, <1>7
  <2>3. /\ r \in Comparisons /\ r.index1 = i + 1 /\ r.index2 = j + 1 /\ r.intersection = Append(s, x)
        /\ r.uniqueToSource1 = u /\ r.uniqueToSource2 = v
    BY <1>1, <1>7, <1>21, <2>2, FromIs, Zenon
  <2>4. ComparedFor(a, b, r)
    BY <2>1, <2>3, Zenon DEF ComparedFor
  <2> HIDE DEF i, j
  <2>5. (i + 1) + (j + 1) >= n + 1
    BY <1>1, <1>2, <1>7
  <2> QED BY <1>3, <2>3, <2>4, <2>5, Zenon DEF r
<1>8. CASE ~(more1 /\ (more2 => x < y)) /\ ~(more1 /\ x = y) /\ more2
  <2>1. more1 => y < x
    BY <1>8, <1>21
  <2>2. ComparedAt(b, a, j + 1, i, s, Append(v, y), u)
    BY <1>1, <1>8, <2>1, ComparedBack, TakenFromOne
  <2>3. ComparedAt(a, b, i, j + 1, s, u, Append(v, y))
    BY <2>2, ComparedBack
  <2>4. r = FromSource2(b, c)
    BY <1>4, <1>8
  <2>5. /\ r \in Comparisons /\ r.index1 = i /\ r.index2 = j + 1 /\ r.intersection = s
        /\ r.uniqueToSource1 = u /\ r.uniqueToSource2 = Append(v, y)
    BY <1>1, <1>8, <1>21, <2>4, FromIs, Zenon
  <2>6. ComparedFor(a, b, r)
    BY <2>3, <2>5, Zenon DEF ComparedFor
  <2> HIDE DEF i, j
  <2>7. i + (j + 1) >= n + 1
    BY <1>1, <1>2, <1>8
  <2> QED BY <1>3, <2>5, <2>6, <2>7, Zenon DEF r
<1>9. CASE ~(more1 /\ (more2 => x < y)) /\ ~(more1 /\ x = y) /\ ~more2
  <2>1. r = c
    BY <1>4, <1>9
  <2>2. ~more1
    BY <1>9
  <2>3. ComparedFor(a, b, r)
    BY <1>1, <2>1 DEF ComparedFor
  <2>4. r.index1 = Len(a) /\ r.index2 = Len(b)
    <3>1. i = Len(a) /\ j = Len(b)
      <4> HIDE DEF i, j
      <4> QED BY <1>2, <1>9, <2>2
    <3> QED BY <2>1, <3>1
  <2> QED BY <1>1, <1>3, <2>1, <2>3, <2>4, Zenon DEF r
<1> QED BY <1>6, <1>7, <1>8, <1>9, Zenon DEF r

LEMMA ComparisonsExist ==
  ASSUME NEW a, NEW b, NEW n \in Nat
  PROVE  \E f : ComparisonsAre(a, b, n, f)
<1> DEFINE first == [index1 |-> 0, index2 |-> 0, intersection |-> << >>,
                     uniqueToSource1 |-> << >>, uniqueToSource2 |-> << >>]
           S == {m \in 0 .. n : \E f : ComparisonsAre(a, b, m, f)}
<1>1. 0 \in S
  <2> DEFINE f == [k \in 0 .. 0 |-> first]
  <2> HIDE DEF first
  <2>1. f = [k \in 0 .. 0 |-> IF k = 0 THEN first ELSE ComparedOnce(a, b, f[k - 1])]
    OBVIOUS
  <2> HIDE DEF f
  <2>2. ComparisonsAre(a, b, 0, f)
    BY <2>1 DEF ComparisonsAre, first
  <2> QED BY <2>2
<1>2. ASSUME NEW m \in 0 .. n - 1, m \in S PROVE m + 1 \in S
  <2>1. PICK f : ComparisonsAre(a, b, m, f)
    BY <1>2
  <2> DEFINE g == [k \in 0 .. m + 1 |-> IF k = m + 1 THEN ComparedOnce(a, b, f[m]) ELSE f[k]]
  <2>2. \A k \in 0 .. m : f[k] = IF k = 0 THEN first ELSE ComparedOnce(a, b, f[k - 1])
    BY <2>1, Zenon DEF ComparisonsAre
  <2> HIDE DEF first
  <2>3. ASSUME NEW k \in 0 .. m + 1 PROVE g[k] = IF k = 0 THEN first ELSE ComparedOnce(a, b, g[k - 1])
    <3>1. CASE k = m + 1
      <4>1. k # 0 /\ k - 1 = m /\ k - 1 \in 0 .. m + 1 /\ k - 1 # m + 1
        BY <3>1
      <4>2. g[k] = ComparedOnce(a, b, f[m]) /\ g[k - 1] = f[m]
        BY <3>1, <4>1
      <4> HIDE DEF g
      <4> QED BY <4>1, <4>2
    <3>2. CASE k \in 0 .. m
      <4>1. g[k] = f[k]
        BY <3>2
      <4>2. k # 0 => k - 1 \in 0 .. m + 1 /\ k - 1 # m + 1
        BY <3>2
      <4>3. k # 0 => g[k - 1] = f[k - 1]
        BY <4>2
      <4> HIDE DEF g
      <4> QED BY <2>2, <3>2, <4>1, <4>3
    <3> QED BY <3>1, <3>2
  <2>4. g = [k \in 0 .. m + 1 |-> IF k = 0 THEN first ELSE ComparedOnce(a, b, g[k - 1])]
    <3>1. g = [k \in 0 .. m + 1 |-> g[k]]
      OBVIOUS
    <3> HIDE DEF g
    <3> QED BY <2>3, <3>1
  <2>5. m + 1 \in 0 .. n
    OBVIOUS
  <2> HIDE DEF g
  <2>6. ComparisonsAre(a, b, m + 1, g)
    BY <2>4 DEF ComparisonsAre, first
  <2> QED BY <2>5, <2>6
<1>3. n \in S
  <2> HIDE DEF S
  <2>1. 0 .. n \subseteq S
    BY <1>1, <1>2, UpToInSet
  <2> QED BY <2>1
<1> QED BY <1>3

LEMMA ComparedFinds ==
  ASSUME NEW a \in Seq(Int), NEW b \in Seq(Int), Sorts(a, TRUE), Sorts(b, TRUE)
  PROVE  FoundIn(a, b)
<1> DEFINE N == Len(a) + Len(b)
           turn == CHOOSE f : ComparisonsAre(a, b, N, f)
           S == {n \in 0 .. N : Comparing(a, b, n, turn[n])}
           c == turn[N]
<1>1. N \in Nat /\ Len(a) \in Nat /\ Len(b) \in Nat
  OBVIOUS
<1>2. Compared(a, b) = c
  BY DEF Compared, ComparisonsAre
<1>3. ComparisonsAre(a, b, N, turn)
  BY <1>1, ComparisonsExist
<1> HIDE DEF turn, N
<1> DEFINE first == [index1 |-> 0, index2 |-> 0, intersection |-> << >>,
                     uniqueToSource1 |-> << >>, uniqueToSource2 |-> << >>]
<1>4. \A k \in 0 .. N : turn[k] = IF k = 0 THEN first ELSE ComparedOnce(a, b, turn[k - 1])
  BY <1>3, Zenon DEF ComparisonsAre
<1>5. 0 \in S
  <2>1. turn[0] = first
    <3>1. 0 \in 0 .. N
      BY <1>1
    <3> QED BY <1>4, <3>1, Zenon
  <2>2. /\ first \in Comparisons /\ first.index1 = 0 /\ first.index2 = 0 /\ first.intersection = << >>
        /\ first.uniqueToSource1 = << >> /\ first.uniqueToSource2 = << >>
    BY EmptySeq DEF Comparisons
  <2> HIDE DEF first
  <2>3. \A x : Count(<< >>, x) = 0
    <3>1. \A x : {k \in 1 .. Len(<< >>) : << >>[k] = x} = {}
      BY EmptySeq
    <3> QED BY <3>1, FS_EmptySet DEF Count
  <2>4. \A items, x : CountTo(items, 0, x) = 0
    <3>1. \A items, x : {k \in 1 .. 0 : items[k] = x} = {}
      OBVIOUS
    <3> QED BY <3>1, FS_EmptySet DEF CountTo
  <2>5. ComparedAt(a, b, 0, 0, << >>, << >>, << >>)
    <3>1. 0 \in 0 .. Len(a) /\ 0 \in 0 .. Len(b) /\ << >> \in Seq(Int)
      BY <1>1, EmptySeq
    <3>2. 0 + 0 = 0 /\ ~(0 > 0)
      OBVIOUS
    <3> QED BY <2>3, <2>4, <3>1, <3>2 DEF ComparedAt
  <2>6. ComparedFor(a, b, first)
    BY <2>2, <2>5, Zenon DEF ComparedFor
  <2>7. first.index1 + first.index2 >= 0
    BY <2>2
  <2>8. Comparing(a, b, 0, first)
    BY <2>2, <2>6, <2>7, Zenon DEF Comparing
  <2> QED BY <1>1, <2>1, <2>8
<1>6. ASSUME NEW n \in 0 .. N - 1, n \in S PROVE n + 1 \in S
  <2>1. n + 1 \in 0 .. N /\ n + 1 # 0 /\ (n + 1) - 1 = n /\ n \in Nat
    BY <1>1
  <2> HIDE DEF first
  <2>2. turn[n + 1] = ComparedOnce(a, b, turn[n])
    BY <1>4, <2>1
  <2>3. Comparing(a, b, n + 1, turn[n + 1])
    BY <1>6, <2>1, <2>2, ComparedOnceMore
  <2> QED BY <2>1, <2>3
<1>7. N \in S
  <2> HIDE DEF S
  <2>1. 0 .. N \subseteq S
    BY <1>1, <1>5, <1>6, UpToInSet
  <2> QED BY <1>1, <2>1
<1> DEFINE i == c.index1
           j == c.index2
           s == c.intersection
           u == c.uniqueToSource1
           v == c.uniqueToSource2
<1>8. ComparedAt(a, b, i, j, s, u, v) /\ (i + j >= N \/ (i = Len(a) /\ j = Len(b)))
  BY <1>7 DEF Comparing, ComparedFor
<1> HIDE DEF c, S, first
<1>9. i = Len(a) /\ j = Len(b)
  <2>1. i \in 0 .. Len(a) /\ j \in 0 .. Len(b)
    BY <1>8 DEF ComparedAt
  <2> HIDE DEF i, j
  <2> QED BY <1>1, <1>8, <2>1 DEF N
<1>10. ASSUME NEW x \in MLItems
       PROVE  /\ Count(s, x) = Count(a, x) \/ Count(s, x) = Count(b, x)
              /\ Count(s, x) + Count(u, x) = Count(a, x)
              /\ Count(s, x) + Count(v, x) = Count(b, x)
  <2>1. x \in Int
    BY MultilistAssumption
  <2>2. /\ Count(s, x) + Count(u, x) = CountTo(a, Len(a), x)
        /\ Count(s, x) + Count(v, x) = CountTo(b, Len(b), x)
        /\ Count(u, x) = 0 \/ Count(v, x) = 0
        /\ s \in Seq(Int)
    BY <1>8, <1>9, <2>1 DEF ComparedAt
  <2>3. CountTo(a, Len(a), x) = Count(a, x) /\ CountTo(b, Len(b), x) = Count(b, x)
    BY DEF CountTo, Count
  <2>4. Count(s, x) \in Nat
    BY <2>1, <2>2, CountAppended
  <2>5. Count(u, x) = 0 => Count(s, x) + Count(u, x) = Count(s, x)
    BY <2>4
  <2>6. Count(v, x) = 0 => Count(s, x) + Count(v, x) = Count(s, x)
    BY <2>4
  <2> QED BY <2>2, <2>3, <2>5, <2>6, Zenon
<1> QED BY <1>2, <1>10, Zenon DEF FoundIn, s, u, v

-----------------------------------------------------------------------------
(***************************************************************************)
(* The invariant, and what each call does to it.                           *)
(***************************************************************************)
LEMMA GoodShows ==
  ASSUME Good(ml, kept)
  PROVE  ShowsTheList
<1>1. Holds(ml, kept) /\ RightOrder(ml, kept) /\ kept \in Seq(Int) /\ Shown(ml) = kept /\ ml.ascending \in BOOLEAN
  BY DEF Good, Holds, Multilists
<1>2. KeepsOrder(ml) => InOrder(kept, ml.ascending)
  BY <1>1, InOrderSorts DEF RightOrder
<1>3. ASSUME NEW x \in MLItems
      PROVE  LET index == IndexOfKey(ml, x) IN IF x \in ToSet(kept) THEN kept[index + 1] = x ELSE index = -1
  <2>1. x \in Int
    BY MultilistAssumption
  <2>2. Finds(ml, kept, x)
    BY <1>1, <2>1, KeyFound
  <2> QED BY <2>2 DEF Finds
<1>4. ASSUME KeepsOrder(ml), ml.ascending, NEW other \in Sources
      PROVE  FoundIn(Shown(ml), Sorted(other, TRUE))
  <2>1. other \in Seq(Int)
    <3>1. PICK x \in MLItems, y \in MLItems : other = <<x, y>>
      BY DEF Sources
    <3>2. x \in Int /\ y \in Int
      BY MultilistAssumption
    <3> QED BY <3>1, <3>2
  <2>2. Sorted(other, TRUE) \in Seq(Int) /\ Sorts(Sorted(other, TRUE), TRUE)
    BY <2>1, SortedSorts
  <2>3. Sorts(kept, TRUE)
    <3>1. ml.ascending = TRUE
      BY <1>1, <1>4
    <3> QED BY <1>1, <1>4, <3>1 DEF RightOrder
  <2> QED BY <1>1, <2>2, <2>3, ComparedFinds
<1> QED BY <1>1, <1>2, <1>3, <1>4 DEF ShowsTheList

LEMMA SoundIs ==
  ASSUME NEW m, NEW list, Sound(m, list)
  PROVE  /\ m \in Multilists /\ list \in Seq(Int) /\ Shown(m) = list /\ Len(list) = m.dataSize
         /\ m.dataSize \in Nat /\ m.queueHead \in Nat /\ m.queueTail \in Nat /\ Len(m.data) \in Nat
         /\ m.data \in Seq(Int) /\ m.sorted \in BOOLEAN /\ m.ascending \in BOOLEAN /\ m.type \in Types
         /\ m.preallocationSize \in Nat
         /\ m.dataSize <= Len(m.data) /\ (IsQueue(m) /\ m.dataSize > 0 => m.queueHead < Len(m.data))
         /\ IsQueue(m) => IF m.dataSize = 0 THEN m.queueTail = m.queueHead
                          ELSE \/ m.queueTail = m.queueHead + m.dataSize
                               \/ m.queueTail = (m.queueHead + m.dataSize) - Len(m.data)
<1>1. m \in Multilists /\ Fits(m, m.dataSize) /\ list \in Seq(Int) /\ Shown(m) = list /\ TailRight(m)
  BY DEF Sound, Holds
<1>2. /\ m.dataSize \in Nat /\ m.queueHead \in Nat /\ m.queueTail \in Nat /\ Len(m.data) \in Nat
      /\ m.data \in Seq(Int) /\ m.sorted \in BOOLEAN /\ m.ascending \in BOOLEAN /\ m.type \in Types
      /\ m.preallocationSize \in Nat
  BY <1>1 DEF Multilists
<1>3. Len(list) = m.dataSize
  BY <1>1, ShownIs
<1>4. m.dataSize <= Len(m.data) /\ (IsQueue(m) /\ m.dataSize > 0 => m.queueHead < Len(m.data))
  BY <1>1 DEF Fits
<1>5. IsQueue(m) => IF m.dataSize = 0 THEN m.queueTail = m.queueHead
                    ELSE \/ m.queueTail = m.queueHead + m.dataSize
                         \/ m.queueTail = (m.queueHead + m.dataSize) - Len(m.data)
  BY <1>1 DEF TailRight
<1> QED BY <1>1, <1>2, <1>3, <1>4, <1>5

\* The queue's tail is where the list ends.
TailAt(h, n, t, L) == IF n = 0 THEN t = h ELSE t = h + n \/ t = (h + n) - L

LEMMA TailMoves ==
  ASSUME NEW h \in Nat, NEW n \in Nat, NEW t \in Nat, NEW L \in Nat, TailAt(h, n, t, L)
  PROVE  /\ n < L /\ t < L /\ h < L => TailAt(h, n + 1, IF t + 1 = L THEN 0 ELSE t + 1, L)
         /\ n > 0 /\ n <= L /\ h < L => TailAt(h, n - 1, IF t = 0 THEN L - 1 ELSE t - 1, L)
         /\ n > 0 /\ n <= L /\ h + 1 < L => TailAt(h + 1, n - 1, t, L)
<1>1. t = h + n \/ t = (h + n) - L
  BY DEF TailAt
<1>2. ASSUME n < L, t < L, h < L PROVE TailAt(h, n + 1, IF t + 1 = L THEN 0 ELSE t + 1, L)
  <2>1. n + 1 # 0
    OBVIOUS
  <2>2. n = 0 => t = h + n
    BY DEF TailAt
  <2>3. CASE t + 1 = L
    BY <1>1, <1>2, <2>1, <2>3 DEF TailAt
  <2>4. CASE t + 1 # L
    BY <1>1, <1>2, <2>1, <2>4 DEF TailAt
  <2> QED BY <2>3, <2>4
<1>3. ASSUME n > 0, n <= L, h < L PROVE TailAt(h, n - 1, IF t = 0 THEN L - 1 ELSE t - 1, L)
  <2>1. CASE t = 0
    <3>1. h + n = L
      BY <1>1, <1>3, <2>1
    <3> QED BY <1>3, <2>1, <3>1 DEF TailAt
  <2>2. CASE t # 0
    <3>1. n = 1 => t = h + 1
      BY <1>1, <1>3, <2>2
    <3> QED BY <1>1, <1>3, <2>2, <3>1 DEF TailAt
  <2> QED BY <2>1, <2>2
<1>4. ASSUME n > 0, n <= L, h + 1 < L PROVE TailAt(h + 1, n - 1, t, L)
  <2>1. n = 1 => t = h + 1
    BY <1>1, <1>4
  <2> QED BY <1>1, <1>4, <2>1 DEF TailAt
<1> QED BY <1>2, <1>3, <1>4

\* Other items put in the cells, with another tail.
LEMMA Resized ==
  ASSUME NEW m \in Multilists, NEW items \in Seq(Int), Fits(m, Len(items)), NEW tail \in Nat,
         IsQueue(m) => TailAt(m.queueHead, Len(items), tail, Len(m.data))
  PROVE  LET r == [Holding(m, items) EXCEPT !.queueTail = tail]
         IN  /\ Sound(r, items) /\ Alike(r, m) /\ r.dataSize = Len(items) /\ Len(r.data) = Len(m.data)
             /\ tail = m.queueTail => r = Holding(m, items)
<1> DEFINE g == Holding(m, items)
           r == [g EXCEPT !.queueTail = tail]
<1>1. /\ Holds(g, items) /\ Alike(g, m) /\ g.dataSize = Len(items) /\ Len(g.data) = Len(m.data)
      /\ g.queueHead = m.queueHead /\ g.queueTail = m.queueTail
  BY HoldingHolds
<1> HIDE DEF g
<1>2. g \in Multilists
  BY <1>1 DEF Holds
<1>3. /\ r \in Multilists /\ r.data = g.data /\ r.dataSize = g.dataSize /\ r.queueHead = g.queueHead
      /\ r.queueTail = tail /\ Alike(r, g) /\ (tail = g.queueTail => r = g)
  BY <1>2 DEF Multilists, Alike
<1> HIDE DEF r
<1>4. (IsQueue(r) <=> IsQueue(m)) /\ (IsQueue(r) <=> IsQueue(g)) /\ Alike(r, m)
  BY <1>1, <1>3 DEF Alike, IsQueue
<1>5. Holds(r, items)
  BY <1>1, <1>3, <1>4, HoldsStill
<1>6. TailRight(r)
  BY <1>1, <1>3, <1>4 DEF TailRight, TailAt
<1>7. Sound(r, items)
  BY <1>5, <1>6 DEF Sound
<1> QED BY <1>1, <1>3, <1>4, <1>7 DEF g, r

\* One item more, with the tail moved on where there is one.
LEMMA OneMore ==
  ASSUME NEW m, NEW list, Sound(m, list), m.dataSize < Len(m.data), ~TailPast(m),
         NEW items \in Seq(Int), Len(items) = Len(list) + 1
  PROVE  LET r == IF IsQueue(m) THEN [Holding(m, items) EXCEPT !.queueTail = AfterTail(m)]
                  ELSE Holding(m, items)
         IN  Sound(r, items) /\ Alike(r, m) /\ r.dataSize = m.dataSize + 1
<1> DEFINE h == m.queueHead
           n == m.dataSize
           t == m.queueTail
           L == Len(m.data)
<1>1. /\ m \in Multilists /\ n \in Nat /\ h \in Nat /\ t \in Nat /\ L \in Nat /\ n < L /\ Len(items) = n + 1
      /\ IsQueue(m) => TailAt(h, n, t, L) /\ (n > 0 => h < L)
  BY SoundIs DEF TailAt
<1>2. CASE IsQueue(m)
  <2>1. t < L
    BY <1>1, <1>2 DEF TailPast, allocationSize
  <2>2. h < L
    BY <1>1, <1>2, <2>1 DEF TailAt
  <2>3. AfterTail(m) = IF t + 1 = L THEN 0 ELSE t + 1
    BY DEF AfterTail, allocationSize
  <2>4. TailAt(h, n + 1, AfterTail(m), L)
    BY <1>1, <1>2, <2>1, <2>2, <2>3, TailMoves
  <2>5. AfterTail(m) \in Nat
    BY <1>1, <2>3
  <2>6. Fits(m, Len(items))
    <3> HIDE DEF n, L, h
    <3>1. n + 1 <= L
      BY <1>1
    <3> QED BY <1>1, <2>2, <3>1 DEF Fits, L, h
  <2> QED BY <1>1, <1>2, <2>4, <2>5, <2>6, Resized
<1>3. CASE ~IsQueue(m)
  <2>1. Fits(m, Len(items))
    <3> HIDE DEF n, L
    <3>1. n + 1 <= L
      BY <1>1
    <3> QED BY <1>1, <1>3, <3>1 DEF Fits, L
  <2> DEFINE g == Holding(m, items)
             r2 == [g EXCEPT !.queueTail = t]
  <2>3. r2 = g /\ Sound(r2, items) /\ Alike(r2, m) /\ r2.dataSize = Len(items)
    BY <1>1, <2>1, <1>3, Resized
  <2> HIDE DEF r2
  <2>4. Sound(g, items) /\ Alike(g, m) /\ g.dataSize = Len(items)
    BY <2>3
  <2> HIDE DEF g
  <2> QED BY <1>1, <1>3, <2>4 DEF g
<1> QED BY <1>2, <1>3

\* One item less, from the end of the cells.
LEMMA OneLess ==
  ASSUME NEW m, NEW list, Sound(m, list), m.dataSize > 0,
         NEW items \in Seq(Int), Len(items) = Len(list) - 1
  PROVE  LET r == IF IsQueue(m) THEN [Holding(m, items) EXCEPT !.queueTail = BeforeTail(m)]
                  ELSE Holding(m, items)
         IN  Sound(r, items) /\ Alike(r, m) /\ r.dataSize = m.dataSize - 1
<1> DEFINE h == m.queueHead
           n == m.dataSize
           t == m.queueTail
           L == Len(m.data)
<1>1. /\ m \in Multilists /\ n \in Nat /\ n > 0 /\ h \in Nat /\ t \in Nat /\ L \in Nat /\ n <= L
      /\ Len(items) = n - 1
      /\ IsQueue(m) => TailAt(h, n, t, L) /\ h < L
  BY SoundIs DEF TailAt
<1>2. Fits(m, Len(items))
  <2> HIDE DEF n, L, h
  <2>1. n - 1 <= L
    BY <1>1
  <2> QED BY <1>1, <2>1 DEF Fits, L, h
<1>3. CASE IsQueue(m)
  <2>3. BeforeTail(m) = IF t = 0 THEN L - 1 ELSE t - 1
    BY DEF BeforeTail, allocationSize
  <2>4. TailAt(h, n - 1, BeforeTail(m), L)
    BY <1>1, <1>3, <2>3, TailMoves
  <2>5. BeforeTail(m) \in Nat
    BY <1>1, <2>3
  <2> DEFINE tail == BeforeTail(m)
             r2 == [Holding(m, items) EXCEPT !.queueTail = tail]
  <2>6. TailAt(m.queueHead, Len(items), tail, Len(m.data))
    BY <1>1, <2>4
  <2> HIDE DEF tail
  <2>7. Sound(r2, items) /\ Alike(r2, m) /\ r2.dataSize = Len(items)
    BY <1>1, <1>2, <2>5, <2>6, Resized DEF tail
  <2> HIDE DEF r2
  <2> QED BY <1>1, <1>3, <2>7 DEF r2, tail
<1>4. CASE ~IsQueue(m)
  <2> DEFINE g == Holding(m, items)
             r2 == [g EXCEPT !.queueTail = t]
  <2>3. r2 = g /\ Sound(r2, items) /\ Alike(r2, m) /\ r2.dataSize = Len(items)
    BY <1>1, <1>2, <1>4, Resized
  <2> HIDE DEF r2
  <2>4. Sound(g, items) /\ Alike(g, m) /\ g.dataSize = Len(items)
    BY <2>3
  <2> HIDE DEF g
  <2> QED BY <1>1, <1>4, <2>4 DEF g
<1> QED BY <1>3, <1>4

\* The sort state does not say where the items are.
LEMMA TaggedSound ==
  ASSUME NEW m, NEW list, Sound(m, list), NEW tag \in BOOLEAN
  PROVE  LET r == [m EXCEPT !.sorted = tag]
         IN  /\ Sound(r, list) /\ r.sorted = tag /\ r.type = m.type /\ r.ascending = m.ascending
             /\ r.dataSize = m.dataSize /\ r.data = m.data /\ Len(r.data) = Len(m.data)
<1> DEFINE r == [m EXCEPT !.sorted = tag]
<1>1. m \in Multilists
  BY SoundIs
<1>2. /\ r \in Multilists /\ r.data = m.data /\ r.dataSize = m.dataSize /\ r.queueHead = m.queueHead
      /\ r.queueTail = m.queueTail /\ r.type = m.type /\ r.sorted = tag /\ r.ascending = m.ascending
  BY <1>1 DEF Multilists
<1> HIDE DEF r
<1>3. IsQueue(r) <=> IsQueue(m)
  BY <1>2 DEF IsQueue
<1>4. Holds(r, list)
  BY <1>2, <1>3, HoldsStill DEF Sound
<1>5. TailRight(r)
  BY <1>2, <1>3 DEF Sound, TailRight
<1>6. Sound(r, list)
  BY <1>4, <1>5 DEF Sound
<1> QED BY <1>2, <1>6 DEF r

\* A call breaks the array, or leaves it holding its caller's list.
StaysGood == broken' # "no" \/ Good(ml', kept')

LEMMA LeavesGood ==
  ASSUME NEW r, NEW list, Sound(r, list), RightOrder(r, list), Leaves(r, list)
  PROVE  StaysGood
  BY DEF Leaves, StaysGood, Good, Sound

LEMMA GoodIs ==
  ASSUME NEW m, NEW list, Good(m, list)
  PROVE  Sound(m, list) /\ RightOrder(m, list)
  BY DEF Good, Sound

LEMMA NoOrder ==
  ASSUME NEW m, NEW list, m.type # "ordered", m.sorted = FALSE
  PROVE  RightOrder(m, list)
  BY DEF RightOrder, KeepsOrder

LEMMA CheckedOrder ==
  ASSUME NEW m, NEW list, Sound(m, list), ~(KeepsOrder(m) /\ ~InOrder(Shown(m), m.ascending))
  PROVE  RightOrder(m, list)
<1>1. list \in Seq(Int) /\ Shown(m) = list /\ m.ascending \in BOOLEAN
  BY SoundIs
<1> QED BY <1>1, InOrderSorts DEF RightOrder

LEMMA ShortSorts ==
  ASSUME NEW list \in Seq(Int), Len(list) <= 1, NEW asc PROVE Sorts(list, asc)
  BY DEF Sorts

LEMMA ItemsAreNumbers == \A x \in MLItems : x \in Int
  BY MultilistAssumption

LEMMA InsertedIs ==
  ASSUME NEW s \in Seq(Int), NEW index \in 0 .. Len(s), NEW x \in Int
  PROVE  InsertAt(s, index + 1, x) \in Seq(Int) /\ Len(InsertAt(s, index + 1, x)) = Len(s) + 1
<1>1. IsPut(Int, InsertAt(s, index + 1, x), s, index, x)
  BY InsertedIsPut
<1> QED BY <1>1 DEF IsPut

LEMMA PushKeeps ==
  ASSUME Good(ml, kept), NEW x \in MLItems, MLPush(x)
  PROVE  StaysGood
<1> DEFINE m == ReallocateIfNeeded(ml)
<1>1. Sound(ml, kept) /\ RightOrder(ml, kept) /\ x \in Int
  BY GoodIs, ItemsAreNumbers
<1>2. Sound(m, kept) /\ Alike(m, ml) /\ m.dataSize = ml.dataSize /\ m.dataSize < Len(m.data)
  BY <1>1, WithSpace
<1>3. IF TailPast(m) THEN Breaks("a write behind the array")
      ELSE IF m.type = "ordered" THEN Leaves(InsertInOrderedList(m, x), Sorted(Append(kept, x), m.ascending))
      ELSE Leaves(IF m.dataSize > 0 THEN Untagged(Appended(m, x)) ELSE Appended(m, x), Append(kept, x))
  BY DEF MLPush
<1> HIDE DEF m
<1>4. /\ kept \in Seq(Int) /\ Shown(m) = kept /\ Len(kept) = m.dataSize /\ m.dataSize \in Nat
      /\ m.ascending \in BOOLEAN /\ m \in Multilists
  BY <1>2, SoundIs
<1>5. RightOrder(m, kept)
  BY <1>1, <1>2, AlikeOrder
<1>6. CASE TailPast(m)
  BY <1>3, <1>6 DEF Breaks, StaysGood
<1>7. CASE ~TailPast(m) /\ m.type = "ordered"
  <2> DEFINE i == Place(m, x).index
             items == InsertAt(kept, i + 1, x)
             asc == m.ascending
  <2>1. Leaves(Holding(m, items), Sorted(Append(kept, x), asc))
    BY <1>3, <1>4, <1>7 DEF InsertInOrderedList
  <2>2. Sorts(kept, asc)
    BY <1>5, <1>7 DEF RightOrder, KeepsOrder
  <2>3. PlaceIn(kept, x, asc, Place(m, x))
    BY <1>1, <1>2, <2>2, PlaceFinds DEF Sound
  <2>4. items \in Seq(Int) /\ Sorts(items, asc) /\ Sorted(Append(kept, x), asc) = items
    BY <1>1, <1>4, <2>2, <2>3, InsertSorted
  <2>5. Len(items) = Len(kept) + 1
    <3>1. i \in 0 .. Len(kept)
      BY <2>3 DEF PlaceIn
    <3> QED BY <1>1, <1>4, <3>1, InsertedIs
  <2> HIDE DEF items
  <2>7. ~IsQueue(m)
    BY <1>7 DEF IsQueue
  <2>8. Sound(Holding(m, items), items) /\ Alike(Holding(m, items), m)
    BY <1>2, <1>7, <2>4, <2>5, <2>7, OneMore
  <2>9. RightOrder(Holding(m, items), items)
    BY <2>4, <2>8 DEF RightOrder, Alike
  <2> QED BY <2>1, <2>4, <2>8, <2>9, LeavesGood
<1>8. CASE ~TailPast(m) /\ m.type # "ordered"
  <2> DEFINE items == Append(kept, x)
             r == Appended(m, x)
             u == IF m.dataSize > 0 THEN Untagged(r) ELSE r
  <2>1. Leaves(u, items)
    BY <1>3, <1>8
  <2>2. items \in Seq(Int) /\ Len(items) = Len(kept) + 1
    BY <1>1, <1>4, AppendProperties
  <2>3. r = IF IsQueue(m) THEN [Holding(m, items) EXCEPT !.queueTail = AfterTail(m)] ELSE Holding(m, items)
    BY <1>4 DEF Appended
  <2> HIDE DEF items, r
  <2>4. Sound(r, items) /\ Alike(r, m)
    BY <1>2, <1>8, <2>2, <2>3, OneMore
  <2>5. CASE m.dataSize > 0
    <3> DEFINE w == [r EXCEPT !.sorted = FALSE]
    <3>1. Sound(w, items) /\ w.sorted = FALSE /\ w.type = r.type
      BY <2>4, TaggedSound
    <3>2. u = w
      BY <2>5 DEF Untagged
    <3> HIDE DEF w
    <3>3. RightOrder(w, items)
      BY <1>8, <2>4, <3>1, NoOrder DEF Alike
    <3> QED BY <2>1, <3>1, <3>2, <3>3, LeavesGood
  <2>6. CASE ~(m.dataSize > 0)
    <3>1. Len(items) <= 1
      BY <1>4, <2>2, <2>6
    <3>2. RightOrder(r, items)
      BY <2>2, <3>1, ShortSorts DEF RightOrder
    <3>3. u = r
      BY <2>6
    <3> QED BY <2>1, <2>4, <3>2, <3>3, LeavesGood
  <2> QED BY <2>5, <2>6
<1> QED BY <1>6, <1>7, <1>8

LEMMA PopKeeps ==
  ASSUME Good(ml, kept), MLPop
  PROVE  StaysGood
<1> DEFINE m == DeallocateIfNeeded(ml)
           left == IF IsQueue(m) THEN Tail(kept) ELSE Front(kept)
<1>1. Sound(ml, kept) /\ RightOrder(ml, kept) /\ ml.dataSize > 0
  BY GoodIs DEF MLPop
<1>2. Sound(m, kept) /\ Alike(m, ml) /\ m.dataSize = ml.dataSize
  BY <1>1, WithoutSpace
<1>3. IF ~IsQueue(m) THEN Leaves(Holding(m, left), left)
      ELSE IF m.queueHead + 1 = allocationSize(m) THEN Breaks("a pop of the array's last cell")
      ELSE Leaves(Holding([m EXCEPT !.queueHead = @ + 1], left), left)
  BY DEF MLPop
<1> HIDE DEF m
<1>4. /\ kept \in Seq(Int) /\ Len(kept) = m.dataSize /\ m.dataSize \in Nat /\ m.dataSize > 0
      /\ m.ascending \in BOOLEAN /\ m \in Multilists
  BY <1>1, <1>2, SoundIs
<1>5. RightOrder(m, kept)
  BY <1>1, <1>2, AlikeOrder
<1>6. kept # << >>
  BY <1>4
<1>7. left \in Seq(Int) /\ Len(left) = Len(kept) - 1 /\ (KeepsOrder(m) => Sorts(left, m.ascending))
  BY <1>4, <1>5, <1>6, FrontIs, TailIs, SublistsSorted DEF RightOrder
<1> HIDE DEF left
<1>8. CASE ~IsQueue(m)
  <2> DEFINE r == Holding(m, left)
  <2>1. Sound(r, left) /\ Alike(r, m)
    BY <1>2, <1>4, <1>7, <1>8, OneLess
  <2>2. RightOrder(r, left)
    BY <1>7, <2>1 DEF RightOrder, Alike, KeepsOrder
  <2> QED BY <1>3, <1>8, <2>1, <2>2, LeavesGood
<1>9. CASE IsQueue(m) /\ m.queueHead + 1 = allocationSize(m)
  BY <1>3, <1>9 DEF Breaks, StaysGood
<1>10. CASE IsQueue(m) /\ m.queueHead + 1 # allocationSize(m)
  <2> DEFINE h == m.queueHead
             n == m.dataSize
             t == m.queueTail
             L == Len(m.data)
             m2 == [m EXCEPT !.queueHead = h + 1]
             r == Holding(m2, left)
  <2>1. /\ n \in Nat /\ n > 0 /\ h \in Nat /\ t \in Nat /\ L \in Nat /\ n <= L /\ h < L /\ TailAt(h, n, t, L)
    BY <1>2, <1>4, <1>10, SoundIs DEF TailAt
  <2>2. h + 1 < L /\ h + 1 \in Nat /\ n - 1 \in Nat /\ n - 1 <= L
    <3>1. h + 1 # L
      BY <1>10 DEF allocationSize
    <3> HIDE DEF h, n, L
    <3> QED BY <2>1, <3>1
  <2>3. TailAt(h + 1, n - 1, t, L)
    BY <2>1, <2>2, TailMoves
  <2>4. /\ m2 \in Multilists /\ m2.data = m.data /\ m2.queueHead = h + 1 /\ m2.queueTail = t /\ Alike(m2, m)
    BY <1>4, <2>2 DEF Multilists, Alike
  <2>5. Leaves(r, left)
    BY <1>3, <1>10
  <2> HIDE DEF m2
  <2>6. Fits(m2, Len(left))
    <3>1. Len(left) = n - 1
      BY <1>4, <1>7
    <3> QED BY <2>2, <2>4, <3>1 DEF Fits
  <2>7. TailAt(m2.queueHead, Len(left), m2.queueTail, Len(m2.data))
    BY <1>4, <1>7, <2>3, <2>4
  <2>8. Sound(r, left) /\ Alike(r, m2)
    <3> DEFINE r2 == [Holding(m2, left) EXCEPT !.queueTail = t]
    <3>1. r2 = r /\ Sound(r2, left) /\ Alike(r2, m2)
      BY <1>7, <2>1, <2>4, <2>6, <2>7, Resized
    <3> HIDE DEF r2
    <3> QED BY <3>1
  <2> HIDE DEF r
  <2>9. RightOrder(r, left)
    BY <1>7, <2>4, <2>8 DEF RightOrder, Alike, KeepsOrder
  <2> QED BY <2>5, <2>8, <2>9, LeavesGood
<1> QED BY <1>8, <1>9, <1>10

LEMMA InsertedAtIs ==
  ASSUME NEW m, NEW list, Sound(m, list), m.dataSize < Len(m.data), ~TailPast(m),
         NEW x \in Int, NEW index \in 0 .. Len(list)
  PROVE  Sound(InsertedAtIndex(m, x, index), InsertAt(list, index + 1, x))
<1> DEFINE items == InsertAt(list, index + 1, x)
           g == InsertedAt(m, x, index)
           r == [g EXCEPT !.sorted = FALSE]
<1>1. list \in Seq(Int) /\ Shown(m) = list
  BY SoundIs
<1>2. items \in Seq(Int) /\ Len(items) = Len(list) + 1
  BY <1>1, InsertedIs
<1>3. g = IF IsQueue(m) THEN [Holding(m, items) EXCEPT !.queueTail = AfterTail(m)] ELSE Holding(m, items)
  BY <1>1 DEF InsertedAt
<1> HIDE DEF items, g
<1>4. Sound(g, items) /\ Alike(g, m) /\ g.dataSize = m.dataSize + 1
  BY <1>2, <1>3, OneMore
<1>5. Sound(r, items)
  BY <1>4, TaggedSound
<1>6. Untagged(g) = r
  BY DEF Untagged
<1>7. InsertedAtIndex(m, x, index) = g \/ InsertedAtIndex(m, x, index) = Untagged(g)
  BY Zenon DEF InsertedAtIndex, g
<1> HIDE DEF r
<1>8. Sound(InsertedAtIndex(m, x, index), items)
  BY <1>4, <1>5, <1>6, <1>7
<1> QED BY <1>8 DEF items

LEMMA InsertAtIndexKeeps ==
  ASSUME Good(ml, kept), NEW x \in MLItems, NEW index \in 0 .. ml.dataSize, InsertAtIndex(x, index)
  PROVE  StaysGood
<1> DEFINE m == ReallocateIfNeeded(ml)
           made == InsertedAtIndex(m, x, index)
           items == InsertAt(kept, index + 1, x)
<1>1. Sound(ml, kept) /\ x \in Int
  BY GoodIs, ItemsAreNumbers
<1>2. Sound(m, kept) /\ Alike(m, ml) /\ m.dataSize = ml.dataSize /\ m.dataSize < Len(m.data)
  BY <1>1, WithSpace
<1>3. IF TailPast(m) THEN Breaks("a write behind the array")
      ELSE IF KeepsOrder(made) /\ ~InOrder(Shown(made), made.ascending)
             THEN Breaks("an insertion at an index of an ordered list")
      ELSE Leaves(made, items)
  BY DEF InsertAtIndex
<1> HIDE DEF m
<1>4. index \in 0 .. Len(kept)
  BY <1>1, SoundIs
<1>5. CASE TailPast(m)
  BY <1>3, <1>5 DEF Breaks, StaysGood
<1>6. CASE ~TailPast(m)
  <2>1. Sound(made, items)
    BY <1>1, <1>2, <1>4, <1>6, InsertedAtIs
  <2> HIDE DEF made, items
  <2>2. CASE KeepsOrder(made) /\ ~InOrder(Shown(made), made.ascending)
    BY <1>3, <1>6, <2>2 DEF Breaks, StaysGood
  <2>3. CASE ~(KeepsOrder(made) /\ ~InOrder(Shown(made), made.ascending))
    <3>1. RightOrder(made, items)
      BY <2>1, <2>3, CheckedOrder
    <3>2. Leaves(made, items)
      BY <1>3, <1>6, <2>3
    <3> QED BY <2>1, <3>1, <3>2, LeavesGood
  <2> QED BY <2>2, <2>3
<1> QED BY <1>5, <1>6

LEMMA PushOppositeKeeps ==
  ASSUME Good(ml, kept), NEW x \in MLItems, PushOpposite(x)
  PROVE  StaysGood
<1> DEFINE m == ReallocateIfNeeded(ml)
           made == IF m.type = "unordered" THEN Appended(m, x) ELSE InsertedAtIndex(m, x, 0)
           after == IF /\ made.sorted /\ made.dataSize > 1
                       /\ ~Ascending(x, Value(made, 1), made.ascending) THEN Untagged(made) ELSE made
           items == IF m.type = "unordered" THEN Append(kept, x) ELSE <<x>> \o kept
<1>1. Sound(ml, kept) /\ x \in Int
  BY GoodIs, ItemsAreNumbers
<1>2. Sound(m, kept) /\ Alike(m, ml) /\ m.dataSize = ml.dataSize /\ m.dataSize < Len(m.data)
  BY <1>1, WithSpace
<1>3. IF TailPast(m) THEN Breaks("a write behind the array")
      ELSE IF KeepsOrder(after) /\ ~InOrder(Shown(after), after.ascending)
             THEN Breaks("a sort state kept by PushOpposite")
      ELSE Leaves(after, items)
  BY DEF PushOpposite
<1> HIDE DEF m
<1>4. kept \in Seq(Int) /\ Shown(m) = kept /\ Len(kept) \in Nat
  BY <1>2, SoundIs
<1>5. CASE TailPast(m)
  BY <1>3, <1>5 DEF Breaks, StaysGood
<1>6. CASE ~TailPast(m)
  <2>1. Sound(made, items)
    <3>1. CASE m.type = "unordered"
      <4>1. items = Append(kept, x) /\ made = Appended(m, x)
        BY <3>1
      <4>2. ~IsQueue(m)
        BY <3>1 DEF IsQueue
      <4>3. made = Holding(m, items)
        BY <1>4, <4>1, <4>2 DEF Appended
      <4>4. items \in Seq(Int) /\ Len(items) = Len(kept) + 1
        BY <1>1, <1>4, <4>1, AppendProperties
      <4> HIDE DEF made, items
      <4>5. Sound(Holding(m, items), items)
        BY <1>2, <1>6, <4>2, <4>4, OneMore
      <4> QED BY <4>3, <4>5
    <3>2. CASE m.type # "unordered"
      <4>1. made = InsertedAtIndex(m, x, 0) /\ items = <<x>> \o kept
        BY <3>2
      <4>2. 0 \in 0 .. Len(kept) /\ 0 + 1 = 1
        BY <1>4
      <4> HIDE DEF made, items
      <4>3. Sound(made, InsertAt(kept, 0 + 1, x))
        BY <1>1, <1>2, <1>6, <4>1, <4>2, InsertedAtIs
      <4>4. InsertAt(kept, 1, x) = items
        BY <1>1, <1>4, <4>1, PutFirst
      <4> QED BY <4>2, <4>3, <4>4
    <3> QED BY <3>1, <3>2
  <2> HIDE DEF made, items
  <2>2. Sound(after, items)
    <3> DEFINE w == [made EXCEPT !.sorted = FALSE]
    <3>1. Sound(w, items)
      BY <2>1, TaggedSound
    <3>2. after = w \/ after = made
      BY DEF Untagged
    <3> HIDE DEF after, w
    <3> QED BY <2>1, <3>1, <3>2
  <2> HIDE DEF after
  <2>3. CASE KeepsOrder(after) /\ ~InOrder(Shown(after), after.ascending)
    BY <1>3, <1>6, <2>3 DEF Breaks, StaysGood
  <2>4. CASE ~(KeepsOrder(after) /\ ~InOrder(Shown(after), after.ascending))
    <3>1. RightOrder(after, items)
      BY <2>2, <2>4, CheckedOrder
    <3>2. Leaves(after, items)
      BY <1>3, <1>6, <2>4
    <3> QED BY <2>2, <3>1, <3>2, LeavesGood
  <2> QED BY <2>3, <2>4
<1> QED BY <1>5, <1>6

LEMMA PopOppositeKeeps ==
  ASSUME Good(ml, kept), PopOpposite
  PROVE  StaysGood
<1>1. Sound(ml, kept) /\ RightOrder(ml, kept) /\ ml.dataSize > 0
  BY GoodIs DEF PopOpposite
<1>2. /\ kept \in Seq(Int) /\ Len(kept) = ml.dataSize /\ ml.dataSize \in Nat /\ ml.ascending \in BOOLEAN
  BY <1>1, SoundIs
<1>3. kept # << >>
  BY <1>1, <1>2
<1>4. /\ Front(kept) \in Seq(Int) /\ Len(Front(kept)) = Len(kept) - 1
      /\ Tail(kept) \in Seq(Int) /\ Len(Tail(kept)) = Len(kept) - 1
      /\ KeepsOrder(ml) => Sorts(Front(kept), ml.ascending) /\ Sorts(Tail(kept), ml.ascending)
  BY <1>1, <1>2, <1>3, FrontIs, TailIs, SublistsSorted DEF RightOrder
<1>5. CASE IsQueue(ml)
  <2> DEFINE m == DeallocateIfNeeded(ml)
             items == Front(kept)
             r == [Holding(m, items) EXCEPT !.queueTail = BeforeTail(m)]
  <2>1. Sound(m, kept) /\ Alike(m, ml) /\ m.dataSize = ml.dataSize
    BY <1>1, WithoutSpace
  <2>2. Leaves([Holding(m, Front(Shown(m))) EXCEPT !.queueTail = BeforeTail(m)], items)
    BY <1>5 DEF PopOpposite
  <2> HIDE DEF m, items
  <2>3. Shown(m) = kept /\ IsQueue(m)
    BY <1>5, <2>1, SoundIs DEF Alike, IsQueue
  <2>4. Leaves(r, items)
    BY <2>2, <2>3 DEF items
  <2>5. Sound(r, items) /\ Alike(r, m)
    <3>1. items \in Seq(Int) /\ Len(items) = Len(kept) - 1 /\ m.dataSize > 0
      BY <1>1, <1>4, <2>1 DEF items
    <3> QED BY <2>1, <2>3, <3>1, OneLess
  <2> HIDE DEF r
  <2>6. RightOrder(r, items)
    BY <1>4, <2>1, <2>5 DEF RightOrder, Alike, KeepsOrder, items
  <2> QED BY <2>4, <2>5, <2>6, LeavesGood
<1>6. CASE ~IsQueue(ml)
  <2> DEFINE m == ReallocateIfNeeded(ml)
             items == Tail(kept)
             r == Holding(m, items)
             u == DeallocateIfNeeded(r)
  <2>1. Sound(m, kept) /\ Alike(m, ml) /\ m.dataSize = ml.dataSize
    BY <1>1, WithSpace
  <2>2. Leaves(DeallocateIfNeeded(Holding(m, Tail(Shown(m)))), items)
    BY <1>6 DEF PopOpposite
  <2> HIDE DEF m, items
  <2>3. Shown(m) = kept /\ ~IsQueue(m)
    BY <1>6, <2>1, SoundIs DEF Alike, IsQueue
  <2>4. Leaves(u, items)
    BY <2>2, <2>3 DEF items
  <2>5. Sound(r, items) /\ Alike(r, m)
    <3>1. items \in Seq(Int) /\ Len(items) = Len(kept) - 1 /\ m.dataSize > 0
      BY <1>1, <1>4, <2>1 DEF items
    <3> QED BY <2>1, <2>3, <3>1, OneLess
  <2> HIDE DEF r
  <2>6. Sound(u, items) /\ Alike(u, r)
    BY <2>5, WithoutSpace
  <2> HIDE DEF u
  <2>7. RightOrder(u, items)
    BY <1>4, <2>1, <2>5, <2>6 DEF RightOrder, Alike, KeepsOrder, items
  <2> QED BY <2>4, <2>6, <2>7, LeavesGood
<1> QED BY <1>5, <1>6

LEMMA RemovedIs ==
  ASSUME NEW items \in Seq(Int), NEW index \in 0 .. Len(items) - 1, NEW type
  PROVE  Removed(items, index, type) \in Seq(Int) /\ Len(Removed(items, index, type)) = Len(items) - 1
<1>1. Len(items) \in Nat /\ Len(items) > 0 /\ items # << >> /\ index + 1 \in 1 .. Len(items)
  BY EmptySeq
<1>2. CASE type = "unordered"
  <2> DEFINE v == Last(items)
             e == [items EXCEPT ![index + 1] = v]
  <2>1. v \in Int
    BY <1>1, ElementOfSeq DEF Last
  <2>2. Removed(items, index, type) = Front(e)
    BY <1>2 DEF Removed
  <2> HIDE DEF v
  <2>3. e \in Seq(Int) /\ Len(e) = Len(items)
    BY <1>1, <2>1, ExceptSeq
  <2> HIDE DEF e
  <2>4. e # << >>
    BY <1>1, <2>3
  <2> QED BY <2>2, <2>3, <2>4, FrontIs
<1>3. CASE type # "unordered"
  <2>1. Removed(items, index, type) = RemoveAt(items, index + 1)
    BY <1>3 DEF Removed
  <2>2. IsTaken(Int, RemoveAt(items, index + 1), items, index)
    BY RemovedIsTaken
  <2> QED BY <2>1, <2>2 DEF IsTaken
<1> QED BY <1>2, <1>3

LEMMA RemoveKeeps ==
  ASSUME Good(ml, kept), NEW index \in 0 .. ml.dataSize - 1, MLRemoveAtIndex(index)
  PROVE  StaysGood
<1> DEFINE items == Removed(kept, index, ml.type)
           made == Holding(ml, items)
           r == IF IsQueue(ml) THEN [made EXCEPT !.queueTail = BeforeTail(ml)] ELSE made
           u == DeallocateIfNeeded(r)
<1>1. Sound(ml, kept)
  BY GoodIs
<1>2. /\ kept \in Seq(Int) /\ Shown(ml) = kept /\ Len(kept) = ml.dataSize /\ ml.dataSize \in Nat
      /\ ml.dataSize > 0 /\ ml.ascending \in BOOLEAN /\ ml \in Multilists /\ Fits(ml, ml.dataSize)
  BY <1>1, SoundIs DEF Sound, Holds
<1>3. IF TailPast(ml) THEN Breaks("a search for the tail that does not end")
      ELSE IF KeepsOrder(made) /\ ~InOrder(Shown(made), made.ascending)
             THEN Breaks("a sort state kept by RemoveAtIndex")
      ELSE Leaves(u, items)
  BY <1>2 DEF MLRemoveAtIndex
<1>4. items \in Seq(Int) /\ Len(items) = Len(kept) - 1
  BY <1>2, RemovedIs
<1> HIDE DEF items
<1>5. Sound(r, items) /\ Alike(r, ml)
  BY <1>1, <1>2, <1>4, OneLess
<1>6. Shown(made) = items /\ Alike(made, ml)
  <2>1. Fits(ml, Len(items))
    BY <1>2, <1>4 DEF Fits
  <2> QED BY <1>2, <1>4, <2>1, HoldingHolds DEF Holds
<1> HIDE DEF made, r
<1>7. Sound(u, items) /\ Alike(u, r)
  BY <1>5, WithoutSpace
<1> HIDE DEF u
<1>8. CASE TailPast(ml)
  BY <1>3, <1>8 DEF Breaks, StaysGood
<1>9. CASE ~TailPast(ml) /\ KeepsOrder(made) /\ ~InOrder(Shown(made), made.ascending)
  BY <1>3, <1>9 DEF Breaks, StaysGood
<1>10. CASE ~TailPast(ml) /\ ~(KeepsOrder(made) /\ ~InOrder(Shown(made), made.ascending))
  <2>1. Leaves(u, items)
    BY <1>3, <1>10
  <2>2. RightOrder(u, items)
    <3>1. (KeepsOrder(u) <=> KeepsOrder(made)) /\ u.ascending = made.ascending /\ made.ascending \in BOOLEAN
      BY <1>2, <1>5, <1>6, <1>7 DEF Alike, KeepsOrder
    <3> QED BY <1>4, <1>6, <1>10, <3>1, InOrderSorts DEF RightOrder
  <2> QED BY <1>7, <2>1, <2>2, LeavesGood
<1> QED BY <1>8, <1>9, <1>10

LEMMA ClearKeeps ==
  ASSUME Good(ml, kept), NEW flag \in BOOLEAN, ClearAll(flag)
  PROVE  StaysGood
<1> DEFINE g == Holding(ml, << >>)
           d == IF flag /\ allocationSize(ml) < SmallBlock THEN << >> ELSE g.data
           tag == ml.type = "ordered"
           r == [g EXCEPT !.queueHead = 0, !.queueTail = 0, !.sorted = tag, !.data = d]
<1>1. Sound(ml, kept) /\ ml \in Multilists /\ Len(ml.data) \in Nat
  BY GoodIs, SoundIs
<1>2. Fits(ml, Len(<< >>)) /\ << >> \in Seq(Int) /\ Len(<< >>) = 0
  BY <1>1, EmptySeq DEF Fits
<1>3. Holds(g, << >>) /\ Alike(g, ml) /\ g.dataSize = 0
  BY <1>1, <1>2, HoldingHolds
<1>4. Leaves(r, << >>)
  BY DEF ClearAll
<1> HIDE DEF g
<1>5. d \in Seq(Int) /\ tag \in BOOLEAN /\ g \in Multilists
  BY <1>3, EmptySeq DEF Holds, Multilists
<1> HIDE DEF d, tag
<1>6. /\ r \in Multilists /\ r.dataSize = 0 /\ r.queueHead = 0 /\ r.queueTail = 0 /\ r.data = d
  BY <1>3, <1>5 DEF Multilists
<1> HIDE DEF r
<1>7. Fits(r, r.dataSize) /\ TailRight(r)
  BY <1>5, <1>6 DEF Fits, TailRight
<1>8. Shown(r) = << >>
  <2>1. Shown(r) \in Seq(Int) /\ Len(Shown(r)) = 0
    BY <1>6, <1>7, ShownIs
  <2> QED BY <1>2, <2>1, SeqEqual
<1>9. Sound(r, << >>)
  BY <1>2, <1>6, <1>7, <1>8 DEF Sound, Holds
<1>10. RightOrder(r, << >>)
  <2>1. \A asc : Sorts(<< >>, asc)
    BY <1>2 DEF Sorts
  <2> QED BY <2>1 DEF RightOrder
<1> QED BY <1>4, <1>9, <1>10, LeavesGood

\* Another sort order with the items, and the items turned with it.
LEMMA Turning ==
  ASSUME NEW m, NEW list, Good(m, list), NEW asc \in BOOLEAN,
         KeepsOrder(m) => asc = ~m.ascending
  PROVE  Good([Holding(m, Reverse(Shown(m))) EXCEPT !.ascending = asc], Reverse(list))
<1> DEFINE items == Reverse(list)
           g == Holding(m, items)
           r == [g EXCEPT !.ascending = asc]
<1>1. Sound(m, list) /\ RightOrder(m, list)
  BY GoodIs
<1>2. /\ m \in Multilists /\ list \in Seq(Int) /\ Shown(m) = list /\ Len(list) = m.dataSize
      /\ m.ascending \in BOOLEAN /\ TailRight(m) /\ Fits(m, m.dataSize)
  BY <1>1, SoundIs DEF Sound, Holds
<1>3. items \in Seq(Int) /\ Len(items) = m.dataSize
  BY <1>2, ReverseIs
<1>4. KeepsOrder(m) => Sorts(items, asc)
  BY <1>1, <1>2, ReverseSorted DEF RightOrder
<1>5. [Holding(m, Reverse(Shown(m))) EXCEPT !.ascending = asc] = r
  BY <1>2
<1> HIDE DEF items
<1>6. /\ Holds(g, items) /\ Alike(g, m) /\ g.dataSize = m.dataSize /\ Len(g.data) = Len(m.data)
      /\ g.queueHead = m.queueHead /\ g.queueTail = m.queueTail
  BY <1>2, <1>3, HoldingHolds
<1> HIDE DEF g
<1>7. g \in Multilists
  BY <1>6 DEF Holds
<1>8. /\ r \in Multilists /\ r.data = g.data /\ r.dataSize = g.dataSize /\ r.queueHead = g.queueHead
      /\ r.queueTail = g.queueTail /\ r.type = g.type /\ r.sorted = g.sorted /\ r.ascending = asc
  BY <1>7 DEF Multilists
<1> HIDE DEF r
<1>9. (IsQueue(r) <=> IsQueue(g)) /\ (IsQueue(r) <=> IsQueue(m)) /\ (KeepsOrder(r) <=> KeepsOrder(m))
  BY <1>6, <1>8 DEF IsQueue, KeepsOrder, Alike
<1>10. Holds(r, items)
  BY <1>6, <1>8, <1>9, HoldsStill
<1>11. TailRight(r)
  BY <1>2, <1>6, <1>8, <1>9 DEF TailRight
<1>12. RightOrder(r, items)
  BY <1>4, <1>8, <1>9 DEF RightOrder
<1>13. Good(r, items)
  BY <1>10, <1>11, <1>12 DEF Good
<1> QED BY <1>5, <1>13 DEF items

LEMMA LeavesAGood ==
  ASSUME NEW r, NEW list, Good(r, list), Leaves(r, list)
  PROVE  StaysGood
  BY DEF Leaves, StaysGood

LEMMA ReverseKeeps ==
  ASSUME Good(ml, kept), ReverseList
  PROVE  StaysGood
<1> DEFINE g == Holding(ml, Reverse(Shown(ml)))
           asc == IF KeepsOrder(ml) THEN ~ml.ascending ELSE ml.ascending
<1>1. ml \in Multilists /\ ml.ascending \in BOOLEAN
  BY GoodIs, SoundIs
<1>2. asc \in BOOLEAN /\ (KeepsOrder(ml) => asc = ~ml.ascending)
  BY <1>1
<1>3. g.ascending = ml.ascending
  <2>1. Shown(ml) \in Seq(Int) /\ Len(Shown(ml)) = ml.dataSize /\ Fits(ml, ml.dataSize)
    BY GoodIs, SoundIs DEF Sound, Holds
  <2>2. Reverse(Shown(ml)) \in Seq(Int) /\ Len(Reverse(Shown(ml))) = ml.dataSize
    BY <2>1, ReverseIs
  <2> QED BY <1>1, <2>1, <2>2, HoldingHolds DEF Alike
<1>4. Leaves([g EXCEPT !.ascending = asc], Reverse(kept))
  <2>1. Leaves([g EXCEPT !.ascending = IF KeepsOrder(ml) THEN ~g.ascending ELSE g.ascending], Reverse(kept))
    BY DEF ReverseList
  <2> HIDE DEF g
  <2> QED BY <1>3, <2>1
<1> HIDE DEF asc
<1>5. Good([g EXCEPT !.ascending = asc], Reverse(kept))
  BY <1>2, Turning
<1> HIDE DEF g
<1> QED BY <1>4, <1>5, LeavesAGood

LEMMA ReallocateKeeps ==
  ASSUME Good(ml, kept), NEW size \in BlockSizes, Reallocate(size)
  PROVE  StaysGood
<1> DEFINE s == IF size < ml.dataSize THEN ml.dataSize ELSE size
           g == ReallocToSize(ml, s)
           r == [g EXCEPT !.preallocationSize = size]
<1>1. Sound(ml, kept) /\ RightOrder(ml, kept) /\ ml.dataSize \in Nat
  BY GoodIs, SoundIs
<1>2. size \in Nat
  BY MultilistAssumption
<1>3. s \in Nat /\ ml.dataSize <= s
  BY <1>1, <1>2
<1>4. Leaves(r, kept)
  BY DEF Reallocate
<1> HIDE DEF s
<1>5. Sound(g, kept) /\ Alike(g, ml)
  BY <1>1, <1>3, ReallocatedHolds
<1> HIDE DEF g
<1>6. g \in Multilists /\ Holds(g, kept) /\ TailRight(g)
  BY <1>5 DEF Sound, Holds
<1>7. /\ r \in Multilists /\ r.data = g.data /\ r.dataSize = g.dataSize /\ r.queueHead = g.queueHead
      /\ r.queueTail = g.queueTail /\ r.type = g.type /\ r.sorted = g.sorted /\ r.ascending = g.ascending
  BY <1>2, <1>6 DEF Multilists
<1> HIDE DEF r
<1>8. (IsQueue(r) <=> IsQueue(g)) /\ (KeepsOrder(r) <=> KeepsOrder(ml)) /\ r.ascending = ml.ascending
  BY <1>5, <1>7 DEF IsQueue, KeepsOrder, Alike
<1>9. Holds(r, kept)
  BY <1>6, <1>7, <1>8, HoldsStill
<1>10. TailRight(r)
  BY <1>6, <1>7, <1>8 DEF TailRight
<1>11. Sound(r, kept) /\ RightOrder(r, kept)
  BY <1>1, <1>8, <1>9, <1>10 DEF Sound, RightOrder
<1> QED BY <1>4, <1>11, LeavesGood

LEMMA TagKeeps ==
  ASSUME Good(ml, kept), TagSorted
  PROVE  StaysGood
<1> DEFINE r == [ml EXCEPT !.sorted = TRUE]
<1>1. Sound(ml, kept) /\ Shown(ml) = kept /\ kept \in Seq(Int) /\ ml.ascending \in BOOLEAN
  BY GoodIs, SoundIs
<1>2. Leaves(r, kept) /\ InOrder(kept, ml.ascending)
  BY <1>1 DEF TagSorted
<1>3. Sorts(kept, ml.ascending)
  BY <1>1, <1>2, InOrderSorts
<1>4. Sound(r, kept) /\ r.ascending = ml.ascending
  BY <1>1, TaggedSound
<1> HIDE DEF r
<1>5. RightOrder(r, kept)
  BY <1>3, <1>4 DEF RightOrder
<1> QED BY <1>2, <1>4, <1>5, LeavesGood

\* The list that begins at cell 0.
LEMMA FromTheFirstCell ==
  ASSUME NEW m \in Multilists, NEW list \in Seq(Int), m.dataSize = Len(list), Len(list) <= Len(m.data),
         Begins(m), \A k \in 1 .. Len(list) : m.data[k] = list[k]
  PROVE  Holds(m, list)
<1>1. Len(list) \in Nat /\ Len(m.data) \in Nat
  BY DEF Multilists
<1>2. Fits(m, m.dataSize)
  BY <1>1 DEF Fits, Begins
<1>3. Shown(m) \in Seq(Int) /\ Len(Shown(m)) = Len(list)
  BY <1>2, ShownIs
<1>4. \A k \in 1 .. Len(list) : Shown(m)[k] = list[k]
  BY <1>2, CellsStraight
<1>5. Shown(m) = list
  BY <1>3, <1>4, SeqEqual
<1> QED BY <1>2, <1>5 DEF Holds

LEMMA CopyKeeps ==
  ASSUME Good(ml, kept), CopySource
  PROVE  StaysGood
<1> DEFINE r == [ml EXCEPT !.data = kept, !.queueHead = 0, !.queueTail = ml.dataSize]
<1>1. /\ Sound(ml, kept) /\ RightOrder(ml, kept) /\ Shown(ml) = kept /\ kept \in Seq(Int)
      /\ ml \in Multilists /\ ml.dataSize = Len(kept) /\ ml.dataSize \in Nat
  BY GoodIs, SoundIs
<1>2. Leaves(r, kept)
  BY <1>1 DEF CopySource
<1>3. /\ r \in Multilists /\ r.data = kept /\ r.dataSize = Len(kept) /\ r.queueHead = 0
      /\ r.queueTail = r.dataSize /\ Alike(r, ml)
  BY <1>1 DEF Multilists, Alike
<1> HIDE DEF r
<1>4. Holds(r, kept)
  <2>1. Len(kept) <= Len(r.data)
    BY <1>1, <1>3
  <2> QED BY <1>1, <1>3, <2>1, FromTheFirstCell DEF Begins
<1>5. TailRight(r)
  BY <1>1, <1>3 DEF TailRight
<1>6. Sound(r, kept) /\ RightOrder(r, kept)
  BY <1>1, <1>3, <1>4, <1>5, AlikeOrder DEF Sound
<1> QED BY <1>2, <1>6, LeavesGood

LEMMA SortedFromKeeps ==
  ASSUME NEW m, NEW list, Good(m, list), NEW force \in BOOLEAN, SortedFrom(m, list, force)
  PROVE  StaysGood
<1> DEFINE t == Sorted(list, m.ascending)
           c == SortedCells(m)
           r == [c EXCEPT !.sorted = TRUE]
<1>1. Sound(m, list) /\ RightOrder(m, list) /\ m.dataSize \in Nat /\ m.queueHead \in Nat
  BY GoodIs, SoundIs
<1>2. CASE KeepsOrder(m) /\ ~force
  <2>1. Leaves(m, list)
    BY <1>2 DEF SortedFrom
  <2> QED BY <2>1, LeavesAGood
<1>3. CASE ~(KeepsOrder(m) /\ ~force) /\ IsQueue(m) /\ m.queueHead # 0 /\ m.dataSize > 1
  <2>1. Breaks("a sort of a queue that does not begin at cell 0")
    BY <1>3 DEF SortedFrom
  <2> QED BY <2>1 DEF Breaks, StaysGood
<1>4. CASE ~(KeepsOrder(m) /\ ~force) /\ ~(IsQueue(m) /\ m.queueHead # 0 /\ m.dataSize > 1)
  <2>1. Leaves(r, t)
    BY <1>4 DEF SortedFrom
  <2>2. Begins(m) \/ m.dataSize <= 1
    BY <1>1, <1>4 DEF Begins
  <2>3. Holds(m, list) /\ TailRight(m)
    BY <1>1 DEF Sound
  <2>4. /\ Holds(c, t) /\ Alike(c, m) /\ c.dataSize = m.dataSize /\ Len(c.data) = Len(m.data)
        /\ c.queueHead = m.queueHead /\ c.queueTail = m.queueTail /\ Sorts(t, m.ascending)
    BY <2>2, <2>3, SortedCellsSorts
  <2> HIDE DEF c, t
  <2>5. TailRight(c)
    BY <2>3, <2>4 DEF TailRight, IsQueue, Alike
  <2>6. Sound(c, t) /\ c.ascending = m.ascending
    BY <2>4, <2>5 DEF Sound, Alike
  <2>7. Sound(r, t) /\ r.ascending = c.ascending
    BY <2>6, TaggedSound
  <2> HIDE DEF r
  <2>8. RightOrder(r, t)
    BY <2>4, <2>6, <2>7 DEF RightOrder
  <2> QED BY <2>1, <2>7, <2>8, LeavesGood
<1> QED BY <1>2, <1>3, <1>4

LEMMA InSortOrderGood ==
  ASSUME Good(ml, kept), NEW asc \in BOOLEAN
  PROVE  Good(InSortOrder(asc), KeptInSortOrder(asc))
<1>1. Sound(ml, kept) /\ RightOrder(ml, kept) /\ ml.ascending \in BOOLEAN /\ ml \in Multilists
  BY GoodIs, SoundIs
<1>2. CASE Turned(asc)
  <2>1. KeepsOrder(ml) => asc = ~ml.ascending
    BY <1>1, <1>2 DEF Turned
  <2>2. Good([Holding(ml, Reverse(Shown(ml))) EXCEPT !.ascending = asc], Reverse(kept))
    BY <2>1, Turning
  <2> QED BY <1>2, <2>2 DEF InSortOrder, KeptInSortOrder
<1>3. CASE ~Turned(asc)
  <2> DEFINE r == [ml EXCEPT !.ascending = asc]
  <2>1. InSortOrder(asc) = r /\ KeptInSortOrder(asc) = kept
    BY <1>3 DEF InSortOrder, KeptInSortOrder
  <2>2. /\ r \in Multilists /\ r.data = ml.data /\ r.dataSize = ml.dataSize /\ r.queueHead = ml.queueHead
        /\ r.queueTail = ml.queueTail /\ r.type = ml.type /\ r.sorted = ml.sorted /\ r.ascending = asc
    BY <1>1 DEF Multilists
  <2> HIDE DEF r
  <2>3. (IsQueue(r) <=> IsQueue(ml)) /\ (KeepsOrder(r) <=> KeepsOrder(ml))
    BY <2>2 DEF IsQueue, KeepsOrder
  <2>4. Holds(r, kept)
    BY <1>1, <2>2, <2>3, HoldsStill DEF Sound
  <2>5. TailRight(r)
    BY <1>1, <2>2, <2>3 DEF Sound, TailRight
  <2>6. KeepsOrder(ml) => asc = ml.ascending
    BY <1>3 DEF Turned
  <2>7. RightOrder(r, kept)
    BY <1>1, <2>2, <2>3, <2>6 DEF RightOrder
  <2> QED BY <2>1, <2>4, <2>5, <2>7 DEF Good
<1> QED BY <1>2, <1>3

LEMMA OrderKeeps ==
  ASSUME Good(ml, kept)
  PROVE  /\ \A flag \in BOOLEAN : Sort(flag) \/ SetSortOrder(flag) => StaysGood
         /\ FindIntersection => StaysGood
<1>1. ASSUME NEW flag \in BOOLEAN, Sort(flag) PROVE StaysGood
  BY <1>1, SortedFromKeeps DEF Sort
<1>2. ASSUME NEW flag \in BOOLEAN, SetSortOrder(flag) PROVE StaysGood
  <2>1. Good(InSortOrder(flag), KeptInSortOrder(flag)) /\ Leaves(InSortOrder(flag), KeptInSortOrder(flag))
    BY <1>2, InSortOrderGood DEF SetSortOrder
  <2> QED BY <2>1, LeavesAGood
<1>3. ASSUME FindIntersection PROVE StaysGood
  <2>1. Good(InSortOrder(TRUE), KeptInSortOrder(TRUE))
    BY InSortOrderGood
  <2>2. SortedFrom(InSortOrder(TRUE), KeptInSortOrder(TRUE), FALSE)
    BY <1>3 DEF FindIntersection
  <2> QED BY <2>1, <2>2, SortedFromKeeps
<1> QED BY <1>1, <1>2, <1>3

\* A ring made straight begins at cell 0.
LEMMA StraightHolds ==
  ASSUME NEW m, NEW list, Sound(m, list), IsQueue(m)
  PROVE  LET r == Straight(m)
         IN  /\ Holds(r, list) /\ Alike(r, m) /\ r.dataSize = m.dataSize /\ Begins(r)
<1>1. /\ m \in Multilists /\ list \in Seq(Int) /\ Shown(m) = list /\ Len(list) = m.dataSize
      /\ m.dataSize \in Nat /\ m.queueHead \in Nat /\ m.queueTail \in Nat
      /\ m.dataSize <= Len(m.data) /\ Len(m.data) \in Nat
  BY SoundIs
<1>2. CASE m.queueTail < m.queueHead
  <2> DEFINE r == ReallocToSize(m, m.dataSize)
  <2>1. Straight(m) = r
    BY <1>2 DEF Straight
  <2>2. m.dataSize > 0
    BY <1>1, <1>2 DEF Sound, TailRight
  <2>3. r.queueHead = 0
    <3> DEFINE moved == [m EXCEPT !.data = [c \in 1 .. m.dataSize |-> IF c <= m.dataSize THEN Shown(m)[c]
                                                                       ELSE BlankCell]]
    <3>1. r = [moved EXCEPT !.queueHead = 0, !.queueTail = m.dataSize]
      BY <2>2 DEF ReallocToSize
    <3>2. moved.queueHead = m.queueHead /\ "queueHead" \in DOMAIN moved
      BY <1>1 DEF Multilists
    <3> HIDE DEF moved, r
    <3> QED BY <3>1, <3>2
  <2>4. m.dataSize <= m.dataSize
    BY <1>1
  <2>5. Sound(r, list) /\ Alike(r, m) /\ r.dataSize = m.dataSize
    BY <1>1, <2>4, ReallocatedHolds
  <2> HIDE DEF r
  <2> QED BY <2>1, <2>3, <2>5 DEF Sound, Begins
<1>3. CASE ~(m.queueTail < m.queueHead)
  <2> DEFINE s == [m EXCEPT !.queueHead = 0]
             r == Holding(s, Shown(m))
  <2>1. Straight(m) = r
    BY <1>3 DEF Straight
  <2>2. s \in Multilists /\ s.data = m.data /\ s.queueHead = 0 /\ Alike(s, m)
    BY <1>1 DEF Multilists, Alike
  <2> HIDE DEF s
  <2>3. Fits(s, Len(list))
    BY <1>1, <2>2 DEF Fits
  <2>4. Holds(r, list) /\ Alike(r, s) /\ r.dataSize = Len(list) /\ r.queueHead = s.queueHead
    BY <1>1, <2>2, <2>3, HoldingHolds
  <2> HIDE DEF r
  <2> QED BY <1>1, <2>1, <2>2, <2>4 DEF Alike, Begins
<1> QED BY <1>2, <1>3

LEMMA SetTypeKeeps ==
  ASSUME Good(ml, kept), NEW new \in Types, SetMultilistType(new)
  PROVE  StaysGood
<1> DEFINE old == ml.type
           m == IF old = "queue" THEN Straight(ml) ELSE ml
           sorts == new = "ordered" /\ ~ml.sorted
           tags == old = "ordered" \/ new = "ordered"
           c == IF sorts THEN SortedCells(m) ELSE m
           list == IF sorts THEN Sorted(kept, ml.ascending) ELSE kept
           head == IF new = "queue" THEN 0 ELSE c.queueHead
           tail == IF new = "queue" THEN m.dataSize ELSE c.queueTail
           tag == c.sorted \/ tags
           made == [c EXCEPT !.type = new, !.sorted = tag, !.queueHead = head, !.queueTail = tail]
<1>1. Sound(ml, kept) /\ RightOrder(ml, kept) /\ new # old
  BY GoodIs DEF SetMultilistType
<1>2. Breaks("a full ring made straight in place") \/ Leaves(made, list)
  <2>1. \/ Breaks("a full ring made straight in place")
        \/ Leaves([c EXCEPT !.type = new, !.sorted = @ \/ tags,
                            !.queueHead = IF new = "queue" THEN 0 ELSE @,
                            !.queueTail = IF new = "queue" THEN m.dataSize ELSE @], list)
    BY DEF SetMultilistType
  <2> HIDE DEF c, m, list, tags
  <2> QED BY <2>1
<1>3. Holds(m, kept) /\ Alike(m, ml) /\ m.dataSize = ml.dataSize /\ Begins(m)
  <2>1. CASE old = "queue"
    BY <1>1, <2>1, StraightHolds DEF IsQueue
  <2>2. CASE old # "queue"
    BY <1>1, <2>2 DEF Sound, Alike, Begins, IsQueue
  <2> QED BY <2>1, <2>2
<1> HIDE DEF m
<1>4. /\ Holds(c, list) /\ Alike(c, ml) /\ c.dataSize = ml.dataSize /\ Begins(c)
      /\ (sorts => Sorts(list, ml.ascending))
  <2>1. CASE sorts
    <3>1. m.ascending = ml.ascending
      BY <1>3 DEF Alike
    <3>2. /\ Holds(SortedCells(m), Sorted(kept, m.ascending)) /\ Alike(SortedCells(m), m)
          /\ SortedCells(m).dataSize = m.dataSize /\ SortedCells(m).queueHead = m.queueHead
          /\ Sorts(Sorted(kept, m.ascending), m.ascending)
      BY <1>3, SortedCellsSorts
    <3> QED BY <1>3, <2>1, <3>1, <3>2 DEF Alike, Begins, IsQueue
  <2>2. CASE ~sorts
    BY <1>3, <2>2
  <2> QED BY <2>1, <2>2
<1>5. RightOrder(made, list)
  <2>1. c.ascending = ml.ascending /\ c.sorted = ml.sorted /\ c \in Multilists
    BY <1>4 DEF Alike, Holds
  <2>2. made.ascending = ml.ascending /\ made.type = new /\ made.sorted = (ml.sorted \/ tags)
    <3> HIDE DEF c, head, tail, tags
    <3> QED BY <2>1 DEF Multilists
  <2> HIDE DEF made
  <2>3. CASE sorts
    BY <1>4, <2>2, <2>3 DEF RightOrder
  <2>4. CASE ~sorts
    <3>1. KeepsOrder(made) => KeepsOrder(ml)
      BY <2>2, <2>4 DEF KeepsOrder
    <3> QED BY <1>1, <2>2, <2>4, <3>1 DEF RightOrder
  <2> QED BY <2>3, <2>4
<1> HIDE DEF list, sorts
<1>6. /\ c \in Multilists /\ Fits(c, c.dataSize) /\ list \in Seq(Int) /\ Shown(c) = list
      /\ Len(list) = c.dataSize /\ c.dataSize \in Nat /\ Len(c.data) \in Nat
  <2>1. c \in Multilists /\ Fits(c, c.dataSize) /\ list \in Seq(Int) /\ Shown(c) = list
    BY <1>4 DEF Holds
  <2>2. c.dataSize \in Nat /\ Len(c.data) \in Nat
    <3> HIDE DEF c
    <3> QED BY <2>1 DEF Multilists
  <2> HIDE DEF c
  <2> QED BY <2>1, <2>2, ShownIs
<1>7. /\ head \in Nat /\ tail \in Nat /\ tag \in BOOLEAN
      /\ (new = "queue" => head = 0 /\ tail = c.dataSize)
  <2> HIDE DEF c
  <2> QED BY <1>3, <1>4, <1>6 DEF Multilists
<1> HIDE DEF c, head, tail, tag
<1>8. /\ made \in Multilists /\ made.data = c.data /\ made.dataSize = c.dataSize /\ made.type = new
      /\ made.queueHead = head /\ made.queueTail = tail
  BY <1>6, <1>7 DEF Multilists
<1> HIDE DEF made
<1>9. \A k \in 1 .. Len(list) : made.data[k] = list[k]
  BY <1>4, <1>6, <1>8, CellsStraight
<1>10. Begins(made) /\ TailRight(made)
  BY <1>6, <1>7, <1>8 DEF Begins, TailRight, IsQueue
<1>11. Holds(made, list)
  <2>1. made.dataSize = Len(list) /\ Len(list) <= Len(made.data)
    BY <1>6, <1>8 DEF Fits
  <2> QED BY <1>6, <1>8, <1>9, <1>10, <2>1, FromTheFirstCell
<1>12. Sound(made, list)
  BY <1>10, <1>11 DEF Sound
<1>13. CASE Breaks("a full ring made straight in place")
  BY <1>13 DEF Breaks, StaysGood
<1>14. CASE Leaves(made, list)
  BY <1>5, <1>12, <1>14, LeavesGood
<1> QED BY <1>2, <1>13, <1>14

-----------------------------------------------------------------------------
\* The invariant: until a call breaks it, the array holds the list.
HoldsTheList == broken = "no" => Good(ml, kept)

LEMMA MultilistBegins ==
  ASSUME MultilistInit
  PROVE  HoldsTheList
<1>1. PICK t \in Types :
        ml = [data |-> << >>, dataSize |-> 0, queueHead |-> 0, queueTail |-> 0,
              preallocationSize |-> 0, sorted |-> FALSE, ascending |-> TRUE, type |-> t]
  BY DEF MultilistInit
<1>2. /\ ml.data = << >> /\ ml.dataSize = 0 /\ ml.queueHead = 0 /\ ml.queueTail = 0
      /\ << >> \in Seq(Int) /\ Len(<< >>) = 0 /\ kept = << >>
  BY <1>1 DEF MultilistInit
<1>3. ml \in Multilists
  BY <1>1, <1>2 DEF Multilists
<1>4. Holds(ml, kept)
  <2>1. ml.dataSize = Len(kept) /\ Len(kept) <= Len(ml.data) /\ kept \in Seq(Int)
    BY <1>2
  <2>2. Begins(ml)
    BY <1>2 DEF Begins
  <2>3. \A k \in 1 .. Len(kept) : ml.data[k] = kept[k]
    BY <1>2
  <2> QED BY <1>3, <2>1, <2>2, <2>3, FromTheFirstCell
<1>5. TailRight(ml) /\ RightOrder(ml, kept)
  BY <1>2 DEF TailRight, RightOrder, Sorts
<1> QED BY <1>4, <1>5 DEF Good, HoldsTheList

LEMMA MultilistStep ==
  ASSUME HoldsTheList, [MultilistNext]_mlVars
  PROVE  HoldsTheList'
<1>1. CASE UNCHANGED mlVars
  BY <1>1 DEF mlVars, HoldsTheList, Good, Holds, TailRight, RightOrder, Fits, KeepsOrder, IsQueue, Sorts
<1>2. CASE MultilistNext
  <2>1. Good(ml, kept)
    BY <1>2 DEF MultilistNext, HoldsTheList
  <2> SUFFICES StaysGood
    BY DEF StaysGood, HoldsTheList
  <2>2. ASSUME NEW x \in MLItems, MLPush(x) PROVE StaysGood
    BY <2>1, <2>2, PushKeeps
  <2>3. ASSUME NEW x \in MLItems, PushOpposite(x) PROVE StaysGood
    BY <2>1, <2>3, PushOppositeKeeps
  <2>4. ASSUME NEW x \in MLItems, NEW index \in 0 .. ml.dataSize, InsertAtIndex(x, index) PROVE StaysGood
    BY <2>1, <2>4, InsertAtIndexKeeps
  <2>5. ASSUME MLPop PROVE StaysGood
    BY <2>1, <2>5, PopKeeps
  <2>6. ASSUME PopOpposite PROVE StaysGood
    BY <2>1, <2>6, PopOppositeKeeps
  <2>7. ASSUME ReverseList PROVE StaysGood
    BY <2>1, <2>7, ReverseKeeps
  <2>8. ASSUME TagSorted PROVE StaysGood
    BY <2>1, <2>8, TagKeeps
  <2>9. ASSUME CopySource PROVE StaysGood
    BY <2>1, <2>9, CopyKeeps
  <2>10. ASSUME FindIntersection PROVE StaysGood
    BY <2>1, <2>10, OrderKeeps
  <2>11. ASSUME NEW index \in 0 .. ml.dataSize - 1, MLRemoveAtIndex(index) PROVE StaysGood
    BY <2>1, <2>11, RemoveKeeps
  <2>12. ASSUME NEW size \in BlockSizes, Reallocate(size) PROVE StaysGood
    BY <2>1, <2>12, ReallocateKeeps
  <2>13. ASSUME NEW flag \in BOOLEAN, ClearAll(flag) PROVE StaysGood
    BY <2>1, <2>13, ClearKeeps
  <2>14. ASSUME NEW flag \in BOOLEAN, Sort(flag) \/ SetSortOrder(flag) PROVE StaysGood
    BY <2>1, <2>14, OrderKeeps
  <2>15. ASSUME NEW new \in Types, SetMultilistType(new) PROVE StaysGood
    BY <2>1, <2>15, SetTypeKeeps
  <2> QED BY <1>2, <2>2, <2>3, <2>4, <2>5, <2>6, <2>7, <2>8, <2>9, <2>10, <2>11, <2>12, <2>13,
             <2>14, <2>15 DEF MultilistNext
<1> QED BY <1>1, <1>2

\* Until a call leaves it wrong, however the list changes its kind, its order and its
\* array: it shows exactly its caller's list, a list it says is sorted is (the quick
\* sort orders its cells), the search finds what there is and nothing else, and
\* FindIntersection compares it with another list exactly.
THEOREM MultilistCorrect == MultilistSpec => []ShowsTheList
<1>1. MultilistInit => HoldsTheList
  BY MultilistBegins
<1>2. HoldsTheList /\ [MultilistNext]_mlVars => HoldsTheList'
  BY MultilistStep
<1>3. HoldsTheList => ShowsTheList
  BY GoodShows DEF HoldsTheList, ShowsTheList
<1> QED BY <1>1, <1>2, <1>3, PTL DEF MultilistSpec
=============================================================================
