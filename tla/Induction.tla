------------------------------ MODULE Induction ------------------------------
(***************************************************************************)
(* Induction over the natural numbers for sets, and the functions that are *)
(* defined by recursion over them.  A proof by induction says of a set of  *)
(* numbers that it has 0 and with n also n + 1; a property of n is the set *)
(* of the n that have it.  With them are loops that end, facts about       *)
(* remainders, an element put into a sequence or taken out of it, and a    *)
(* sequence in another order; and what BinarySearch answers.               *)
(***************************************************************************)
EXTENDS Integers, SequencesExt, BinarySearch, FiniteSetTheorems, SequenceTheorems,
        WellFoundedInduction, TLAPS

\* A set of natural numbers has a least one.
LEMMA LeastNatural ==
  ASSUME NEW S \in SUBSET Nat, S # {}
  PROVE  \E n \in S : \A m \in S : n <= m
<1> DEFINE less == {p \in Nat \X Nat : p[1] < p[2]}
<1>1. IsWellFoundedOn(less, Nat)
  BY NatLessThanWellFounded DEF OpToRel
<1>2. \E x \in S : \A y \in S : ~(<<y, x>> \in less)
  <2>1. S \subseteq Nat
    OBVIOUS
  <2> HIDE DEF less
  <2> QED BY <1>1, <2>1, WFMin, Zenon
<1>3. ASSUME NEW x \in S, NEW y \in S, ~(<<y, x>> \in less) PROVE x <= y
  BY <1>3
<1> QED BY <1>2, <1>3

LEMMA NatInSet ==
  ASSUME NEW S, 0 \in S, \A n \in Nat : n \in S => n + 1 \in S
  PROVE  Nat \subseteq S
<1> SUFFICES ASSUME Nat \ S # {} PROVE FALSE
  OBVIOUS
<1>1. PICK n \in Nat \ S : \A m \in Nat \ S : n <= m
  BY LeastNatural
<1>2. n # 0 /\ n - 1 \in Nat /\ n - 1 \notin Nat \ S
  BY <1>1
<1> QED BY <1>1, <1>2

\* The same up to a number.
LEMMA UpToInSet ==
  ASSUME NEW k \in Nat, NEW S, 0 \in S, \A n \in 0 .. k - 1 : n \in S => n + 1 \in S
  PROVE  0 .. k \subseteq S
<1> DEFINE below == {n \in Nat : n <= k => n \in S}
<1>1. 0 \in below /\ \A n \in Nat : n \in below => n + 1 \in below
  OBVIOUS
<1>2. Nat \subseteq below
  <2> HIDE DEF below
  <2> QED BY <1>1, NatInSet
<1> QED BY <1>2

-----------------------------------------------------------------------------
(***************************************************************************)
(* A step repeated n times.                                                *)
(***************************************************************************)
LEMMA Iterated ==
  ASSUME NEW T, NEW a \in T, NEW F \in [T -> T]
  PROVE  \E f \in [Nat -> T] : f[0] = a /\ \A n \in Nat : f[n + 1] = F[f[n]]
<1> DEFINE UpTo(n, g) == g \in [0 .. n -> T] /\ g[0] = a /\ \A j \in 0 .. n - 1 : g[j + 1] = F[g[j]]
           S == {n \in Nat : \E g : UpTo(n, g)}
<1>1. 0 \in S
  <2>1. UpTo(0, [j \in 0 .. 0 |-> a])
    OBVIOUS
  <2> QED BY <2>1
<1>2. ASSUME NEW n \in Nat, n \in S PROVE n + 1 \in S
  <2>1. PICK g : UpTo(n, g)
    BY <1>2
  <2>2. UpTo(n + 1, [j \in 0 .. n + 1 |-> IF j = n + 1 THEN F[g[n]] ELSE g[j]])
    BY <2>1
  <2> HIDE DEF UpTo
  <2> QED BY <2>2
<1>3. \A n \in Nat : \E g : UpTo(n, g)
  <2>1. Nat \subseteq S
    <3> HIDE DEF S
    <3> QED BY <1>1, <1>2, NatInSet
  <2> QED BY <2>1
<1>4. ASSUME NEW g, NEW h, NEW m \in Nat, NEW n \in Nat, m <= n, UpTo(m, g), UpTo(n, h)
      PROVE  \A j \in 0 .. m : g[j] = h[j]
  <2> DEFINE A == {j \in Nat : g[j] = h[j]}
  <2>1. 0 \in A /\ \A j \in 0 .. m - 1 : j \in A => j + 1 \in A
    BY <1>4
  <2>2. 0 .. m \subseteq A
    <3> HIDE DEF A
    <3> QED BY <2>1, UpToInSet
  <2> QED BY <2>2
<1> DEFINE G(n) == CHOOSE g : UpTo(n, g)
           f == [n \in Nat |-> G(n)[n]]
<1>5. \A n \in Nat : UpTo(n, G(n))
  <2> HIDE DEF UpTo
  <2> QED BY <1>3
<1>6. f \in [Nat -> T]
  <2>1. \A n \in Nat : G(n)[n] \in T
    <3> HIDE DEF G
    <3> QED BY <1>5
  <2> HIDE DEF G
  <2> QED BY <2>1
<1>7. f[0] = a
  BY <1>5
<1>8. ASSUME NEW n \in Nat PROVE f[n + 1] = F[f[n]]
  <2>1. UpTo(n, G(n)) /\ UpTo(n + 1, G(n + 1))
    <3> HIDE DEF G, UpTo
    <3> QED BY <1>5
  <2>2. G(n + 1)[n] = G(n)[n]
    <3> HIDE DEF G, UpTo
    <3> QED BY <2>1, <1>4, n <= n + 1
  <2>3. G(n + 1)[n + 1] = F[G(n + 1)[n]]
    <3> DEFINE g == G(n + 1)
    <3>1. UpTo(n + 1, g)
      <4> HIDE DEF G, UpTo
      <4> QED BY <2>1 DEF g
    <3>2. n \in 0 .. (n + 1) - 1
      OBVIOUS
    <3> HIDE DEF g
    <3>3. \A j \in 0 .. (n + 1) - 1 : g[j + 1] = F[g[j]]
      BY <3>1
    <3>4. g[n + 1] = F[g[n]]
      BY <3>2, <3>3
    <3> QED BY <3>4 DEF g
  <2> HIDE DEF G
  <2> QED BY <2>2, <2>3
<1> HIDE DEF f
<1> QED BY <1>6, <1>7, <1>8

\* A set that grows step by step, and no more once a step has not made it grow, has
\* stopped to grow after as many steps as it may have elements.
LEMMA StopsGrowing ==
  ASSUME NEW U, IsFiniteSet(U), NEW k \in Nat, Cardinality(U) <= k,
         NEW w, \A n \in Nat : w[n] \subseteq U /\ w[n] \subseteq w[n + 1],
         \A n \in Nat : w[n + 1] = w[n] => w[n + 2] = w[n + 1]
  PROVE  w[k + 1] = w[k]
<1> DEFINE S == {n \in Nat : w[n + 1] = w[n] \/ Cardinality(w[n]) >= n}
<1>1. \A n \in Nat : IsFiniteSet(w[n]) /\ Cardinality(w[n]) \in Nat
  BY FS_Subset, FS_CardinalityType
<1>2. 0 \in S
  BY <1>1
<1>3. ASSUME NEW n \in Nat, n \in S PROVE n + 1 \in S
  <2>1. n + 1 \in Nat /\ (n + 1) + 1 = n + 2
    OBVIOUS
  <2>2. CASE w[n + 1] = w[n]
    BY <2>1, <2>2
  <2>3. CASE w[n + 1] # w[n]
    <3>1. Cardinality(w[n]) >= n
      BY <1>3, <2>3
    <3>2. /\ Cardinality(w[n]) <= Cardinality(w[n + 1])
          /\ Cardinality(w[n]) # Cardinality(w[n + 1])
      BY <1>1, <2>1, <2>3, FS_Subset
    <3>3. Cardinality(w[n]) \in Nat /\ Cardinality(w[n + 1]) \in Nat
      BY <1>1, <2>1
    <3>4. Cardinality(w[n + 1]) >= n + 1
      BY <3>1, <3>2, <3>3
    <3> QED BY <2>1, <3>4
  <2> QED BY <2>2, <2>3
<1>4. k \in S
  <2>1. Nat \subseteq S
    <3> HIDE DEF S
    <3> QED BY <1>2, <1>3, NatInSet
  <2> QED BY <2>1
<1>5. CASE Cardinality(w[k]) >= k
  <2>1. w[k] \subseteq U /\ w[k] \subseteq w[k + 1] /\ w[k + 1] \subseteq U
    <3>1. k + 1 \in Nat
      OBVIOUS
    <3> QED BY <3>1
  <2>2. Cardinality(w[k]) = Cardinality(U)
    <3>1. Cardinality(w[k]) <= Cardinality(U)
      BY <2>1, FS_Subset
    <3>2. Cardinality(w[k]) \in Nat /\ Cardinality(U) \in Nat
      BY <1>1, FS_CardinalityType
    <3> QED BY <1>5, <3>1, <3>2
  <2>3. w[k] = U
    BY <2>1, <2>2, FS_Subset
  <2> QED BY <2>1, <2>3
<1> QED BY <1>4, <1>5
-----------------------------------------------------------------------------
\* As many elements as numbers, if each has one number.
LEMMA CountedByNumbers ==
  ASSUME NEW P, NEW n \in Nat, NEW c, \A i \in 0 .. n - 1 : c[i] \in P,
         \A i, j \in 0 .. n - 1 : c[i] = c[j] => i = j,
         \A p \in P : \E i \in 0 .. n - 1 : c[i] = p
  PROVE  IsFiniteSet(P) /\ Cardinality(P) = n
<1> DEFINE I == 0 .. n - 1
           f == [i \in I |-> c[i]]
<1>1. IsFiniteSet(I) /\ Cardinality(I) = n
  <2>1. 0 \in Int /\ n - 1 \in Int /\ 0 <= n - 1 + 1 /\ n - 1 - 0 + 1 = n
    OBVIOUS
  <2> QED BY <2>1, FS_Interval
<1>2. f \in Bijection(I, P)
  BY DEF Bijection, Injection, Surjection, IsInjective
<1>3. ExistsBijection(I, P)
  <2> HIDE DEF f, I
  <2> QED BY <1>2 DEF ExistsBijection
<1> HIDE DEF I
<1> QED BY <1>1, <1>3, FS_Bijection

\* The sums of the first numbers of a sequence.
LEMMA SumsExist ==
  ASSUME NEW n \in Nat, NEW a, \A k \in 1 .. n : a[k] \in Int
  PROVE  \E f : f = [k \in 0 .. n |-> IF k = 0 THEN 0 ELSE f[k - 1] + a[k]]
<1> DEFINE Sums(f, m) == f = [k \in 0 .. m |-> IF k = 0 THEN 0 ELSE f[k - 1] + a[k]]
           S == {m \in 0 .. n : \E f : Sums(f, m)}
<1>1. 0 \in S
  <2>1. Sums([k \in 0 .. 0 |-> 0], 0)
    OBVIOUS
  <2> HIDE DEF Sums
  <2> QED BY <2>1
<1>2. ASSUME NEW m \in 0 .. n - 1, m \in S PROVE m + 1 \in S
  <2>1. PICK f : Sums(f, m)
    BY <1>2
  <2> DEFINE g == [k \in 0 .. m + 1 |-> IF k = m + 1 THEN f[m] + a[m + 1] ELSE f[k]]
  <2>2. \A k \in 0 .. m : f[k] = IF k = 0 THEN 0 ELSE f[k - 1] + a[k]
    BY <2>1, Zenon
  <2>3. ASSUME NEW k \in 0 .. m + 1 PROVE g[k] = IF k = 0 THEN 0 ELSE g[k - 1] + a[k]
    <3>1. CASE k = m + 1
      <4>1. k # 0 /\ k - 1 = m /\ k - 1 \in 0 .. m + 1 /\ k - 1 # m + 1
        BY <3>1
      <4> QED BY <3>1, <4>1
    <3>2. CASE k \in 0 .. m
      <4>1. g[k] = f[k]
        BY <3>2
      <4>2. k # 0 => k - 1 \in 0 .. m + 1 /\ k - 1 # m + 1
        BY <3>2
      <4>3. k # 0 => g[k - 1] = f[k - 1]
        BY <4>2
      <4> HIDE DEF g
      <4> QED BY <2>2, <3>2, <4>1, <4>3
    <3> QED BY <3>1, <3>2
  <2>4. g = [k \in 0 .. m + 1 |-> IF k = 0 THEN 0 ELSE g[k - 1] + a[k]]
    <3>1. g = [k \in 0 .. m + 1 |-> g[k]]
      OBVIOUS
    <3> HIDE DEF g
    <3> QED BY <2>3, <3>1
  <2>5. m + 1 \in 0 .. n
    OBVIOUS
  <2> HIDE DEF g
  <2> QED BY <2>4, <2>5
<1>3. n \in S
  <2> HIDE DEF S
  <2>1. 0 .. n \subseteq S
    BY <1>1, <1>2, UpToInSet
  <2> QED BY <2>1
<1> QED BY <1>3

-----------------------------------------------------------------------------
\* Counting modulo M.
LEMMA ModIs ==
  ASSUME NEW M \in Nat, M > 0, NEW x \in Int
  PROVE  x % M \in 0 .. M - 1 /\ \E q \in Int : x = (M * q) + (x % M)
  OBVIOUS
LEMMA ModUnique ==
  ASSUME NEW M \in Nat, M > 0, NEW q \in Int, NEW r \in 0 .. M - 1
  PROVE  (M * q + r) % M = r
<1> DEFINE x == M * q + r
<1>1. PICK p \in Int : x = (M * p) + (x % M)
  BY ModIs
<1>2. x % M \in 0 .. M - 1
  BY ModIs
<1>3. CASE p < q
  <2>1. M * p + M <= M * q
    <3>1. p + 1 <= q
      BY <1>3
    <3>2. M * (p + 1) <= M * q
      BY <3>1
    <3> QED BY <3>2
  <2> QED BY <1>1, <1>2, <2>1
<1>4. CASE q < p
  <2>1. M * q + M <= M * p
    <3>1. q + 1 <= p
      BY <1>4
    <3>2. M * (q + 1) <= M * p
      BY <3>1
    <3> QED BY <3>2
  <2> QED BY <1>1, <1>2, <2>1
<1>5. CASE p = q
  BY <1>1, <1>2, <1>5
<1> QED BY <1>3, <1>4, <1>5

LEMMA ModAdds ==
  ASSUME NEW M \in Nat, M > 0, NEW x \in Int, NEW y \in Int
  PROVE  /\ ((x % M) + y) % M = (x + y) % M
         /\ ((x % M) - (y % M)) % M = (x - y) % M
         /\ x \in 0 .. M - 1 => x % M = x
<1>1. PICK p \in Int : x = (M * p) + (x % M)
  BY ModIs
<1>2. PICK q \in Int : y = (M * q) + (y % M)
  BY ModIs
<1>3. x % M \in 0 .. M - 1 /\ y % M \in 0 .. M - 1
  BY ModIs
<1>4. ((x % M) + y) % M = (x + y) % M
  <2> DEFINE z == (x % M) + y
  <2> z \in Int
    BY <1>3
  <2> HIDE DEF z
  <2>1. PICK r \in Int : z = (M * r) + (z % M)
    BY ModIs
  <2>2. z % M \in 0 .. M - 1
    BY ModIs
  <2>3. x + y = (M * (p + r)) + (z % M)
    BY <1>1, <1>3, <2>1, <2>2 DEF z
  <2>4. p + r \in Int
    OBVIOUS
  <2> QED BY <2>2, <2>3, <2>4, ModUnique DEF z
<1>5. ((x % M) - (y % M)) % M = (x - y) % M
  <2> DEFINE z == (x % M) - (y % M)
  <2> z \in Int
    BY <1>3
  <2> HIDE DEF z
  <2>1. PICK r \in Int : z = (M * r) + (z % M)
    BY ModIs
  <2>2. z % M \in 0 .. M - 1
    BY ModIs
  <2>3. x - y = (M * (p - q + r)) + (z % M)
    BY <1>1, <1>2, <1>3, <2>1, <2>2 DEF z
  <2>4. p - q + r \in Int
    OBVIOUS
  <2> QED BY <2>2, <2>3, <2>4, ModUnique DEF z
<1>6. ASSUME x \in 0 .. M - 1 PROVE x % M = x
  <2>1. M * 0 + x = x
    OBVIOUS
  <2> QED BY <1>6, <2>1, ModUnique
<1> QED BY <1>4, <1>5, <1>6

-----------------------------------------------------------------------------
(***************************************************************************)
(* Loops.  A loop goes from a state to the next, step, until one in Stop,  *)
(* and returns res of that; every turn lowers rank, a natural number.  So  *)
(* a function that says this of itself exists, and what every turn keeps   *)
(* holds of the state the loop stops in.                                   *)
(***************************************************************************)
Loop(S, Stop, step, res, f) == f = [s \in S |-> IF s \in Stop THEN res[s] ELSE f[step[s]]]
Ranked(S, Stop, step, rank) ==
  /\ \A s \in S : rank[s] \in Nat
  /\ \A s \in S \ Stop : step[s] \in S /\ rank[step[s]] < rank[s]

LEMMA LoopEnds ==
  ASSUME NEW S, NEW Stop, NEW step, NEW res, NEW rank, Ranked(S, Stop, step, rank)
  PROVE  \E f : Loop(S, Stop, step, res, f)
<1> DEFINE D(n) == {s \in S : rank[s] < n}
           Part(n, f) == \A s \in D(n) : f[s] = IF s \in Stop THEN res[s] ELSE f[step[s]]
           A == {n \in Nat : \E f : Part(n, f)}
<1>1. /\ \A s \in S : rank[s] \in Nat /\ rank[s] + 1 \in Nat /\ s \in D(rank[s] + 1)
      /\ \A n \in Nat : \A s \in D(n + 1) \ Stop : step[s] \in D(n)
      /\ \A n, m \in Nat : n <= m => D(n) \subseteq D(m)
      /\ D(0) = {}
      /\ \A n : D(n) \subseteq S
      /\ \A s \in S \ Stop : step[s] \in S /\ rank[step[s]] + 1 <= rank[s] + 1
  BY DEF Ranked
<1> HIDE DEF D
<1>2. 0 \in A
  <2>1. Part(0, 0)
    BY <1>1
  <2> HIDE DEF Part
  <2> QED BY <2>1
<1>3. ASSUME NEW n \in Nat, n \in A PROVE n + 1 \in A
  <2>1. PICK f : Part(n, f)
    BY <1>3
  <2> DEFINE g == [s \in D(n + 1) |-> IF s \in Stop THEN res[s] ELSE f[step[s]]]
  <2>2. ASSUME NEW s \in D(n + 1) PROVE g[s] = IF s \in Stop THEN res[s] ELSE g[step[s]]
    <3>1. CASE s \in Stop
      BY <3>1
    <3>2. CASE s \notin Stop
      <4>1. step[s] \in D(n) /\ n + 1 \in Nat /\ D(n) \subseteq D(n + 1)
        BY <1>1, <3>2
      <4>2. g[step[s]] = IF step[s] \in Stop THEN res[step[s]] ELSE f[step[step[s]]]
        BY <4>1
      <4>3. f[step[s]] = IF step[s] \in Stop THEN res[step[s]] ELSE f[step[step[s]]]
        BY <2>1, <4>1
      <4>4. g[s] = f[step[s]]
        BY <3>2
      <4> HIDE DEF g
      <4> QED BY <3>2, <4>2, <4>3, <4>4
    <3> QED BY <3>1, <3>2
  <2>3. Part(n + 1, g)
    <3> HIDE DEF g
    <3> QED BY <2>2
  <2> HIDE DEF g, Part
  <2> QED BY <2>3
<1>4. \A n \in Nat : \E f : Part(n, f)
  <2> HIDE DEF Part
  <2>1. Nat \subseteq A
    <3> HIDE DEF A
    <3> QED BY <1>2, <1>3, NatInSet
  <2> QED BY <2>1
<1>5. ASSUME NEW n \in Nat, NEW m \in Nat, n <= m, NEW f, NEW g, Part(n, f), Part(m, g)
      PROVE  \A s \in D(n) : f[s] = g[s]
  <2> DEFINE B == {k \in 0 .. n : \A s \in D(k) : f[s] = g[s]}
  <2>1. 0 \in B
    BY <1>1
  <2>2. ASSUME NEW k \in 0 .. n - 1, k \in B PROVE k + 1 \in B
    <3>1. k \in Nat /\ k + 1 \in Nat /\ k + 1 <= n /\ k + 1 <= m /\ k + 1 \in 0 .. n
      BY <1>5
    <3>2. D(k + 1) \subseteq D(n) /\ D(k + 1) \subseteq D(m)
      BY <1>1, <3>1
    <3>3. ASSUME NEW s \in D(k + 1) PROVE f[s] = g[s]
      <4>1. CASE s \in Stop
        BY <1>5, <3>2, <4>1
      <4>2. CASE s \notin Stop
        <5>1. step[s] \in D(k)
          BY <1>1, <3>1, <4>2
        <5>2. f[step[s]] = g[step[s]]
          BY <2>2, <5>1
        <5> QED BY <1>5, <3>2, <4>2, <5>2
      <4> QED BY <4>1, <4>2
    <3> QED BY <3>1, <3>3
  <2>3. n \in B
    <3>1. 0 .. n \subseteq B
      <4> HIDE DEF B
      <4> QED BY <2>1, <2>2, UpToInSet
    <3> HIDE DEF B
    <3> QED BY <3>1
  <2> QED BY <2>3
<1> DEFINE some(n) == CHOOSE f : Part(n, f)
           F == [s \in S |-> some(rank[s] + 1)[s]]
<1>6. \A n \in Nat : Part(n, some(n))
  <2> HIDE DEF Part
  <2> QED BY <1>4
<1> HIDE DEF some
<1>7. ASSUME NEW s \in S PROVE F[s] = IF s \in Stop THEN res[s] ELSE F[step[s]]
  <2>0. F[s] = some(rank[s] + 1)[s] /\ s \in D(rank[s] + 1) /\ rank[s] + 1 \in Nat
    BY <1>1
  <2>1. CASE s \in Stop
    BY <1>6, <2>0, <2>1
  <2>2. CASE s \notin Stop
    <3>1. /\ step[s] \in S /\ rank[step[s]] + 1 <= rank[s] + 1 /\ rank[step[s]] + 1 \in Nat
          /\ step[s] \in D(rank[step[s]] + 1)
      BY <1>1, <2>2
    <3>2. some(rank[s] + 1)[s] = some(rank[s] + 1)[step[s]]
      BY <1>6, <2>0, <2>2
    <3>3. Part(rank[step[s]] + 1, some(rank[step[s]] + 1)) /\ Part(rank[s] + 1, some(rank[s] + 1))
      <4> HIDE DEF Part
      <4> QED BY <1>6, <2>0, <3>1
    <3>4. some(rank[step[s]] + 1)[step[s]] = some(rank[s] + 1)[step[s]]
      <4> HIDE DEF Part
      <4> QED BY <1>5, <2>0, <3>1, <3>3
    <3>5. F[step[s]] = some(rank[step[s]] + 1)[step[s]]
      BY <3>1
    <3> HIDE DEF F
    <3> QED BY <2>0, <2>2, <3>2, <3>4, <3>5
  <2> QED BY <2>1, <2>2
<1>8. F = [s \in S |-> IF s \in Stop THEN res[s] ELSE F[step[s]]]
  <2>1. F = [s \in S |-> F[s]]
    OBVIOUS
  <2> HIDE DEF F
  <2> QED BY <1>7, <2>1
<1> HIDE DEF F
<1> QED BY <1>8 DEF Loop

LEMMA LoopKeeps ==
  ASSUME NEW S, NEW Stop, NEW step, NEW res, NEW rank, Ranked(S, Stop, step, rank),
         NEW f, Loop(S, Stop, step, res, f),
         NEW J, J \subseteq S, \A s \in J \ Stop : step[s] \in J
  PROVE  \A s \in J : \E t \in J : t \in Stop /\ f[s] = res[t]
<1> DEFINE A == {n \in Nat : \A s \in J : rank[s] < n => \E t \in J : t \in Stop /\ f[s] = res[t]}
<1>1. \A s \in S : f[s] = IF s \in Stop THEN res[s] ELSE f[step[s]]
  BY DEF Loop
<1>2. 0 \in A
  BY DEF Ranked
<1>3. ASSUME NEW n \in Nat, n \in A PROVE n + 1 \in A
  <2>1. ASSUME NEW s \in J, rank[s] < n + 1 PROVE \E t \in J : t \in Stop /\ f[s] = res[t]
    <3>1. CASE s \in Stop
      BY <1>1, <3>1
    <3>2. CASE s \notin Stop
      <4>1. step[s] \in J /\ rank[step[s]] < n
        BY <2>1, <3>2 DEF Ranked
      <4>2. PICK t \in J : t \in Stop /\ f[step[s]] = res[t]
        BY <1>3, <4>1
      <4> QED BY <1>1, <3>2, <4>2
    <3> QED BY <3>1, <3>2
  <2> QED BY <2>1
<1>4. Nat \subseteq A
  <2> HIDE DEF A
  <2> QED BY <1>2, <1>3, NatInSet
<1>5. ASSUME NEW s \in J PROVE \E t \in J : t \in Stop /\ f[s] = res[t]
  <2>1. rank[s] \in Nat /\ rank[s] + 1 \in Nat /\ rank[s] < rank[s] + 1
    BY DEF Ranked
  <2>2. rank[s] + 1 \in A
    <3> HIDE DEF A
    <3> QED BY <1>4, <2>1
  <2> QED BY <2>1, <2>2
<1> QED BY <1>5

-----------------------------------------------------------------------------
\* A function by recursion over the numbers up to n.
Foldable(T, n, a, step) == n \in Nat /\ a \in T /\ step \in [(1 .. n) \X T -> T]
FoldOf(T, n, a, step, f) ==
  f \in [0 .. n -> T] /\ f[0] = a /\ \A k \in 1 .. n : f[k] = step[<<k, f[k - 1]>>]

LEMMA Folded ==
  ASSUME NEW T, NEW n, NEW a, NEW step, Foldable(T, n, a, step)
  PROVE  \E f : FoldOf(T, n, a, step, f)
<1>0. n \in Nat /\ a \in T /\ step \in [(1 .. n) \X T -> T]
  BY DEF Foldable
<1> DEFINE Part(m, f) == /\ f \in [0 .. m -> T] /\ f[0] = a
                         /\ \A k \in 1 .. m : f[k] = step[<<k, f[k - 1]>>]
           A == {m \in 0 .. n : \E f : Part(m, f)}
<1>1. 0 \in A
  <2>1. Part(0, [k \in 0 .. 0 |-> a])
    BY <1>0
  <2> HIDE DEF Part
  <2> QED BY <1>0, <2>1
<1>2. ASSUME NEW m \in 0 .. n - 1, m \in A PROVE m + 1 \in A
  <2>1. PICK f : Part(m, f)
    BY <1>2
  <2> DEFINE new == step[<<m + 1, f[m]>>]
             g == [k \in 0 .. m + 1 |-> IF k = m + 1 THEN new ELSE f[k]]
  <2>2. f \in [0 .. m -> T] /\ f[0] = a /\ \A k \in 1 .. m : f[k] = step[<<k, f[k - 1]>>]
    BY <2>1, Zenon
  <2>3. new \in T
    BY <1>0, <2>2
  <2> HIDE DEF new
  <2>4. \A k \in 0 .. m : k \in 0 .. m + 1 /\ k # m + 1 /\ g[k] = f[k]
    OBVIOUS
  <2>5. m + 1 \in 0 .. m + 1 /\ g[m + 1] = new /\ 0 \in 0 .. m
    OBVIOUS
  <2>6. g \in [0 .. m + 1 -> T]
    BY <2>2, <2>3
  <2> HIDE DEF g
  <2>7. ASSUME NEW k \in 1 .. m + 1 PROVE g[k] = step[<<k, g[k - 1]>>]
    <3>1. k - 1 \in 0 .. m /\ (k = m + 1 \/ k \in 1 .. m)
      OBVIOUS
    <3>2. CASE k = m + 1
      <4>1. k - 1 = m
        BY <3>2
      <4>2. g[k - 1] = f[m]
        BY <2>4, <3>1, <4>1
      <4> QED BY <2>5, <3>2, <4>2 DEF new
    <3>3. CASE k \in 1 .. m
      <4>1. k \in 0 .. m
        BY <3>3
      <4> QED BY <2>2, <2>4, <3>1, <3>3, <4>1
    <3> QED BY <3>1, <3>2, <3>3
  <2>8. Part(m + 1, g)
    BY <2>2, <2>4, <2>5, <2>6, <2>7
  <2>9. m + 1 \in 0 .. n
    BY <1>0
  <2> HIDE DEF Part
  <2> QED BY <2>8, <2>9
<1>3. \E f : Part(n, f)
  <2> HIDE DEF Part
  <2>1. 0 .. n \subseteq A
    <3> HIDE DEF A
    <3> QED BY <1>0, <1>1, <1>2, UpToInSet
  <2> QED BY <1>0, <2>1
<1> QED BY <1>3 DEF FoldOf

-----------------------------------------------------------------------------
(***************************************************************************)
(* What QueuePromise's two changes of a sequence do to its places.         *)
(***************************************************************************)
Put(s, index, e) == SubSeq(s, 1, index) \o <<e>> \o SubSeq(s, index + 1, Len(s))
Taken(s, index) == SubSeq(s, 1, index) \o SubSeq(s, index + 2, Len(s))

LEMMA RestLength ==
  ASSUME NEW l \in Nat, NEW i \in 0 .. l
  PROVE  (IF i + 1 <= l THEN l - (i + 1) + 1 ELSE 0) = l - i
  OBVIOUS

LEMMA PutIs ==
  ASSUME NEW S, NEW s \in Seq(S), NEW index \in 0 .. Len(s), NEW e \in S,
         NEW t \in Seq(S), Len(t) = Len(s) + 1,
         \A k \in 1 .. Len(t) : t[k] = IF k <= index THEN s[k]
                                       ELSE IF k = index + 1 THEN e ELSE s[k - 1]
  PROVE  t = Put(s, index, e)
<1> DEFINE a == SubSeq(s, 1, index)
           b == SubSeq(s, index + 1, Len(s))
           c == a \o <<e>>
<1>1. /\ a \in Seq(S) /\ Len(a) = index
      /\ \A k \in 1 .. index : a[k] = s[k]
  <2>1. \A k \in 1 .. index : s[k] \in S
    BY ElementOfSeq
  <2> QED BY <2>1, SubSeqProperties
<1>2. /\ b \in Seq(S) /\ Len(b) = Len(s) - index
      /\ \A k \in 1 .. Len(s) - index : b[k] = s[index + k]
  <2>1. \A k \in index + 1 .. Len(s) : s[k] \in S
    BY ElementOfSeq
  <2>2. /\ b \in Seq(S) /\ Len(b) = IF index + 1 <= Len(s) THEN Len(s) - (index + 1) + 1 ELSE 0
        /\ \A k \in 1 .. Len(s) - (index + 1) + 1 : b[k] = s[index + 1 + k - 1]
    BY <2>1, SubSeqProperties
  <2> HIDE DEF b
  <2>3. Len(s) \in Nat /\ Len(s) - (index + 1) + 1 = Len(s) - index
    OBVIOUS
  <2>4. \A k \in 1 .. Len(s) - index : index + 1 + k - 1 = index + k
    BY <2>3
  <2>5. Len(b) = Len(s) - index
    BY <2>2, <2>3, RestLength, Zenon
  <2>6. \A k \in 1 .. Len(s) - index : b[k] = s[index + k]
    BY <2>2, <2>3, <2>4
  <2> QED BY <2>2, <2>5, <2>6
<1> HIDE DEF a, b
<1>3. /\ c \in Seq(S) /\ Len(c) = index + 1
      /\ \A k \in 1 .. index + 1 : c[k] = IF k <= index THEN s[k] ELSE e
  BY <1>1
<1> HIDE DEF c
<1>4. /\ c \o b \in Seq(S) /\ Len(c \o b) = Len(s) + 1
      /\ \A k \in 1 .. Len(s) + 1 :
           (c \o b)[k] = IF k <= index + 1 THEN c[k] ELSE b[k - (index + 1)]
  <2>1. /\ c \o b \in Seq(S) /\ Len(c \o b) = Len(c) + Len(b)
        /\ \A k \in 1 .. Len(c) + Len(b) :
             (c \o b)[k] = IF k <= Len(c) THEN c[k] ELSE b[k - Len(c)]
    BY <1>2, <1>3, ConcatProperties
  <2>2. Len(c) + Len(b) = Len(s) + 1
    BY <1>2, <1>3
  <2> QED BY <1>3, <2>1, <2>2
<1>5. ASSUME NEW k \in 1 .. Len(t) PROVE t[k] = (c \o b)[k]
  <2> DEFINE whole == c \o b
  <2>3. /\ k \in 1 .. Len(s) + 1 /\ Len(s) \in Nat
        /\ t[k] = IF k <= index THEN s[k] ELSE IF k = index + 1 THEN e ELSE s[k - 1]
    OBVIOUS
  <2>4. whole[k] = IF k <= index + 1 THEN c[k] ELSE b[k - (index + 1)]
    BY <1>4, <2>3
  <2> HIDE DEF whole
  <2>1. CASE k <= index + 1
    <3>1. c[k] = IF k <= index THEN s[k] ELSE e
      BY <1>3, <2>1, <2>3
    <3>2. t[k] = whole[k]
      BY <2>1, <2>3, <2>4, <3>1
    <3> QED BY <3>2 DEF whole
  <2>2. CASE k > index + 1
    <3>1. k - (index + 1) \in 1 .. Len(s) - index
      BY <2>2
    <3>2. b[k - (index + 1)] = s[k - 1]
      BY <1>2, <3>1, SMTT(30)
    <3>3. t[k] = whole[k]
      BY <2>2, <2>3, <2>4, <3>2
    <3> QED BY <3>3 DEF whole
  <2>5. k <= index + 1 \/ k > index + 1
    BY <2>3
  <2> QED BY <2>1, <2>2, <2>5, Zenon
<1>6. t = c \o b
  BY <1>4, <1>5, SeqEqual
<1> QED BY <1>6 DEF a, b, c, Put

LEMMA TakenIs ==
  ASSUME NEW S, NEW s \in Seq(S), NEW index \in 0 .. Len(s) - 1,
         NEW t \in Seq(S), Len(t) = Len(s) - 1,
         \A k \in 1 .. Len(t) : t[k] = IF k <= index THEN s[k] ELSE s[k + 1]
  PROVE  t = Taken(s, index)
<1> DEFINE a == SubSeq(s, 1, index)
           b == SubSeq(s, index + 2, Len(s))
<1>1. /\ a \in Seq(S) /\ Len(a) = index
      /\ \A k \in 1 .. index : a[k] = s[k]
  <2>1. \A k \in 1 .. index : s[k] \in S
    BY ElementOfSeq
  <2> QED BY <2>1, SubSeqProperties
<1>2. /\ b \in Seq(S) /\ Len(b) = Len(s) - index - 1
      /\ \A k \in 1 .. Len(s) - index - 1 : b[k] = s[index + 1 + k]
  <2>1. \A k \in index + 2 .. Len(s) : s[k] \in S
    BY ElementOfSeq
  <2>2. /\ b \in Seq(S) /\ Len(b) = IF index + 2 <= Len(s) THEN Len(s) - (index + 2) + 1 ELSE 0
        /\ \A k \in 1 .. Len(s) - (index + 2) + 1 : b[k] = s[index + 2 + k - 1]
    BY <2>1, SubSeqProperties
  <2> HIDE DEF b
  <2>3. Len(s) \in Nat /\ Len(s) - (index + 2) + 1 = Len(s) - index - 1
    OBVIOUS
  <2>4. \A k \in 1 .. Len(s) - index - 1 : index + 2 + k - 1 = index + 1 + k
    BY <2>3
  <2>5. Len(b) = Len(s) - index - 1
    BY <2>2, <2>3
  <2>6. \A k \in 1 .. Len(s) - index - 1 : b[k] = s[index + 1 + k]
    BY <2>2, <2>3, <2>4
  <2> QED BY <2>2, <2>5, <2>6
<1> HIDE DEF a, b
<1>3. /\ a \o b \in Seq(S) /\ Len(a \o b) = Len(s) - 1
      /\ \A k \in 1 .. Len(s) - 1 : (a \o b)[k] = IF k <= index THEN a[k] ELSE b[k - index]
  <2>1. /\ a \o b \in Seq(S) /\ Len(a \o b) = Len(a) + Len(b)
        /\ \A k \in 1 .. Len(a) + Len(b) :
             (a \o b)[k] = IF k <= Len(a) THEN a[k] ELSE b[k - Len(a)]
    <3>1. a \in Seq(S) /\ b \in Seq(S)
      BY <1>1, <1>2
    <3> QED BY <3>1, ConcatProperties, Zenon
  <2>2. Len(a) + Len(b) = Len(s) - 1
    BY <1>1, <1>2
  <2> QED BY <1>1, <2>1, <2>2
<1>4. ASSUME NEW k \in 1 .. Len(t) PROVE t[k] = (a \o b)[k]
  <2> DEFINE whole == a \o b
  <2>3. /\ k \in 1 .. Len(s) - 1 /\ Len(s) \in Nat
        /\ t[k] = IF k <= index THEN s[k] ELSE s[k + 1]
    OBVIOUS
  <2>4. whole[k] = IF k <= index THEN a[k] ELSE b[k - index]
    BY <1>3, <2>3
  <2> HIDE DEF whole
  <2>1. CASE k <= index
    <3>1. a[k] = s[k]
      BY <1>1, <2>1, <2>3
    <3>2. t[k] = whole[k]
      BY <2>1, <2>3, <2>4, <3>1
    <3> QED BY <3>2 DEF whole
  <2>2. CASE k > index
    <3>1. k - index \in 1 .. Len(s) - index - 1
      BY <2>2, <2>3
    <3>2. index + 1 + (k - index) = k + 1
      BY <2>3
    <3>3. b[k - index] = s[k + 1]
      BY <1>2, <3>1, <3>2, Zenon
    <3>4. t[k] = whole[k]
      BY <2>2, <2>3, <2>4, <3>3
    <3> QED BY <3>4 DEF whole
  <2>5. k <= index \/ k > index
    BY <2>3
  <2> QED BY <2>1, <2>2, <2>5, Zenon
<1>5. t = a \o b
  BY <1>3, <1>4, SeqEqual
<1> QED BY <1>5 DEF a, b, Taken

\* What Put and Taken leave, place by place.
IsPut(S, t, s, index, e) ==
  /\ t \in Seq(S) /\ Len(t) = Len(s) + 1
  /\ \A k \in 1 .. Len(s) + 1 :
       t[k] = IF k <= index THEN s[k] ELSE IF k = index + 1 THEN e ELSE s[k - 1]
IsTaken(S, t, s, index) ==
  /\ t \in Seq(S) /\ Len(t) = Len(s) - 1
  /\ \A k \in 1 .. Len(s) - 1 : t[k] = IF k <= index THEN s[k] ELSE s[k + 1]

LEMMA InsertedIsPut ==
  ASSUME NEW S, NEW s \in Seq(S), NEW index \in 0 .. Len(s), NEW e \in S
  PROVE  IsPut(S, InsertAt(s, index + 1, e), s, index, e)
<1> DEFINE t == [k \in 1 .. Len(s) + 1 |->
                   IF k <= index THEN s[k] ELSE IF k = index + 1 THEN e ELSE s[k - 1]]
<1>1. Len(s) \in Nat /\ index \in Nat /\ index <= Len(s) /\ \A k \in 1 .. Len(s) : s[k] \in S
  OBVIOUS
<1>2. \A k \in 1 .. Len(s) + 1 : t[k] \in S
  BY <1>1
<1>3. t \in Seq(S) /\ Len(t) = Len(s) + 1
  BY <1>1, <1>2, IsASeq
<1>4. \A k \in 1 .. Len(s) + 1 : t[k] = IF k <= index THEN s[k] ELSE IF k = index + 1 THEN e ELSE s[k - 1]
  OBVIOUS
<1> HIDE DEF t
<1>5. t = Put(s, index, e)
  BY <1>3, <1>4, PutIs
<1>6. InsertAt(s, index + 1, e) = Put(s, index, e)
  <2>1. (index + 1) - 1 = index
    BY <1>1
  <2> QED BY <2>1, Zenon DEF InsertAt, Put
<1> QED BY <1>3, <1>4, <1>5, <1>6 DEF IsPut

LEMMA RemovedIsTaken ==
  ASSUME NEW S, NEW s \in Seq(S), NEW index \in 0 .. Len(s) - 1
  PROVE  IsTaken(S, RemoveAt(s, index + 1), s, index)
<1> DEFINE t == [k \in 1 .. Len(s) - 1 |-> IF k <= index THEN s[k] ELSE s[k + 1]]
<1>1. Len(s) \in Nat /\ Len(s) - 1 \in Nat /\ index \in Nat /\ \A k \in 1 .. Len(s) : s[k] \in S
  OBVIOUS
<1>2. \A k \in 1 .. Len(s) - 1 : t[k] \in S
  BY <1>1
<1>3. t \in Seq(S) /\ Len(t) = Len(s) - 1
  BY <1>1, <1>2, IsASeq
<1>4. \A k \in 1 .. Len(s) - 1 : t[k] = IF k <= index THEN s[k] ELSE s[k + 1]
  OBVIOUS
<1> HIDE DEF t
<1>5. t = Taken(s, index)
  BY <1>3, <1>4, TakenIs
<1>6. RemoveAt(s, index + 1) = Taken(s, index)
  <2>1. (index + 1) - 1 = index /\ (index + 1) + 1 = index + 2
    BY <1>1
  <2> QED BY <2>1, Zenon DEF RemoveAt, Taken
<1> QED BY <1>3, <1>4, <1>5, <1>6 DEF IsTaken

-----------------------------------------------------------------------------
\* A sequence of the same items in another order; the order is unique that ascends.
Injects(p, n) == p \in [1 .. n -> 1 .. n] /\ \A i, j \in 1 .. n : p[i] = p[j] => i = j
ShuffledBy(s, t, p) == Injects(p, Len(t)) /\ \A k \in 1 .. Len(t) : s[k] = t[p[k]]
Shuffled(S, s, t) ==
  /\ s \in Seq(S) /\ t \in Seq(S) /\ Len(s) = Len(t)
  /\ \E p : ShuffledBy(s, t, p)
Ascends(s) == \A i, j \in 1 .. Len(s) : i < j => s[i] <= s[j]

LEMMA ShuffledSame == ASSUME NEW S, NEW s \in Seq(S) PROVE Shuffled(S, s, s)
<1> DEFINE p == [k \in 1 .. Len(s) |-> k]
<1>1. ShuffledBy(s, s, p)
  BY DEF ShuffledBy, Injects
<1> QED BY <1>1 DEF Shuffled

LEMMA ShuffledTwice ==
  ASSUME NEW S, NEW s, NEW t, NEW u, Shuffled(S, s, t), Shuffled(S, t, u) PROVE Shuffled(S, s, u)
<1>1. PICK p : ShuffledBy(s, t, p)
  BY DEF Shuffled
<1>2. PICK q : ShuffledBy(t, u, q)
  BY DEF Shuffled
<1> DEFINE n == Len(u)
           c == [k \in 1 .. n |-> q[p[k]]]
<1>3. /\ Len(s) = n /\ Len(t) = n /\ n \in Nat
      /\ p \in [1 .. n -> 1 .. n] /\ q \in [1 .. n -> 1 .. n]
      /\ \A i, j \in 1 .. n : p[i] = p[j] => i = j
      /\ \A i, j \in 1 .. n : q[i] = q[j] => i = j
      /\ \A k \in 1 .. n : s[k] = t[p[k]]
      /\ \A k \in 1 .. n : t[k] = u[q[k]]
  BY <1>1, <1>2 DEF Shuffled, ShuffledBy, Injects
<1>8. \A k \in 1 .. n : p[k] \in 1 .. n /\ q[k] \in 1 .. n
  BY <1>3
<1>4. c \in [1 .. n -> 1 .. n] /\ \A k \in 1 .. n : c[k] = q[p[k]]
  BY <1>3
<1> HIDE DEF c, n
<1>5. \A i, j \in 1 .. n : c[i] = c[j] => i = j
  BY <1>3, <1>4, <1>8
<1>6. ASSUME NEW k \in 1 .. n PROVE s[k] = u[c[k]]
  <2>1. p[k] \in 1 .. n /\ s[k] = t[p[k]] /\ c[k] = q[p[k]]
    BY <1>3, <1>4, <1>8
  <2>2. t[p[k]] = u[q[p[k]]]
    BY <1>3, <2>1
  <2> QED BY <2>1, <2>2
<1>7. ShuffledBy(s, u, c)
  BY <1>4, <1>5, <1>6 DEF ShuffledBy, Injects, n
<1> QED BY <1>3, <1>7 DEF Shuffled, n

\* Pigeons: no numbers up to k are all different and below k.
LEMMA NotAllBelow ==
  ASSUME NEW k \in Nat \ {0}, NEW c, \A i \in 1 .. k : c[i] \in 1 .. k - 1
  PROVE  \E i, j \in 1 .. k : i # j /\ c[i] = c[j]
<1> DEFINE S == 1 .. k
           T == 1 .. k - 1
           f == [i \in S |-> c[i]]
<1>1. IsFiniteSet(S) /\ Cardinality(S) = k /\ IsFiniteSet(T) /\ Cardinality(T) = k - 1
  BY FS_Interval
<1>2. f \in [S -> T]
  OBVIOUS
<1>3. Cardinality(T) < Cardinality(S)
  BY <1>1
<1>4. \A i \in S : f[i] = c[i]
  OBVIOUS
<1> HIDE DEF S, T, f
<1>5. \E x, y \in S : x # y /\ f[x] = f[y]
  BY <1>1, <1>2, <1>3, FS_PigeonHole
<1> QED BY <1>4, <1>5 DEF S

LEMMA NotBelow ==
  ASSUME NEW S \in SUBSET Int, NEW s \in Seq(S), NEW t \in Seq(S), Len(s) = Len(t), Ascends(s), Ascends(t),
         NEW c, ShuffledBy(s, t, c), NEW k \in 1 .. Len(t)
  PROVE  t[k] <= s[k]
<1> DEFINE n == Len(t)
<1>1. /\ n \in Nat /\ c \in [1 .. n -> 1 .. n] /\ \A i, j \in 1 .. n : c[i] = c[j] => i = j
      /\ \A i \in 1 .. n : s[i] = t[c[i]]
  BY DEF ShuffledBy, Injects
<1>2. \A i \in 1 .. n : s[i] \in Int /\ t[i] \in Int
  <2>1. \A i \in 1 .. n : s[i] \in S /\ t[i] \in S
    BY ElementOfSeq
  <2> QED BY <2>1
<1>3. \A i, j \in 1 .. n : i < j => s[i] <= s[j] /\ t[i] <= t[j]
  BY DEF Ascends
<1> HIDE DEF n
<1>4. k \in 1 .. n /\ \A i \in 1 .. n : c[i] \in 1 .. n
  BY <1>1 DEF n
<1>10. s[k] \in Int /\ t[k] \in Int
  BY <1>2, <1>4
<1>11. ASSUME ~(s[k] < t[k]) PROVE t[k] <= s[k]
  BY <1>10, <1>11
<1> SUFFICES ASSUME s[k] < t[k] PROVE FALSE
  BY <1>11, Zenon
<1>5. ASSUME NEW i \in 1 .. k PROVE c[i] \in 1 .. k - 1
  <2>7. n \in Nat /\ k \in Int /\ 1 <= k /\ k <= n /\ i \in Int /\ 1 <= i /\ i <= k
    BY <1>1, <1>4
  <2>8. i \in 1 .. n /\ (i < k \/ i = k)
    BY <2>7
  <2>1. i \in 1 .. n /\ c[i] \in 1 .. n /\ (i < k \/ i = k)
    BY <1>4, <2>8
  <2>5. s[i] <= s[k]
    <3>1. CASE i < k
      BY <1>3, <1>4, <2>1, <3>1
    <3>2. CASE i = k
      BY <1>2, <1>4, <3>2
    <3> QED BY <2>1, <3>1, <3>2
  <2>2. s[i] <= s[k] /\ s[i] = t[c[i]]
    BY <1>1, <2>1, <2>5
  <2>3. t[c[i]] < t[k]
    BY <1>2, <1>4, <2>1, <2>2
  <2>4. ~(k <= c[i])
    <3> SUFFICES ASSUME k <= c[i] PROVE FALSE
      OBVIOUS
    <3>1. k = c[i] \/ k < c[i]
      BY <1>1, <1>4, <2>1
    <3>2. t[k] <= t[c[i]]
      BY <1>2, <1>3, <1>4, <2>1, <3>1
    <3> QED BY <1>2, <1>4, <2>1, <2>3, <3>2
  <2> QED BY <1>1, <1>4, <2>1, <2>4
<1>6. k \in Nat \ {0} /\ \A i \in 1 .. k : i \in 1 .. n
  BY <1>1, <1>4
<1>7. \E i, j \in 1 .. k : i # j /\ c[i] = c[j]
  BY <1>5, <1>6, NotAllBelow
<1> QED BY <1>1, <1>6, <1>7

\* A shuffle is a bijection.
LEMMA InjectsOnto ==
  ASSUME NEW n \in Nat, NEW p, Injects(p, n)
  PROVE  p \in Bijection(1 .. n, 1 .. n) /\ \A k \in 1 .. n : \E i \in 1 .. n : p[i] = k
<1> DEFINE S == 1 .. n
<1>1. p \in [S -> S] /\ \A i, j \in S : p[i] = p[j] => i = j
  BY DEF Injects
<1>2. IsFiniteSet(S)
  BY FS_Interval
<1> HIDE DEF S
<1>3. p \in Injection(S, S)
  BY <1>1 DEF Injection, IsInjective
<1>4. p \in Surjection(S, S)
  BY <1>2, <1>3, FS_Injection
<1>5. p \in Bijection(S, S) /\ \A k \in S : \E i \in S : p[i] = k
  BY <1>3, <1>4 DEF Bijection, Surjection
<1> QED BY <1>5 DEF S

LEMMA ShuffledBack ==
  ASSUME NEW S, NEW s, NEW t, NEW u, Shuffled(S, s, u), Shuffled(S, t, u)
  PROVE  Shuffled(S, s, t)
<1>1. PICK p : ShuffledBy(s, u, p)
  BY DEF Shuffled
<1>2. PICK q : ShuffledBy(t, u, q)
  BY DEF Shuffled
<1> DEFINE n == Len(u)
           c == [k \in 1 .. n |-> CHOOSE i \in 1 .. n : q[i] = p[k]]
<1>3. /\ s \in Seq(S) /\ t \in Seq(S) /\ Len(s) = n /\ Len(t) = n /\ n \in Nat
      /\ p \in [1 .. n -> 1 .. n] /\ Injects(q, n)
      /\ \A i, j \in 1 .. n : p[i] = p[j] => i = j
      /\ \A k \in 1 .. n : s[k] = u[p[k]]
      /\ \A k \in 1 .. n : t[k] = u[q[k]]
  BY <1>1, <1>2 DEF Shuffled, ShuffledBy, Injects
<1> HIDE DEF n
<1>4. \A k \in 1 .. n : \E i \in 1 .. n : q[i] = k
  <2>1. n \in Nat /\ Injects(q, n)
    BY <1>3
  <2> QED BY <2>1, InjectsOnto
<1>5. \A k \in 1 .. n : c[k] \in 1 .. n /\ q[c[k]] = p[k]
  <2> SUFFICES ASSUME NEW k \in 1 .. n PROVE c[k] \in 1 .. n /\ q[c[k]] = p[k]
    OBVIOUS
  <2>1. p[k] \in 1 .. n
    BY <1>3
  <2>2. \E i \in 1 .. n : q[i] = p[k]
    BY <1>4, <2>1
  <2>3. c[k] = CHOOSE i \in 1 .. n : q[i] = p[k]
    OBVIOUS
  <2> HIDE DEF c
  <2> QED BY <2>2, <2>3
<1>6. c \in [1 .. n -> 1 .. n]
  <2>1. c = [k \in 1 .. n |-> c[k]]
    OBVIOUS
  <2> HIDE DEF c
  <2> QED BY <1>5, <2>1
<1> HIDE DEF c
<1>7. ASSUME NEW i \in 1 .. n, NEW j \in 1 .. n, c[i] = c[j] PROVE i = j
  <2>1. p[i] = p[j]
    BY <1>5, <1>7
  <2> QED BY <1>3, <2>1
<1>8. ASSUME NEW k \in 1 .. n PROVE s[k] = t[c[k]]
  <2>1. c[k] \in 1 .. n /\ q[c[k]] = p[k] /\ s[k] = u[p[k]]
    BY <1>3, <1>5
  <2>2. t[c[k]] = u[q[c[k]]]
    BY <1>3, <2>1
  <2> QED BY <2>1, <2>2
<1>9. ShuffledBy(s, t, c)
  BY <1>3, <1>6, <1>7, <1>8 DEF ShuffledBy, Injects
<1> QED BY <1>3, <1>9 DEF Shuffled

LEMMA SortedIsUnique ==
  ASSUME NEW S \in SUBSET Int, NEW s, NEW t, NEW u, Shuffled(S, s, u), Shuffled(S, t, u), Ascends(s), Ascends(t)
  PROVE  s = t
<1>1. Shuffled(S, s, t) /\ Shuffled(S, t, s)
  BY ShuffledBack
<1>2. s \in Seq(S) /\ t \in Seq(S) /\ Len(s) = Len(t)
  BY <1>1 DEF Shuffled
<1>3. PICK c : ShuffledBy(s, t, c)
  BY <1>1 DEF Shuffled
<1>4. PICK d : ShuffledBy(t, s, d)
  BY <1>1 DEF Shuffled
<1>5. \A k \in 1 .. Len(t) : t[k] <= s[k]
  BY <1>2, <1>3, NotBelow
<1>6. \A k \in 1 .. Len(s) : s[k] <= t[k]
  BY <1>2, <1>4, NotBelow
<1>7. ASSUME NEW k \in 1 .. Len(s) PROVE s[k] = t[k]
  <2>1. s[k] \in S /\ t[k] \in S
    BY <1>2, ElementOfSeq
  <2>2. s[k] \in Int /\ t[k] \in Int
    BY <2>1
  <2> QED BY <1>2, <1>5, <1>6, <2>2
<1> QED BY <1>2, <1>7, SeqEqual

-----------------------------------------------------------------------------
(***************************************************************************)
(* The binary search.  Its bounds close in, so the search ends; before     *)
(* them everything is too small, and after them too large.                 *)
(***************************************************************************)
LookAt(extent, cf, f, b) ==
  LET probe == Probe(extent, b)
      next == NewBounds(b, probe, cf[probe])
  IN  IF cf[probe] = 0 THEN [index |-> probe, exists |-> TRUE]
      ELSE IF next[1] > next[2] THEN [index |-> next[1], exists |-> FALSE]
      ELSE f[next]
Falling(extent, cf) ==
  /\ cf \in [0 .. extent - 1 -> Int]
  /\ \A i, j \in 0 .. extent - 1 : i <= j => cf[j] <= cf[i]
\* What the search answers: a place of the key, or the place where it would be.
IsAnswer(extent, cf, r) ==
  /\ r = [index |-> r.index, exists |-> r.exists] /\ r.exists \in BOOLEAN
  /\ r.index \in 0 .. extent
  /\ r.exists => r.index < extent /\ cf[r.index] = 0
  /\ ~r.exists => /\ \A i \in 0 .. extent - 1 : i < r.index => cf[i] > 0
                  /\ \A i \in 0 .. extent - 1 : i >= r.index => cf[i] < 0

LEMMA BoundsClose ==
  ASSUME NEW extent \in Nat, NEW b \in BoundsIn(extent), NEW res \in Int
  PROVE  /\ b[1] \in Nat /\ b[2] \in Nat /\ b[1] <= b[2] /\ b[2] < extent
         /\ Probe(extent, b) \in b[1] .. b[2]
         /\ LET p == Probe(extent, b)
                next == NewBounds(b, p, res)
            IN  /\ next = IF res < 0 THEN <<b[1], p - 1>> ELSE <<p + 1, b[2]>>
                /\ next[1] \in 0 .. extent
                /\ next[1] <= next[2] => next \in BoundsIn(extent) /\ next[2] - next[1] < b[2] - b[1]
<1>1. /\ b[1] \in Nat /\ b[2] \in Nat /\ b[1] <= b[2] /\ b[2] < extent /\ b = <<b[1], b[2]>>
  BY DEF BoundsIn
<1> DEFINE p == Probe(extent, b)
           next == NewBounds(b, p, res)
<1>2. p \in b[1] .. b[2]
  <2>1. CASE b = <<0, extent - 1>>
    <3>1. b[1] = 0 /\ b[2] = extent - 1 /\ p = extent \div 2
      BY <2>1 DEF Probe
    <3> QED BY <1>1, <3>1
  <2>2. CASE b # <<0, extent - 1>>
    <3>1. p = b[1] + ((b[2] - b[1]) \div 2)
      BY <2>2 DEF Probe
    <3> QED BY <1>1, <3>1
  <2> QED BY <2>1, <2>2
<1>3. next = IF res < 0 THEN <<b[1], p - 1>> ELSE <<p + 1, b[2]>>
  BY DEF NewBounds
<1> HIDE DEF p, next
<1>4. /\ next[1] = IF res < 0 THEN b[1] ELSE p + 1
      /\ next[2] = IF res < 0 THEN p - 1 ELSE b[2]
      /\ next = <<next[1], next[2]>>
  BY <1>3
<1>5. next[1] \in 0 .. extent /\ next[1] \in Int /\ next[2] \in Int
  BY <1>1, <1>2, <1>4
<1>6. ASSUME next[1] <= next[2]
      PROVE  next \in BoundsIn(extent) /\ next[2] - next[1] < b[2] - b[1]
  <2>1. next[1] \in 0 .. extent - 1 /\ next[2] \in 0 .. extent - 1 /\ next[2] - next[1] < b[2] - b[1]
    BY <1>1, <1>2, <1>4, <1>6
  <2> QED BY <1>4, <1>6, <2>1 DEF BoundsIn
<1> QED BY <1>1, <1>2, <1>3, <1>5, <1>6 DEF p, next

LEMMA SearchEnds ==
  ASSUME NEW extent \in Nat, NEW cf \in [0 .. extent - 1 -> Int]
  PROVE  \E f : f = [b \in BoundsIn(extent) |-> LookAt(extent, cf, f, b)]
<1> DEFINE B == BoundsIn(extent)
           Closed(f, d) == \A b \in B : b[2] - b[1] < d => f[b] = LookAt(extent, cf, f, b)
           S == {d \in Nat : \E f : Closed(f, d)}
<1>1. ASSUME NEW b \in B
      PROVE  /\ b[1] \in Nat /\ b[2] \in Nat /\ b[1] <= b[2] /\ b[2] < extent
             /\ Probe(extent, b) \in 0 .. extent - 1
  <2>1. b[1] \in Nat /\ b[2] \in Nat /\ b[1] <= b[2] /\ b[2] < extent /\ Probe(extent, b) \in b[1] .. b[2]
    BY BoundsClose, 0 \in Int
  <2> QED BY <2>1
<1>2. 0 \in S
  <2>1. Closed([b \in B |-> 0], 0)
    BY <1>1
  <2> HIDE DEF Closed
  <2> QED BY <2>1
<1>3. ASSUME NEW d \in Nat, d \in S PROVE d + 1 \in S
  <2>1. PICK f : Closed(f, d)
    BY <1>3
  <2> DEFINE g == [b \in B |-> IF b[2] - b[1] < d THEN f[b] ELSE LookAt(extent, cf, f, b)]
  <2>2. ASSUME NEW b \in B, b[2] - b[1] < d + 1 PROVE g[b] = LookAt(extent, cf, g, b)
    <3>1. g[b] = LookAt(extent, cf, f, b)
      BY <2>1
    <3> DEFINE p == Probe(extent, b)
               next == NewBounds(b, p, cf[p])
    <3>2. cf[p] \in Int
      BY <1>1
    <3>3. next[1] <= next[2] => next \in B /\ next[2] - next[1] < b[2] - b[1]
      BY <3>2, BoundsClose
    <3>4. next[1] <= next[2] => f[next] = g[next]
      <4> SUFFICES ASSUME next[1] <= next[2] PROVE f[next] = g[next]
        OBVIOUS
      <4> HIDE DEF next
      <4>1. next \in B /\ next[2] - next[1] < b[2] - b[1]
        BY <3>3
      <4>2. b[1] \in Nat /\ b[2] \in Nat /\ next[1] \in Nat /\ next[2] \in Nat
        BY <1>1, <4>1
      <4>3. next[2] - next[1] < d
        BY <2>2, <4>1, <4>2
      <4> QED BY <4>1, <4>3
    <3>5. next[1] \in Int /\ next[2] \in Int
      <4>1. next[1] \in 0 .. extent
        BY <3>2, BoundsClose
      <4>2. next = IF cf[p] < 0 THEN <<b[1], p - 1>> ELSE <<p + 1, b[2]>>
        BY <3>2, BoundsClose
      <4> QED BY <1>1, <4>1, <4>2
    <3>6. next[1] > next[2] \/ next[1] <= next[2]
      BY <3>5
    <3> HIDE DEF g
    <3> QED BY <3>1, <3>4, <3>6 DEF LookAt
  <2>3. Closed(g, d + 1)
    <3> HIDE DEF g
    <3> QED BY <2>2
  <2> HIDE DEF Closed, g
  <2> QED BY <2>3
<1>4. extent \in S
  <2> HIDE DEF S
  <2> QED BY <1>2, <1>3, NatInSet
<1>5. PICK f : Closed(f, extent)
  BY <1>4
<1> DEFINE h == [b \in B |-> f[b]]
<1>6. ASSUME NEW b \in B PROVE h[b] = LookAt(extent, cf, h, b)
  <2> DEFINE p == Probe(extent, b)
             next == NewBounds(b, p, cf[p])
  <2>1. b[2] - b[1] < extent
    BY <1>1
  <2>2. f[b] = LookAt(extent, cf, f, b)
    BY <1>5, <2>1
  <2>3. cf[p] \in Int
    BY <1>1
  <2>4. next[1] <= next[2] => next \in B
    BY <2>3, BoundsClose
  <2>5. next[1] > next[2] \/ next[1] <= next[2]
    <3>1. next[1] \in 0 .. extent
      BY <2>3, BoundsClose
    <3>2. next = IF cf[p] < 0 THEN <<b[1], p - 1>> ELSE <<p + 1, b[2]>>
      BY <2>3, BoundsClose
    <3>3. next[2] \in Int
      BY <1>1, <3>2
    <3> QED BY <3>1, <3>3
  <2>6. next[1] <= next[2] => h[next] = f[next]
    BY <2>4
  <2>7. h[b] = f[b]
    OBVIOUS
  <2> HIDE DEF h
  <2> QED BY <2>2, <2>5, <2>6, <2>7 DEF LookAt
<1>7. h = [b \in B |-> h[b]]
  OBVIOUS
<1> HIDE DEF h
<1>8. h = [b \in B |-> LookAt(extent, cf, h, b)]
  BY <1>6, <1>7
<1> QED BY <1>8

LEMMA SearchAnswers ==
  ASSUME NEW extent \in Nat, NEW cf, Falling(extent, cf)
  PROVE  IsAnswer(extent, cf, GetIndexFromKey(extent, cf))
<1> DEFINE B == BoundsIn(extent)
           Is(f) == f = [b \in B |-> LookAt(extent, cf, f, b)]
           Search == CHOOSE f : Is(f)
           Around(b) == /\ \A i \in 0 .. extent - 1 : i < b[1] => cf[i] > 0
                        /\ \A i \in 0 .. extent - 1 : i > b[2] => cf[i] < 0
           S == {d \in Nat : \A b \in B : b[2] - b[1] < d /\ Around(b) => IsAnswer(extent, cf, Search[b])}
<1>1. GetIndexFromKey(extent, cf) =
        IF extent = 0 THEN [index |-> 0, exists |-> FALSE] ELSE Search[<<0, extent - 1>>]
  BY DEF GetIndexFromKey, LookAt
<1>2. cf \in [0 .. extent - 1 -> Int] /\ \A i, j \in 0 .. extent - 1 : i <= j => cf[j] <= cf[i]
  BY DEF Falling
<1>3. Is(Search)
  <2>1. \E f : Is(f)
    BY <1>2, SearchEnds
  <2> HIDE DEF Is
  <2> QED BY <2>1
<1>4. \A b \in B : Search[b] = LookAt(extent, cf, Search, b)
  <2> HIDE DEF Search
  <2> QED BY <1>3
<1> HIDE DEF Search
<1>5. 0 \in S
  <2>1. \A b \in B : ~(b[2] - b[1] < 0)
    BY DEF BoundsIn
  <2> QED BY <2>1
<1>6. ASSUME NEW d \in Nat, d \in S PROVE d + 1 \in S
  <2>1. ASSUME NEW b \in B, b[2] - b[1] < d + 1, Around(b) PROVE IsAnswer(extent, cf, Search[b])
    <3> DEFINE p == Probe(extent, b)
               next == NewBounds(b, p, cf[p])
    <3>1. /\ b[1] \in Nat /\ b[2] \in Nat /\ b[1] <= b[2] /\ b[2] < extent /\ p \in b[1] .. b[2]
      BY BoundsClose, 0 \in Int
    <3>2. p \in 0 .. extent - 1 /\ cf[p] \in Int
      <4>1. p \in 0 .. extent - 1
        BY <3>1
      <4> QED BY <1>2, <4>1
    <3>3. /\ next = IF cf[p] < 0 THEN <<b[1], p - 1>> ELSE <<p + 1, b[2]>>
          /\ next[1] \in 0 .. extent
          /\ next[1] <= next[2] => next \in B /\ next[2] - next[1] < b[2] - b[1]
      BY <3>2, BoundsClose
    <3>4. Search[b] = IF cf[p] = 0 THEN [index |-> p, exists |-> TRUE]
                      ELSE IF next[1] > next[2] THEN [index |-> next[1], exists |-> FALSE]
                      ELSE Search[next]
      BY <1>4 DEF LookAt
    <3> HIDE DEF p, next
    <3>5. CASE cf[p] = 0
      <4>1. Search[b] = [index |-> p, exists |-> TRUE]
        BY <3>4, <3>5
      <4>2. Search[b].index = p /\ Search[b].exists = TRUE
        BY <4>1
      <4> QED BY <3>2, <3>5, <4>1, <4>2 DEF IsAnswer
    <3>6. CASE cf[p] # 0
      <4>1. next[1] = (IF cf[p] < 0 THEN b[1] ELSE p + 1) /\ next[2] = (IF cf[p] < 0 THEN p - 1 ELSE b[2])
        BY <3>3
      <4>2. Around(next)
        <5>1. CASE cf[p] < 0
          <6>1. \A i \in 0 .. extent - 1 : i > p - 1 => cf[i] < 0
            <7> SUFFICES ASSUME NEW i \in 0 .. extent - 1, i > p - 1 PROVE cf[i] < 0
              OBVIOUS
            <7>1. p <= i
              BY <3>2
            <7>2. cf[i] <= cf[p] /\ cf[i] \in Int
              BY <1>2, <3>2, <7>1
            <7> QED BY <3>2, <5>1, <7>2
          <6> QED BY <2>1, <4>1, <5>1, <6>1
        <5>2. CASE ~(cf[p] < 0)
          <6>1. \A i \in 0 .. extent - 1 : i < p + 1 => cf[i] > 0
            <7> SUFFICES ASSUME NEW i \in 0 .. extent - 1, i < p + 1 PROVE cf[i] > 0
              OBVIOUS
            <7>1. i <= p
              BY <3>2
            <7>2. cf[p] <= cf[i] /\ cf[i] \in Int
              BY <1>2, <3>2, <7>1
            <7> QED BY <3>2, <3>6, <5>2, <7>2
          <6> QED BY <2>1, <4>1, <5>2, <6>1
        <5> QED BY <5>1, <5>2
      <4>3. next[1] \in Nat /\ next[2] \in Int /\ next[2] <= b[2]
        BY <3>1, <3>2, <4>1
      <4>4. CASE next[1] > next[2]
        <5>1. Search[b] = [index |-> next[1], exists |-> FALSE]
          BY <3>4, <3>6, <4>4
        <5>2. Search[b].index = next[1] /\ Search[b].exists = FALSE
          BY <5>1
        <5>3. \A i \in 0 .. extent - 1 : i >= next[1] => i > next[2]
          BY <4>3, <4>4
        <5> QED BY <3>3, <4>2, <5>1, <5>2, <5>3 DEF IsAnswer
      <4>5. CASE ~(next[1] > next[2])
        <5>1. Search[b] = Search[next] /\ next[1] <= next[2]
          BY <3>4, <3>6, <4>3, <4>5
        <5>2. next \in B /\ next[2] - next[1] < d
          BY <2>1, <3>1, <3>3, <4>3, <5>1
        <5> QED BY <1>6, <4>2, <5>1, <5>2
      <4> QED BY <4>4, <4>5
    <3> QED BY <3>5, <3>6
  <2> QED BY <2>1
<1>7. extent \in S
  <2> HIDE DEF S
  <2> QED BY <1>5, <1>6, NatInSet
<1>8. CASE extent = 0
  <2> DEFINE r == GetIndexFromKey(extent, cf)
  <2>1. r = [index |-> 0, exists |-> FALSE]
    BY <1>1, <1>8
  <2>2. r.index = 0 /\ r.exists = FALSE
    BY <2>1
  <2> HIDE DEF r
  <2>3. IsAnswer(extent, cf, r)
    BY <1>8, <2>1, <2>2 DEF IsAnswer
  <2> QED BY <2>3 DEF r
<1>9. CASE extent # 0
  <2> DEFINE all == <<0, extent - 1>>
  <2>1. all[1] = 0 /\ all[2] = extent - 1 /\ all \in B
    BY <1>9 DEF BoundsIn
  <2> HIDE DEF all
  <2>2. Around(all) /\ all[2] - all[1] < extent
    BY <2>1
  <2>3. IsAnswer(extent, cf, Search[all])
    BY <1>7, <2>1, <2>2
  <2> QED BY <1>1, <1>9, <2>3 DEF all
<1> QED BY <1>8, <1>9
=============================================================================
