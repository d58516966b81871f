------------------------------ MODULE RangeList ------------------------------
(***************************************************************************)
(* DataStructures::RangeList of DS_RangeList.h: a set of numbers (packets  *)
(* to acknowledge) kept as ranges <<minIndex, maxIndex>> in order of their *)
(* first number.  Serialize writes the first ranges that fit to a stream,  *)
(* Deserialize reads them at the other end.                                *)
(***************************************************************************)
EXTENDS OrderedMap

CONSTANTS
  Indices,    \* numbers inserted
  Modulus,    \* numbers are below it (2^24)
  RangeBits,  \* bits of a number
  BitLimits,  \* values of maxBits
  MaxRepeats  \* bound on the numbers inserted again

ASSUME RangeListAssumption ==
  /\ Indices \subseteq 0 .. Modulus - 1 /\ Modulus \in Nat \ {0, 1}
  /\ RangeBits \in Nat \ {0} /\ BitLimits \subseteq Nat
  /\ MaxRepeats \in Nat

VARIABLES
  ranges,
  reported,  \* every number ever inserted
  sent,      \* the numbers the other end has read
  repeats    \* insertions of numbers that were in the list

rangeVars == <<ranges, reported, sent, repeats>>

RangeInit == ranges = << >> /\ reported = {} /\ sent = {} /\ repeats = 0

Covered(rs) == UNION {r[1] .. r[2] : r \in ToSet(rs)}
\* minIndex - 1 and maxIndex + 1, in the unsigned type of a number.
Below(index) == (index - 1) % Modulus
Above(index) == (index + 1) % Modulus

\* Mutant of Joined: the range that goes takes its numbers with it.
JoinedShort(i) == RemoveAt([ranges EXCEPT ![i - 1] = <<@[1], @[2] + 1>>], i)
Joined(i) == RemoveAt([ranges EXCEPT ![i - 1] = <<@[1], ranges[i][2]>>], i)

(***************************************************************************)
(* Insert.  The search finds the first range that begins at index or above *)
(* it.  Whether index lies in the range before that one is looked at only  *)
(* where that one is the last, and where index joins the two.              *)
(***************************************************************************)
PlaceOf(index) ==
  GetIndexFromKey(Len(ranges),
                  [i \in 0 .. Len(ranges) - 1 |-> Compare(index, ranges[i + 1][1])]).index + 1
Inserted(index) ==
  LET at   == PlaceOf(index)
      last == Len(ranges)
  IN  IF last = 0 THEN <<<<index, index>>>>
      ELSE IF at > last
        THEN IF index = Above(ranges[last][2]) THEN [ranges EXCEPT ![last] = <<@[1], index>>]
             ELSE IF index > Above(ranges[last][2]) THEN Append(ranges, <<index, index>>)
             ELSE ranges
      ELSE IF index < Below(ranges[at][1]) THEN InsertAt(ranges, at, <<index, index>>)
      ELSE IF index = Below(ranges[at][1])
        THEN IF at > 1 /\ Above(ranges[at - 1][2]) = index THEN Joined(at)
             ELSE [ranges EXCEPT ![at] = <<index, @[2]>>]
      ELSE ranges

RangeInsert(index) ==
  /\ ranges' = Inserted(index)
  /\ reported' = reported \union {index}
  /\ repeats' = repeats + (IF index \in Covered(ranges) THEN 1 ELSE 0)
  /\ repeats' <= MaxRepeats
  /\ UNCHANGED sent

\* A byte says whether both ends are one.
WrittenBits(range) == 8 + RangeBits * (IF range[1] = range[2] THEN 1 ELSE 2)
\* The bits of the first n ranges.
Bits(n) ==
  LET sum[k \in 0 .. Len(ranges)] == IF k = 0 THEN 0 ELSE sum[k - 1] + WrittenBits(ranges[k])
  IN  sum[n]
Fits(n, maxBits) == \A k \in 0 .. n - 1 : 16 + Bits(k) + 2 * RangeBits + 1 <= maxBits
CountWritten(maxBits) ==
  CHOOSE n \in 0 .. Len(ranges) :
    Fits(n, maxBits) /\ (n < Len(ranges) => ~Fits(n + 1, maxBits))

Written(n) == [k \in 1 .. n |-> IF ranges[k][1] = ranges[k][2] THEN <<1, ranges[k][1]>>
                                ELSE <<0, ranges[k][1], ranges[k][2]>>]
Deserialized(message) ==
  [k \in DOMAIN message |-> <<message[k][2], message[k][IF message[k][1] = 1 THEN 2 ELSE 3]>>]

\* Serialize with clearSerialized, and the message read.
RangeSerialize(maxBits) ==
  LET n == CountWritten(maxBits)
  IN  /\ n > 0
      /\ ranges' = SubSeq(ranges, n + 1, Len(ranges))
      /\ sent' = sent \union Covered(Deserialized(Written(n)))
      /\ UNCHANGED <<reported, repeats>>

RangeNext == \/ \E index \in Indices : RangeInsert(index)
             \/ \E maxBits \in BitLimits : RangeSerialize(maxBits)

RangeSpec == RangeInit /\ [][RangeNext]_rangeVars

-----------------------------------------------------------------------------
\* No number is lost or made up between Insert and the other end.  The ranges
\* are in order, and RangeSum counts each number once, unless a number has been
\* inserted again while it was in the list: it may then be in two ranges, and 0,
\* whose Below is the largest number, opens one more each time.
\* A message is at most 7 bits longer than the caller allows (the test counts a
\* bit for the byte that says that both ends are one).
RangesReport ==
  /\ Covered(ranges) \union sent = reported
  /\ \A i \in 1 .. Len(ranges) - 1 : ranges[i][1] <= ranges[i + 1][1]
  /\ repeats = 0 => \A i \in 1 .. Len(ranges) - 1 : ranges[i][2] < ranges[i + 1][1]
  /\ \A maxBits \in BitLimits :
       CountWritten(maxBits) > 0 => 16 + Bits(CountWritten(maxBits)) <= maxBits + 7
=============================================================================
