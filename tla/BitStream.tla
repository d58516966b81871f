----------------------------- MODULE BitStream -----------------------------
(***************************************************************************)
(* The templates of BitStream.h: what they write into a stream, and what   *)
(* the same templates read from the bytes of it that arrive, on machines   *)
(* of either byte order.                                                   *)
(*                                                                         *)
(* A stream is its sequence of bits.  WriteBits, ReadBits, WriteFloat16    *)
(* and the compression of an integer are in the library (external).  A     *)
(* real number between -1 and 1 is a number of steps of 1 / Unit: what the *)
(* lossy forms keep is the nearest step.                                   *)
(***************************************************************************)
EXTENDS Integers, Sequences, SequencesExt

CONSTANTS StreamItems,   \* what a caller may write: records of a kind, a sequence of numbers v
                         \* and what its template is called with
          MaxStreamItems,
          Unit,
          DoubleBytes    \* a compressed double has 4 in the code

ASSUME BitStreamAssumption ==
  MaxStreamItems \in Nat /\ Unit \in Nat \ {0} /\ DoubleBytes \in Nat \ {0}

VARIABLES
  written,      \* the items, in order
  ends,         \* the write offset after each
  data,         \* the bits
  arrivedBits,      \* how many bits have, -1 while the stream is written
  bigEndian,    \* of the two machines
  readOffset,
  results       \* of the reads: success and value

streamVars == <<written, ends, data, arrivedBits, bigEndian, readOffset, results>>

-----------------------------------------------------------------------------
IntBits(v, n)  == [k \in 1 .. n |-> (v \div 2^(n - k)) % 2]
Number(bs)  == FoldLeft(LAMBDA a, b : 2 * a + b, 0, bs)
Bytes(v, n) == [k \in 1 .. n |-> (v \div 256^(n - k)) % 256]
FromBytes(bytes) == FoldLeft(LAMBDA a, b : 256 * a + b, 0, bytes)

\* A value of n bytes in the memory of a machine, and back.
Memory(v, n, big) == IF big THEN Bytes(v, n) ELSE Reverse(Bytes(v, n))
FromMemory(bytes, big) == FromBytes(IF big THEN bytes ELSE Reverse(bytes))

\* DoEndianSwap with ReverseBytes: the network's order is the big one.
NetworkOrder(bytes, big) == IF big THEN bytes ELSE Reverse(bytes)

\* WriteBits and ReadBits: whole bytes, then the low bits of the next.
BitsOf(bytes, n) ==
  FlattenSeq([k \in 1 .. n \div 8 |-> IntBits(bytes[k], 8)])
  \o (IF n % 8 = 0 THEN << >> ELSE IntBits(bytes[n \div 8 + 1], n % 8))
BytesOf(bs) ==
  [k \in 1 .. (Len(bs) + 7) \div 8 |->
     Number(SubSeq(bs, 8 * k - 7, IF 8 * k < Len(bs) THEN 8 * k ELSE Len(bs)))]

Aligned(n) == n + 8 - (((n - 1) % 8) + 1)

\* Write of a number of n bytes.
Whole(v, n, big) == BitsOf(NetworkOrder(Memory(v, n, big), big), 8 * n)
FromWhole(bs, big) == FromMemory(NetworkOrder(BytesOf(bs), big), big)

\* The library's WriteCompressed drops the upper half of the bytes it is given when
\* it is 0.
Compressed(v, n, big) ==
  LET bs == Whole(v, n, big)
      half == (8 * n) \div 2
  IN  IF \A k \in 1 .. half : bs[k] = 0 THEN <<1>> \o SubSeq(bs, half + 1, 8 * n)
                                        ELSE <<0>> \o bs

\* WriteCompressed of a float: clamped, (x + 1) * 32767.5 as 16 bits; and its value.
Level(x) ==
  LET clamped == IF x < -Unit THEN -Unit ELSE IF x > Unit THEN Unit ELSE x
  IN  ((clamped + Unit) * 65535) \div (2 * Unit)
FromLevel(level) == (2 * level * 2 * Unit + 65535) \div (2 * 65535) - Unit

\* WriteCompressed of a double: (x + 1) * 2^31 as 32 bits.  1.0 gives 2^32, for which
\* the conversion is undefined: it saturates or wraps.
Half == 2^(8 * DoubleBytes - 1)
DoubleLevels(x) ==
  LET level == ((x + Unit) * Half) \div Unit
  IN  IF level < 2 * Half THEN {level} ELSE {0, 2 * Half - 1}
FromDoubleLevel(level) == (2 * level * Unit + Half) \div (2 * Half) - Unit

\* The bits of a range: BYTES_TO_BITS(sizeof) - NumberOfLeadingZeroes.
RequiredBits(item) ==
  LET span == item.maximum - item.minimum
  IN  CHOOSE n \in 0 .. 8 * item.bytes : span < 2^n /\ (n = 0 \/ span >= 2^(n - 1))

\* A machine of the big order reverses the bytes, so that the low ones go first.
LowFirst(bytes, big) == IF big THEN Reverse(bytes) ELSE bytes

Absolute(x) == IF x < 0 THEN -x ELSE x
Root(d) == CHOOSE r \in 0 .. 2 * Unit : r * r <= d /\ (r + 1) * (r + 1) > d
Sign(x) == IF x < 0 THEN <<1>> ELSE <<0>>

\* WriteNormQuat of <<w, x, y, z>>: four signs, and the amounts of all but w.
Quaternion(q, big) ==
  FlattenSeq([k \in 1 .. 4 |-> Sign(q[k])])
  \o FlattenSeq([k \in 1 .. 3 |-> Whole((Absolute(q[k + 1]) * 65535) \div Unit, 2, big)])
FromQuaternion(signs, amounts) ==
  LET near == [k \in 1 .. 3 |-> (2 * amounts[k] * Unit + 65535) \div (2 * 65535)]
      rest == Unit * Unit - near[1] * near[1] - near[2] * near[2] - near[3] * near[3]
      w == Root(IF rest < 0 THEN 0 ELSE rest)
      all == <<w, near[1], near[2], near[3]>>
  IN  [k \in 1 .. 4 |-> IF signs[k] = <<1>> THEN -all[k] ELSE all[k]]

\* ReadOrthMatrix: the rotation of a quaternion, in steps of 1 / Unit^2, by rows.
Rotation(q) ==
  LET w == q[1]  x == q[2]  y == q[3]  z == q[4] IN
  << x*x - y*y - z*z + w*w, 2 * (x*y - z*w),           2 * (x*z + y*w),
     2 * (x*y + z*w),       -x*x + y*y - z*z + w*w,    2 * (y*z - x*w),
     2 * (x*z - y*w),       2 * (y*z + x*w),           -x*x - y*y + z*z + w*w >>

\* WriteOrthMatrix: the amounts from the diagonal, the signs from the differences
\* across it.
CopySign(a, s) == IF s < 0 THEN -a ELSE a
ToQuaternion(m) ==
  LET amount(sum) == Root(IF sum < 0 THEN 0 ELSE sum) \div 2
      one == Unit * Unit
  IN  << amount(one + m[1] + m[5] + m[9]),
         CopySign(amount(one + m[1] - m[5] - m[9]), m[8] - m[6]),
         CopySign(amount(one - m[1] + m[5] - m[9]), m[3] - m[7]),
         CopySign(amount(one - m[1] - m[5] + m[9]), m[4] - m[2]) >>

-----------------------------------------------------------------------------
(***************************************************************************)
(* Writing.                                                                *)
(***************************************************************************)
\* The stream up to the byte boundary (the skipped bits are what was there).
AlignWriteToByteBoundary(s) == s \o [k \in 1 .. Aligned(Len(s)) - Len(s) |-> 0]

WriteBool(s, item, big)   == Append(s, item.v[1])
WriteNumber(s, item, big) == s \o Whole(item.v[1], item.bytes, big)
WriteUint24(s, item, big) == AlignWriteToByteBoundary(s) \o BitsOf(Reverse(Bytes(item.v[1], 3)), 24)
WriteCompressed(s, item, big) == s \o Compressed(item.v[1], item.bytes, big)
WriteCasted(s, item, big) == s \o Whole(item.v[1] % 256, 1, big)

\* The address is hidden and, like the port, in the network's order already.
WriteAddress(s, item, big) ==
  s \o IntBits(4, 8) \o BitsOf([k \in 1 .. 4 |-> 255 - item.v[k]], 32)
    \o BitsOf(<<item.v[5], item.v[6]>>, 16)

WriteDelta(s, item, big) ==
  IF item.v = item.last THEN Append(s, 0)
  ELSE Append(s, 1) \o (IF item.compressed THEN Compressed(item.v[1], item.bytes, big)
                                           ELSE Whole(item.v[1], item.bytes, big))

WriteBitsFromIntegerRange(s, item, big) ==
  IF item.allowOutsideRange /\ item.v[1] \notin item.minimum .. item.maximum
    THEN Append(s, 1) \o Whole(item.v[1], item.bytes, big)
    ELSE s \o (IF item.allowOutsideRange THEN <<0>> ELSE << >>)
           \o BitsOf(LowFirst(Memory(item.v[1] - item.minimum, item.bytes, big), big),
                     RequiredBits(item))

Levels(xs, big) == FlattenSeq([k \in DOMAIN xs |-> Whole(Level(xs[k]), 2, big)])
WriteNormVector(s, item, big) == s \o Levels(item.v, big)

\* v[1] is the magnitude as it is written, 1 being the threshold; measured, whether
\* it was above it before it was made a float.
WriteVector(s, item, big) ==
  s \o Whole(item.v[1], 4, big) \o (IF item.measured THEN Levels(Tail(item.v), big) ELSE << >>)

\* The streams there may be after an item is written behind stream s.
StreamsWith(s, item, big) ==
  CASE item.kind = "bool"       -> {WriteBool(s, item, big)}
    [] item.kind = "number"     -> {WriteNumber(s, item, big)}
    [] item.kind = "uint24"     -> {WriteUint24(s, item, big)}
    [] item.kind = "address"    -> {WriteAddress(s, item, big)}
    [] item.kind = "delta"      -> {WriteDelta(s, item, big)}
    [] item.kind = "compressed" -> {WriteCompressed(s, item, big)}
    [] item.kind = "float"      -> {s \o Whole(Level(item.v[1]), 2, big)}
    [] item.kind = "double"     -> {s \o Whole(l, DoubleBytes, big) : l \in DoubleLevels(item.v[1])}
    [] item.kind = "casted"     -> {WriteCasted(s, item, big)}
    [] item.kind = "range"      -> {WriteBitsFromIntegerRange(s, item, big)}
    [] item.kind = "normVector" -> {WriteNormVector(s, item, big)}
    [] item.kind = "vector"     -> {WriteVector(s, item, big)}
    [] item.kind = "quaternion" -> {s \o Quaternion(item.v, big)}
    [] item.kind = "matrix"     -> {s \o Quaternion(ToQuaternion(item.v), big)}

-----------------------------------------------------------------------------
(***************************************************************************)
(* Reading.                                                                *)
(***************************************************************************)
Success(v, to) == [ok |-> TRUE, v |-> v, to |-> to]
Failure(to)    == [ok |-> FALSE, v |-> << >>, to |-> to]

Missing == <<-1>>

\* ReadBits one after another, of so many bits each, without a look at the results:
\* a read that fails takes nothing, and the next begins where it began.
Fields(at, lengths) ==
  FoldLeft(LAMBDA so, n :
             IF so.to + n > arrivedBits
               THEN [so EXCEPT !.got = Append(@, Missing)]
               ELSE [got |-> Append(so.got, SubSeq(data, so.to + 1, so.to + n)), to |-> so.to + n],
           [got |-> << >>, to |-> at], lengths)

\* What a variable that no read has set may hold.
Garbage == {0, 255}

\* A result of fields: refused when the field that is looked at is missing.
Unless(missing, v, to) == IF missing THEN Failure(to) ELSE Success(v, to)

ReadBool(at) == LET f == Fields(at, <<1>>) IN Unless(f.got[1] = Missing, f.got[1], f.to)

ReadNumber(at, n) ==
  LET f == Fields(at, <<8 * n>>)
  IN  Unless(f.got[1] = Missing, <<FromWhole(f.got[1], bigEndian.reader)>>, f.to)

ReadCompressed(at, n) ==
  LET flag == Fields(at, <<1>>)
      small == flag.got[1] = <<1>>
      rest == Fields(flag.to, <<IF small THEN 4 * n ELSE 8 * n>>)
      upper == IF small THEN [k \in 1 .. 4 * n |-> 0] ELSE << >>
  IN  Unless(Missing \in {flag.got[1], rest.got[1]},
             <<FromWhole(upper \o rest.got[1], bigEndian.reader)>>, rest.to)

\* Mutant of ReadUint24: it does not align.
ReadUint24Here(at) ==
  LET f == Fields(at, <<24>>)
  IN  Unless(f.got[1] = Missing, <<FromBytes(Reverse(BytesOf(f.got[1])))>>, f.to)
ReadUint24(at) ==
  LET f == Fields(Aligned(at), <<24>>)
  IN  Unless(f.got[1] = Missing, <<FromBytes(Reverse(BytesOf(f.got[1])))>>, f.to)

\* Any version but 4 is refused; the result is then that of the port alone.
ReadAddress(at) ==
  LET version == Fields(at, <<8>>)
      f == Fields(version.to, <<32, 16>>)
      isFour == IF version.got[1] = Missing THEN BOOLEAN ELSE {Number(version.got[1]) = 4}
      addresses == IF f.got[1] = Missing THEN [1 .. 4 -> Garbage]
                   ELSE {[k \in 1 .. 4 |-> 255 - BytesOf(f.got[1])[k]]}
  IN  {IF four THEN Unless(f.got[2] = Missing, ip \o BytesOf(f.got[2]), f.to)
               ELSE Failure(version.to) : four \in isFour, ip \in addresses}

ReadDelta(at, item) ==
  LET flag == Fields(at, <<1>>) IN
  IF flag.got[1] = <<1>>
    THEN IF item.compressed THEN ReadCompressed(flag.to, item.bytes)
                            ELSE ReadNumber(flag.to, item.bytes)
    ELSE Unless(flag.got[1] = Missing, item.last, flag.to)

ReadFloat(at)  == LET r == ReadNumber(at, 2) IN Unless(~r.ok, <<FromLevel(r.v[1])>>, r.to)
ReadDouble(at) == LET r == ReadNumber(at, DoubleBytes) IN Unless(~r.ok, <<FromDoubleLevel(r.v[1])>>, r.to)

ReadBitsFromIntegerRange(at, item) ==
  LET flag == IF item.allowOutsideRange THEN Fields(at, <<1>>) ELSE [got |-> << <<0>> >>, to |-> at]
      f == Fields(flag.to, <<RequiredBits(item)>>)
      got == BytesOf(f.got[1])
      output == [k \in 1 .. item.bytes |-> IF k \in DOMAIN got THEN got[k] ELSE 0]
      offset == FromMemory(LowFirst(output, bigEndian.reader), bigEndian.reader)
  IN  IF flag.got[1] = <<1>> THEN ReadNumber(flag.to, item.bytes)
      ELSE Unless(Missing \in {flag.got[1], f.got[1]},
                  <<(offset + item.minimum) % 256^item.bytes>>, f.to)

FromLevels(got) == [k \in DOMAIN got |-> FromLevel(FromWhole(got[k], bigEndian.reader))]

\* ReadNormVector looks at none of its three reads.
ReadNormVector(at) ==
  LET f == Fields(at, <<16, 16, 16>>) IN
  {Success([k \in 1 .. 3 |-> IF f.got[k] = Missing THEN x ELSE FromLevels(f.got)[k]], f.to) :
     x \in Garbage}

ReadVector(at) ==
  LET r == ReadNumber(at, 4)
      f == Fields(r.to, <<16, 16, 16>>)
  IN  IF ~r.ok THEN r
      ELSE IF r.v[1] <= 1 THEN Success(<<0, 0, 0, 0>>, r.to)
      ELSE Unless(f.got[3] = Missing, r.v \o FromLevels(f.got), f.to)

ReadNormQuat(at) ==
  LET f == Fields(at, <<1, 1, 1, 1, 16, 16, 16>>)
      amounts == [k \in 1 .. 3 |-> FromWhole(f.got[k + 4], bigEndian.reader)]
  IN  Unless(f.got[7] = Missing, FromQuaternion(f.got, amounts), f.to)

ReadOrthMatrix(at) == LET r == ReadNormQuat(at) IN Unless(~r.ok, Rotation(r.v), r.to)

\* What a template reads at an offset: one result, or as many as there are values of
\* what it leaves unset.
Reads(item, at) ==
  CASE item.kind = "bool"       -> {ReadBool(at)}
    [] item.kind = "number"     -> {ReadNumber(at, item.bytes)}
    [] item.kind = "uint24"     -> {ReadUint24(at)}
    [] item.kind = "address"    -> ReadAddress(at)
    [] item.kind = "delta"      -> {ReadDelta(at, item)}
    [] item.kind = "compressed" -> {ReadCompressed(at, item.bytes)}
    [] item.kind = "float"      -> {ReadFloat(at)}
    [] item.kind = "double"     -> {ReadDouble(at)}
    [] item.kind = "casted"     -> {ReadNumber(at, 1)}
    [] item.kind = "range"      -> {ReadBitsFromIntegerRange(at, item)}
    [] item.kind = "normVector" -> ReadNormVector(at)
    [] item.kind = "vector"     -> {ReadVector(at)}
    [] item.kind = "quaternion" -> {ReadNormQuat(at)}
    [] item.kind = "matrix"     -> {ReadOrthMatrix(at)}

-----------------------------------------------------------------------------
StreamInit ==
  /\ written = << >> /\ ends = << >> /\ data = << >> /\ arrivedBits = -1
  /\ bigEndian \in [writer : BOOLEAN, reader : BOOLEAN]
  /\ readOffset = 0 /\ results = << >>

WriteItem ==
  /\ arrivedBits = -1 /\ Len(written) < MaxStreamItems
  /\ \E item \in StreamItems :
       /\ written' = Append(written, item)
       /\ data' \in StreamsWith(data, item, bigEndian.writer)
       /\ ends' = Append(ends, Len(data'))
  /\ UNCHANGED <<arrivedBits, bigEndian, readOffset, results>>

\* A stream is made of the first bytes of the other's, as many as there are.
Arrive ==
  /\ arrivedBits = -1 /\ written # << >>
  /\ \E bytes \in 0 .. (Len(data) + 7) \div 8 :
       /\ arrivedBits' = 8 * bytes
       /\ data' = SubSeq(AlignWriteToByteBoundary(data), 1, 8 * bytes)
  /\ UNCHANGED <<written, ends, bigEndian, readOffset, results>>

\* The reader gives up at the first read that fails.
ReadItem ==
  /\ arrivedBits # -1 /\ Len(results) < Len(written)
  /\ results # << >> => Last(results).ok
  /\ \E result \in Reads(written[Len(results) + 1], readOffset) :
       results' = Append(results, result) /\ readOffset' = result.to
  /\ UNCHANGED <<written, ends, data, arrivedBits, bigEndian>>

StreamNext == WriteItem \/ Arrive \/ ReadItem
StreamSpec == StreamInit /\ [][StreamNext]_streamVars

-----------------------------------------------------------------------------
IsHalfTurn(m) == ToQuaternion(m)[1] = 0
\* The values an item may come back as.  A vector at or below the threshold is 0.
\* A compressed 1.0 may come back as -1.0: (1.0 + 1.0) * 2^31 does not fit 32 bits.  Of
\* a half turn the differences the signs are taken from are all 0, and the signs of
\* its axis are lost.
ReadAs(item) ==
  CASE item.kind = "vector" /\ ~item.measured -> {<<0, 0, 0, 0>>}
    [] item.kind = "double" /\ item.v = <<Unit>> -> {<<Unit>>, <<-Unit>>}
    [] item.kind = "matrix" /\ IsHalfTurn(item.v) ->
         LET q == ToQuaternion(item.v) IN
         {Rotation(<<0, q[2], s * q[3], t * q[4]>>) : s, t \in {-1, 1}}
    [] OTHER -> {item.v}
HasArrived(k) == ends[k] <= arrivedBits
ReadRight(k) == results[k].ok /\ results[k].v \in ReadAs(written[k]) /\ results[k].to = ends[k]

\* What is read with the template it was written with, from whatever offset the
\* items before left and on whichever machine, comes back if its bits have arrived
\* and else is refused.  Nothing is said from the first cut address or vector of
\* length 1 on: their failure is not always shown (see SomePromiseKept).
FailureShown(item) == item.kind \notin {"address", "normVector"}
ReadsBack ==
  \A k \in DOMAIN results :
    (\A j \in 1 .. k : HasArrived(j) \/ FailureShown(written[j])) =>
      IF HasArrived(k) THEN ReadRight(k) ELSE ~results[k].ok

\* BitStream.h:816 of a system address and 436 of a vector of length 1: "return true
\* on success, false on failure".  And 293 of a compressed double, "lossy ... The
\* range must be between -1 and +1": what is in the range comes back but for a loss.
\* The code breaks all three, in one stream: it does not keep even one of them.
Refuses(kind) ==
  \A k \in DOMAIN results : written[k].kind = kind /\ ~HasArrived(k) => ~results[k].ok
KeepsTheRange ==
  \A k \in DOMAIN results :
    written[k].kind = "double" /\ HasArrived(k) => results[k].v = written[k].v
SomePromiseKept == Refuses("address") \/ Refuses("normVector") \/ KeepsTheRange
=============================================================================
