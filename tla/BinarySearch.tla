---------------------------- MODULE BinarySearch ----------------------------
EXTENDS Integers

(***************************************************************************)
(* GetIndexFromKey, over a list whose element i compares as cf[i] with the *)
(* key searched for (-1, 0, 1).  The first probe is the middle by size,    *)
(* the later ones by bounds.                                               *)
(***************************************************************************)
\* Mutant of NewBounds: the probed element stays among the candidates above.
NewBoundsWide(b, probe, res) ==
  IF res < 0 THEN <<b[1], probe - 1>> ELSE <<probe + 2, b[2]>>
NewBounds(b, probe, res) ==
  IF res < 0 THEN <<b[1], probe - 1>> ELSE <<probe + 1, b[2]>>

BoundsIn(size) == {b \in (0 .. size - 1) \X (0 .. size - 1) : b[1] <= b[2]}
Probe(size, b) ==
  IF b = <<0, size - 1>> THEN size \div 2 ELSE b[1] + ((b[2] - b[1]) \div 2)

GetIndexFromKey(size, cf) ==
  LET Search[b \in BoundsIn(size)] ==
        LET probe == Probe(size, b)
            next == NewBounds(b, probe, cf[probe])
        IN  IF cf[probe] = 0 THEN [index |-> probe, exists |-> TRUE]
            ELSE IF next[1] > next[2] THEN [index |-> next[1], exists |-> FALSE]
            ELSE Search[next]
  IN  IF size = 0 THEN [index |-> 0, exists |-> FALSE] ELSE Search[<<0, size - 1>>]

Compare(a, b) == IF a < b THEN -1 ELSE IF a = b THEN 0 ELSE 1
=============================================================================
