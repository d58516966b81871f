----------------------------- MODULE MCBitStream -----------------------------
(***************************************************************************)
(* One or more items of every template, at the ends of its range; real     *)
(* numbers in fifths, for which there are unit quaternions.                *)
(***************************************************************************)
EXTENDS BitStream

Plain(kind, v)     == [kind |-> kind, v |-> v]
Sized(kind, v, n)  == [kind |-> kind, v |-> <<v>>, bytes |-> n]
Delta(v, last, c)  == [kind |-> "delta", v |-> <<v>>, last |-> <<last>>, bytes |-> 2, compressed |-> c]
Ranged(v, n, outside) == [kind |-> "range", v |-> <<v>>, minimum |-> 250,
                          maximum |-> IF n = 1 THEN 254 ELSE 1000, bytes |-> n,
                          allowOutsideRange |-> outside]
Vector(v, above)   == [kind |-> "vector", v |-> v, measured |-> above]

MCQuaternions == {<<-3, 4, 0, 0>>, <<0, 3, -4, 0>>, <<2, -2, 4, -1>>}
\* A turn that is not a half turn, and a half turn.
MCRotations   == {Rotation(<<3, 0, -4, 0>>), Rotation(<<0, 3, -4, 0>>)}

MCItems ==
  {Plain("bool", <<1>>), Sized("number", 200, 1), Sized("number", 258, 2), Plain("uint24", <<66051>>),
   Plain("address", <<127, 0, 0, 1, 0, 80>>), Delta(7, 7, FALSE), Delta(258, 7, FALSE),
   Delta(7, 258, TRUE), Sized("compressed", 5, 2), Sized("compressed", 200, 1),
   Sized("casted", 53, 1), Ranged(254, 1, FALSE), Ranged(3, 1, TRUE), Ranged(251, 1, TRUE),
   Ranged(1000, 2, FALSE), Ranged(550, 2, TRUE),
   Plain("normVector", <<-5, 0, 5>>), Vector(<<1, 5, 0, 0>>, FALSE), Vector(<<9, 3, -4, 0>>, TRUE)}
  \union {Plain("float", <<x>>) : x \in {-5, 2, 5}} \union {Plain("double", <<x>>) : x \in {-5, 2, 5}}
  \union {Plain("quaternion", q) : q \in MCQuaternions} \union {Plain("matrix", m) : m \in MCRotations}

\* The three whose reads break what the header says of them.
MCMisread == {Plain("address", <<127, 0, 0, 1, 0, 80>>), Plain("normVector", <<-5, 0, 5>>),
              Plain("double", <<5>>)}
=============================================================================
