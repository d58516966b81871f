---------------------------- MODULE QueuePromise ----------------------------
(***************************************************************************)
(* What DataStructures::Queue promises: a sequence that grows and shrinks  *)
(* at both ends, and where an element can be put in or taken out.          *)
(***************************************************************************)
EXTENDS Sequences, Naturals

CONSTANT Elements

VARIABLE content

Init == content = << >>

Inserted(index, e) ==
  SubSeq(content, 1, index) \o <<e>> \o SubSeq(content, index + 1, Len(content))
Removed(index) ==
  SubSeq(content, 1, index) \o SubSeq(content, index + 2, Len(content))

Next == \/ \E index \in 0 .. Len(content), e \in Elements : content' = Inserted(index, e)
        \/ \E index \in 0 .. Len(content) - 1 : content' = Removed(index)
        \/ content' = << >>

Spec == Init /\ [][Next]_content
=============================================================================
