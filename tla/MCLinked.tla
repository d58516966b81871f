------------------------------ MODULE MCLinked ------------------------------
(***************************************************************************)
(* LinkedList with lists of one and of two items to concatenate.           *)
(***************************************************************************)
EXTENDS LinkedList

MCOthers == {<<2>>, <<2, 1>>}
=============================================================================
