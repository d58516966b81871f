------------------------------- MODULE MCGame -------------------------------
(***************************************************************************)
(* A game of two layers of 4 x 4 cells: a room of 2 x 2 and the same room  *)
(* with a wall in the corner where the game starts.                        *)
(*     # # # #     # # # #                                                 *)
(*     # . . #     # . . #                                                 *)
(*     # . . #     # . # #                                                 *)
(*     # # # #     # # # #                                                 *)
(***************************************************************************)
EXTENDS Game, TLC

MCHouses         == (0 :> Border) @@ (1 :> Border \union {<<2, 2>>})
MCStartTeleports == (0 :> <<2, 1>>) @@ (1 :> <<1, 2>>)

\* The middle and a place near the walls, and, of the four, one inside the border and
\* one outside.
MCNearSpots   == {[x |-> 8, y |-> 8], [x |-> 5, y |-> 6]}
MCCameraSpots == MCNearSpots \union {[x |-> 12, y |-> 8], [x |-> 13, y |-> 8]}

\* A free place and one too near to the border.
MCLookSpots == {[x |-> 6, y |-> 6], [x |-> 2, y |-> 8]}
=============================================================================
