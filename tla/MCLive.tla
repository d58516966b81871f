------------------------------- MODULE MCLive -------------------------------
(***************************************************************************)
(* The boy of Patrol, whose frames the main loop runs, and the threads of  *)
(* ThreadPool, which the system runs, one at a time: `part' chooses one in *)
(* the initial state, its variables take its steps and the other's stay as *)
(* they were made.                                                         *)
(*                                                                         *)
(* The boy's house has 5 x 5 cells: a corridor around a pillar.            *)
(*     # # # # #                                                           *)
(*     # . . . #                                                           *)
(*     # . # . #                                                           *)
(*     # . . . #                                                           *)
(*     # # # # #                                                           *)
(* The player spots are a cell's centre, a point just right of the pillar  *)
(* (its truncated cell is the pillar), a point just below the upper border *)
(* (its truncated cell is the border) and a point between two free cells.  *)
(***************************************************************************)
EXTENDS Patrol, ThreadPool

MCHouse == Border \union {<<2, 2>>}

\* A free cell, and a border cell: map generation can end a layer on either.
MCSpawns == {<<1, 1>>, <<0, 2>>}

MCPlayerSpots == {[x |-> 8, y |-> 4], [x |-> 11, y |-> 8],
                  [x |-> 8, y |-> 3], [x |-> 5,  y |-> 13]}

ASSUME MCSpotsAreFree ==
  \A p \in MCPlayerSpots : ~CircleCollide(MCHouse, p, 10)
-----------------------------------------------------------------------------
VARIABLE part

liveVars == <<part, enemyVars, poolVars>>

LiveInit == /\ part \in {"boy", "pool"}
            /\ PatrolInit /\ PoolInit
            /\ part # "boy" => position = AtCell(<<1, 1>>)

LiveNext == /\ UNCHANGED part
            /\ IF part = "boy"  THEN PatrolNext ELSE UNCHANGED enemyVars
            /\ IF part = "pool" THEN PoolNext   ELSE UNCHANGED poolVars

\* What PoolFairness is about cannot happen in the initial state, where the boy's
\* part leaves the pool.
LiveSpec == /\ LiveInit /\ [][LiveNext]_liveVars
            /\ WF_enemyVars(part = "boy" /\ PatrolNext /\ UNCHANGED <<part, poolVars>>)
            /\ PoolFairness
=============================================================================
