------------------------------- MODULE MCBuild -------------------------------
(***************************************************************************)
(* Three parts of the program, one at a time as in MCLive: the server      *)
(* console, with more clients than connections and fewer rows than         *)
(* packets; the generation of layers of map_size x map_size cells, with    *)
(* walks that are long enough to cross them, turn, make a room and end on  *)
(* a border; and the game of a player who uses the debug menu, whose boy   *)
(* sees nothing and turns at once.                                         *)
(***************************************************************************)
EXTENDS Console, SpaceMap, MCGame

VARIABLE part

buildVars == <<part, sceneVars, spaceVars, vars>>

BuildInit == /\ part \in {"console", "map", "debug"}
             /\ ConsoleInit /\ SpaceInit /\ GameInit
             \* The other parts begin in one way only.
             /\ part # "map" => walkDirection = <<1, 0>>

BuildNext == /\ UNCHANGED part
             /\ IF part = "console" THEN ConsoleNext ELSE UNCHANGED sceneVars
             /\ IF part = "map"     THEN SpaceNext   ELSE UNCHANGED spaceVars
             /\ IF part = "debug"   THEN DebugNext   ELSE UNCHANGED vars

BuildSpec == /\ BuildInit /\ [][BuildNext]_buildVars
             /\ WF_sceneVars(part = "console" /\ (StartFrame \/ UpdateFrame)
                            /\ UNCHANGED <<part, spaceVars, vars>>)
=============================================================================
