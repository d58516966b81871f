------------------------------- MODULE MCParts -------------------------------
(***************************************************************************)
(* The parts of the program that do not call one another, one at a time:   *)
(* `part' chooses one in the initial state, its variables take its steps   *)
(* and the others stay as they were made.  "play" is the game itself.      *)
(***************************************************************************)
EXTENDS PathHeat, TinyPngOut, RakList, RangeList, Heap, Queue, SearchTree, BPlusTree,
        WeightedGraph, SingleProducerConsumer, LinkedList, Multilist,
        RakHash, MemoryPool, SmartPtr, MCDelta, MCBitStream, AllocatingQueue, MCGame

VARIABLE part

partVars == <<part, heatVars, pngVars, listVars, mapVars, rangeVars, heapVars, queueVars,
              treeVars, bPlusVars, graphVars, pageVars, linkedVars, mlVars,
              hashVars, memoryVars, pointerVars, deltaVars,
              streamVars, allocatingVars, vars>>

\* A room of 3 x 3, and where the boy and the player are seen in it.
MCHeatWalls == {c \in HeatCells : c[1] \in {0, 4} \/ c[2] \in {0, 4}}
MCHeatSpots == {<<1, 1>>, <<2, 1>>, <<1, 3>>}
MCOthers    == {<<2, 1>>}

Init ==
  /\ part \in {"heat", "png", "list", "map", "range", "heap", "queue", "tree", "bPlus",
               "graph", "pages", "linked", "multilist", "hash", "memory", "pointers",
               "delta", "stream", "allocating", "play"}
  /\ HeatInit /\ PngInit /\ ListInit /\ MapInit /\ RangeInit /\ HeapInit /\ QueueInit
  /\ TreeInit /\ BPlusInit /\ GraphInit /\ PagesInit /\ LinkedInit
  /\ MultilistInit /\ HashInit /\ MemoryInit /\ PointersInit /\ DeltaInit /\ StreamInit
  /\ AllocatingInit /\ GameInit
  \* A part that is not chosen begins in one way only.
  /\ part # "tree" => avl
  /\ part # "linked" => circular
  /\ part # "multilist" => ml.type = "queue"
  /\ part # "memory" => BlocksPerPage = 2
  /\ part # "delta" => ~listFull
  /\ part # "stream" => bigEndian.writer /\ bigEndian.reader

Next ==
  /\ UNCHANGED part
  /\ IF part = "heat"      THEN HeatNext      ELSE UNCHANGED heatVars
  /\ IF part = "png"       THEN PngNext       ELSE UNCHANGED pngVars
  /\ IF part = "list"      THEN ListNext      ELSE UNCHANGED listVars
  /\ IF part = "map"       THEN MapNext       ELSE UNCHANGED mapVars
  /\ IF part = "range"     THEN RangeNext     ELSE UNCHANGED rangeVars
  /\ IF part = "heap"      THEN HeapNext      ELSE UNCHANGED heapVars
  /\ IF part = "queue"     THEN QueueNext     ELSE UNCHANGED queueVars
  /\ IF part = "tree"      THEN TreeNext      ELSE UNCHANGED treeVars
  /\ IF part = "bPlus"     THEN BPlusNext     ELSE UNCHANGED bPlusVars
  /\ IF part = "graph"     THEN GraphNext     ELSE UNCHANGED graphVars
  /\ IF part = "pages"     THEN PagesNext     ELSE UNCHANGED pageVars
  /\ IF part = "linked"    THEN LinkedNext    ELSE UNCHANGED linkedVars
  /\ IF part = "multilist" THEN MultilistNext ELSE UNCHANGED mlVars
  /\ IF part = "hash"      THEN HashNext      ELSE UNCHANGED hashVars
  /\ IF part = "memory"    THEN MemoryNext    ELSE UNCHANGED memoryVars
  /\ IF part = "pointers"  THEN PointersNext  ELSE UNCHANGED pointerVars
  /\ IF part = "delta"     THEN DeltaNext     ELSE UNCHANGED deltaVars
  /\ IF part = "stream"    THEN StreamNext    ELSE UNCHANGED streamVars
  /\ IF part = "allocating" THEN AllocatingNext ELSE UNCHANGED allocatingVars
  /\ IF part = "play"      THEN PlayNext      ELSE UNCHANGED vars

Spec == Init /\ [][Next]_partVars
=============================================================================
