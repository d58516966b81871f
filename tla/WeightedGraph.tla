--------------------------- MODULE WeightedGraph ----------------------------
(***************************************************************************)
(* DataStructures::WeightedGraph of DS_WeightedGraph.h: adjacency lists    *)
(* and the matrix Dijkstra's algorithm leaves for the next path from the   *)
(* same node.  The maps are functions; the heap is read as its promise.    *)
(***************************************************************************)
EXTENDS Integers, Sequences, FiniteSets

CONSTANTS Nodes, EdgeWeights,
          INFINITE_WEIGHT,
          AllowUnlinked,  \* the template parameter allow_unlinkedNodes
          MaxEdges,       \* bounds of the model: edges of a graph,
          MaxEdgesKept    \* and edges up to which it grows under a kept matrix

\* No way without a detour costs as much as INFINITE_WEIGHT.
LargestWeight == (INFINITE_WEIGHT - 1) \div Cardinality(Nodes)
ASSUME GraphAssumption == /\ Nodes \subseteq Nat /\ IsFiniteSet(Nodes) /\ Nodes # {}
                          /\ EdgeWeights \subseteq 1 .. LargestWeight
                          /\ AllowUnlinked \in BOOLEAN /\ {MaxEdges, MaxEdgesKept} \subseteq Nat
                          /\ INFINITE_WEIGHT \in Nat \ {0}

VARIABLES adjacencyLists,  \* from a node to its neighbours, from a neighbour to the weight
          dijkstra,        \* the matrix and what belongs to it; isValidPath = FALSE: none
          lastPath         \* the last path asked for and found: its ends, its nodes
graphVars == <<adjacencyLists, dijkstra, lastPath>>

NoneLeft == -1   \* no node, and an entry of leastNodeArray that is not written
NoMatrix == [isValidPath |-> FALSE, rootNode |-> 0, filledFrom |-> << >>,
             costMatrix |-> << >>, leastNodeArray |-> << >>]
NoPath == [nodes |-> << >>, from |-> 0, to |-> 0]
Misread == [nodes |-> <<NoneLeft>>, from |-> 0, to |-> 0]  \* whatever the wrong entries give

GraphInit == adjacencyLists = << >> /\ dijkstra = NoMatrix /\ lastPath = NoPath

HasNode(n) == n \in DOMAIN adjacencyLists
HasConnection(a, b) == a # b /\ HasNode(a) /\ b \in DOMAIN adjacencyLists[a]

WithoutKey(f, n) == [m \in DOMAIN f \ {n} |-> f[m]]
WithKeyAt(f, n, v) == [m \in DOMAIN f \union {n} |-> IF m = n THEN v ELSE f[m]]
Edges(lists) == UNION {{{a, b} : b \in DOMAIN lists[a]} : a \in DOMAIN lists}
ListOf(lists, n) == IF n \in DOMAIN lists THEN lists[n] ELSE << >>

ClearDijkstra == dijkstra' = NoMatrix /\ lastPath' = NoPath

\* A new node or edge leaves the matrix, and isValidPath, as they were: the matrix
\* stays that of filledFrom, the graph at the time, whose nodes are costMatrixIndices.
KeepDijkstra == dijkstra' = dijkstra /\ lastPath' = NoPath

-----------------------------------------------------------------------------
AddNode(n) ==
  /\ ~HasNode(n) /\ AllowUnlinked
  /\ adjacencyLists' = WithKeyAt(adjacencyLists, n, << >>)
  /\ KeepDijkstra

AddConnection(a, b, weight) ==
  /\ a # b
  /\ Cardinality(Edges(adjacencyLists) \union {{a, b}})
       <= IF dijkstra.isValidPath THEN MaxEdgesKept ELSE MaxEdges
  /\ LET one == WithKeyAt(adjacencyLists, a, WithKeyAt(ListOf(adjacencyLists, a), b, weight))
     IN  adjacencyLists' = WithKeyAt(one, b, WithKeyAt(ListOf(one, b), a, weight))
  /\ KeepDijkstra

Unlinked(lists, n) == [m \in DOMAIN lists \ {n} |-> WithoutKey(lists[m], n)]

\* The nodes that RemoveNode leaves without a neighbour go too, if none may be so.
\* A second such node is queued again after the first has gone and is popped when
\* it is no longer there: callers have to leave at most one.
RemoveNode(n) ==
  LET rest == Unlinked(adjacencyLists, n)
      lonely == {m \in DOMAIN rest : DOMAIN rest[m] = {}}
  IN  /\ HasNode(n)
      /\ IF AllowUnlinked THEN adjacencyLists' = rest
         ELSE /\ Cardinality(lonely) <= 1
              /\ adjacencyLists' = [m \in DOMAIN rest \ lonely |-> rest[m]]
      /\ ClearDijkstra

RemoveConnection(a, b) ==
  LET rest == [m \in DOMAIN adjacencyLists |->
                 CASE m = a -> WithoutKey(adjacencyLists[a], b)
                   [] m = b -> WithoutKey(adjacencyLists[b], a)
                   [] OTHER -> adjacencyLists[m]]
  IN  /\ HasConnection(a, b)
      /\ adjacencyLists' =
           IF AllowUnlinked THEN rest
           ELSE [m \in {n \in DOMAIN rest : n \notin {a, b} \/ DOMAIN rest[n] # {}} |-> rest[m]]
      /\ ClearDijkstra

GraphClear == /\ adjacencyLists # << >>
              /\ adjacencyLists' = << >> /\ ClearDijkstra

-----------------------------------------------------------------------------
(***************************************************************************)
(* GenerateDisjktraMatrix.  Row r of the matrix has the cost of every node *)
(* when r nodes are settled; leastNodeArray[r] is the node settled then.   *)
(***************************************************************************)
\* Mutant of Cheaper: a node once reached keeps its first cost.
CheaperNever(cost, known) == known = INFINITE_WEIGHT
Cheaper(cost, known) == cost < known

\* Where the loop is: the node to go through next, the other nodes reached and not
\* yet gone through, and the row of costs.  One round goes through the node's edges.
FirstRound(lists, start) ==
  [current |-> start, open |-> {},
   costs |-> [n \in DOMAIN lists |-> IF n = start THEN 0 ELSE INFINITE_WEIGHT]]
NextRound(lists, s) ==
  LET list == ListOf(lists, s.current)
      better == {n \in DOMAIN list : Cheaper(s.costs[s.current] + list[n], s.costs[n])}
      row == [n \in DOMAIN lists |-> IF n \in better THEN s.costs[s.current] + list[n]
                                     ELSE s.costs[n]]
      open == s.open \union better
      least == IF open = {} THEN NoneLeft
               ELSE CHOOSE n \in open : \A o \in open : row[n] <= row[o]
  IN  [current |-> least, open |-> open \ {least}, costs |-> row]

\* The rounds end early when nothing is left to go through: then the rows stay, and
\* the rest of leastNodeArray is not written.
Rounds(lists, start) ==
  LET round[r \in 0 .. Cardinality(DOMAIN lists) - 1] ==
        IF r = 0 THEN FirstRound(lists, start) ELSE NextRound(lists, round[r - 1])
  IN  round
Matrix(lists, start) ==
  LET size == Cardinality(DOMAIN lists)
      round == Rounds(lists, start)
  IN  [isValidPath |-> TRUE, rootNode |-> start, filledFrom |-> lists,
       costMatrix |-> [r \in 1 .. size |-> round[IF r = size THEN size - 1 ELSE r].costs],
       leastNodeArray |-> [r \in 1 .. size - 1 |-> round[r].current]]

\* A turn of GetShortestPath's loop: up the rows while the cost stands, and where it
\* does not to the node settled in that row.
TracedUp(m, row, t) ==
  IF m.costMatrix[row][Head(t.path)] = t.weight THEN t
  ELSE LET least == m.leastNodeArray[row]
       IN  [weight |-> m.costMatrix[row][least], path |-> <<least>> \o t.path]

Trace(m, rows, to) ==
  LET trace[i \in 0 .. rows - 2] ==
        IF i = 0 THEN [weight |-> m.costMatrix[rows - 1][to], path |-> <<to>>]
        ELSE TracedUp(m, (rows - 1) - i, trace[i - 1])
  IN  trace[rows - 2].path

\* A graph of two nodes is answered without a look at the matrix.
PathIn(m, from, to) ==
  LET rows == Cardinality(DOMAIN m.filledFrom)
  IN  IF rows = 2 THEN <<from, to>>
      ELSE IF m.costMatrix[rows - 1][to] = INFINITE_WEIGHT THEN << >>
      ELSE <<from>> \o Trace(m, rows, to)

\* The matrix has rows of as many entries as it had nodes, but they are looked up as if
\* there were one for every node of today's graph.
Misaligned(m) == Cardinality(DOMAIN m.filledFrom) \notin {2, Cardinality(DOMAIN adjacencyLists)}

\* A matrix of the same root answers, whatever was added to the graph since; a node it
\* does not know is not found.
GetShortestPath(from, to) ==
  LET m == IF dijkstra.isValidPath /\ dijkstra.rootNode = from THEN dijkstra
           ELSE Matrix(adjacencyLists, from)
  IN  /\ HasNode(from) /\ HasNode(to) /\ from # to
      /\ dijkstra' = m
      /\ lastPath' =
           IF to \notin DOMAIN m.filledFrom THEN NoPath
           ELSE IF Misaligned(m) THEN Misread
           ELSE [nodes |-> PathIn(m, from, to), from |-> from, to |-> to]
      /\ UNCHANGED adjacencyLists

GraphNext ==
  \/ \E a \in Nodes :
       \/ AddNode(a) \/ RemoveNode(a)
       \/ \E b \in Nodes : \/ \E w \in EdgeWeights : AddConnection(a, b, w)
                           \/ RemoveConnection(a, b) \/ GetShortestPath(a, b)
  \/ GraphClear

GraphSpec == GraphInit /\ [][GraphNext]_graphVars

-----------------------------------------------------------------------------
\* A way along the edges, and what it costs.
IsWay(lists, p, from, to) ==
  /\ p[1] = from /\ p[Len(p)] = to
  /\ \A i \in 1 .. Len(p) - 1 : p[i] \in DOMAIN lists /\ p[i + 1] \in DOMAIN lists[p[i]]
Cost(lists, p) ==
  LET cost[i \in 0 .. Len(p) - 1] == IF i = 0 THEN 0 ELSE cost[i - 1] + lists[p[i]][p[i + 1]]
  IN  cost[Len(p) - 1]
OnlyTwoUnlinked(lists) == Cardinality(DOMAIN lists) = 2 /\ Edges(lists) = {}
\* Every way that has no more steps than it needs is one of these.
Ways(lists, from, to) ==
  {p \in UNION {[1 .. k -> DOMAIN lists] : k \in 1 .. Cardinality(DOMAIN lists)} :
     IsWay(lists, p, from, to)}

(***************************************************************************)
(* The edges go both ways, and a path is a way of the graph that the       *)
(* matrix was filled from, and none of that graph is shorter; an empty one *)
(* means it had no way.  The path is a way of the graph as it is, too, but *)
(* no more: AddConnection does not clear the matrix (DS_WeightedGraph.h:   *)
(* 181), and the next question is answered from it (236), by a way that    *)
(* may be longer than a new one, by none, or "not found" for a new node.   *)
(* Nothing is said of two answers: one read from a matrix of fewer nodes   *)
(* than the graph has by now (265), and one between the two nodes, not     *)
(* linked, of a graph that has no others (258).                            *)
(***************************************************************************)
PathsAreShortest ==
  /\ \A a, b \in Nodes : HasConnection(a, b) =>
       HasConnection(b, a) /\ adjacencyLists[a][b] = adjacencyLists[b][a]
  /\ lastPath \notin {NoPath, Misread} /\ ~OnlyTwoUnlinked(dijkstra.filledFrom) =>
       LET p == lastPath.nodes
           filled == dijkstra.filledFrom
           ways == Ways(filled, lastPath.from, lastPath.to)
       IN  IF p = << >> THEN ways = {}
           ELSE /\ IsWay(adjacencyLists, p, lastPath.from, lastPath.to)
                /\ IsWay(filled, p, lastPath.from, lastPath.to)
                /\ \A q \in ways : Cost(filled, p) <= Cost(filled, q)
=============================================================================
