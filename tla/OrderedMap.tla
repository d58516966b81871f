----------------------------- MODULE OrderedMap -----------------------------
(***************************************************************************)
(* DataStructures::OrderedList and Map of DS_OrderedList.h and DS_Map.h: a *)
(* list that a binary search keeps in order.  Next to it is the dictionary *)
(* a caller takes the map for.  Positions count from 0.                    *)
(***************************************************************************)
EXTENDS Integers, Sequences, SequencesExt, BinarySearch

CONSTANTS MapKeys, MapData

ASSUME OrderedMapAssumption == MapKeys \subseteq Int

VARIABLES mapNodeList,  \* pairs <<key, data>>
          dictionary
mapVars == <<mapNodeList, dictionary>>

MapInit == mapNodeList = << >> /\ dictionary = << >>

Found(key) ==
  GetIndexFromKey(Len(mapNodeList),
                  [i \in 0 .. Len(mapNodeList) - 1 |-> Compare(key, mapNodeList[i + 1][1])])

-----------------------------------------------------------------------------
Assigned(key, data) ==
  [k \in DOMAIN dictionary \union {key} |-> IF k = key THEN data ELSE dictionary[k]]

\* Set; SetNew of a key that is new and SetExisting of one that is not are its halves.
MapSet(key, data) ==
  /\ mapNodeList' =
       IF Found(key).exists
         THEN ReplaceAt(mapNodeList, Found(key).index + 1, <<key, data>>)
         ELSE InsertAt(mapNodeList, Found(key).index + 1, <<key, data>>)
  /\ dictionary' = Assigned(key, data)

\* SetNew of a key that is there: without assertions the insertion is refused.
MapSetNewAgain(key) ==
  /\ Found(key).exists
  /\ UNCHANGED mapVars

\* Delete, and Pop of a key that is there.
MapDelete(key) ==
  /\ Found(key).exists
  /\ mapNodeList' = RemoveAt(mapNodeList, Found(key).index + 1)
  /\ dictionary' = [k \in DOMAIN dictionary \ {key} |-> dictionary[k]]

\* Pop of a key that is not there: without assertions the node that stands where
\* it would be is removed, if there is one.
MapPopMissing(key) ==
  LET f == Found(key)
  IN  /\ ~f.exists /\ f.index < Len(mapNodeList)
      /\ mapNodeList' = RemoveAt(mapNodeList, f.index + 1)
      /\ dictionary' = [k \in DOMAIN dictionary \ {mapNodeList[f.index + 1][1]} |-> dictionary[k]]

MapClear == /\ mapNodeList # << >>
            /\ mapNodeList' = << >> /\ dictionary' = << >>

MapNext ==
  \/ \E key \in MapKeys :
       \/ \E data \in MapData : MapSet(key, data)
       \/ MapSetNewAgain(key) \/ MapDelete(key) \/ MapPopMissing(key)
  \/ MapClear

MapSpec == MapInit /\ [][MapNext]_mapVars

-----------------------------------------------------------------------------
\* The list holds exactly the dictionary's pairs, in strictly rising order of
\* their keys, and the search finds every key there is, and for every other one
\* the place that keeps the order.
MapIsDictionary ==
  /\ \A i \in 1 .. Len(mapNodeList) - 1 : mapNodeList[i][1] < mapNodeList[i + 1][1]
  /\ ToSet(mapNodeList) = {<<k, dictionary[k]>> : k \in DOMAIN dictionary}
  /\ \A key \in MapKeys :
       Found(key) = [index  |-> Cardinality({k \in DOMAIN dictionary : k < key}),
                     exists |-> key \in DOMAIN dictionary]
=============================================================================
