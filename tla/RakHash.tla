------------------------------ MODULE RakHash ------------------------------
(***************************************************************************)
(* DS_Hash.h: HASH_SIZE chains of nodes, the newest node of a chain first; *)
(* a key may be pushed again, and then stands before its older data.       *)
(***************************************************************************)
EXTENDS Integers, Sequences, SequencesExt

CONSTANTS HashKeys, HashData, HASH_SIZE,
          MaxHashed  \* bound of the model on the nodes

ASSUME HashAssumption == HashKeys \subseteq Nat /\ HASH_SIZE \in Nat \ {0}

VARIABLES nodeList,  \* the chains, << >> when they are not allocated
          size,
          stacks     \* what a caller has pushed under each key and not taken
hashVars == <<nodeList, size, stacks>>

HashInit == nodeList = << >> /\ size = 0 /\ stacks = [key \in HashKeys |-> << >>]

hashFunction(key) == key % HASH_SIZE
Chain(key) == IF nodeList = << >> THEN << >> ELSE nodeList[hashFunction(key)]

\* The data of a key among some nodes, in their order.
Owned(nodes, key) ==
  LET data[n \in 0 .. Len(nodes)] ==
        IF n = 0 THEN << >>
        ELSE IF nodes[n].string = key THEN Append(data[n - 1], nodes[n].data)
        ELSE data[n - 1]
  IN  data[Len(nodes)]

\* GetIndexOf: the place of the key in its chain, 0 when it is not there.
GetSecondaryIndex(key) == SelectInSeq(Chain(key), LAMBDA node : node.string = key)

HashPush(key, x) ==
  /\ size < MaxHashed
  /\ LET lists == IF nodeList = << >> THEN [i \in 0 .. HASH_SIZE - 1 |-> << >>] ELSE nodeList
     IN  nodeList' = [lists EXCEPT ![hashFunction(key)] = <<[string |-> key, data |-> x]>> \o @]
  /\ size' = size + 1
  /\ stacks' = [stacks EXCEPT ![key] = <<x>> \o @]

\* A chain without a node.  Of a chain of one node the only one is deleted, without
\* a look at the place.  Mutant: so is the first of a longer chain.
WithoutFirst(chain, place) == Tail(chain)
WithoutNode(chain, place) == IF Len(chain) = 1 THEN << >> ELSE RemoveAt(chain, place)

RemoveHashNode(key, place) ==
  /\ nodeList' = [nodeList EXCEPT ![hashFunction(key)] = WithoutNode(@, place)]
  /\ size' = size - 1

\* Pop, and Remove: the newest node of the key.
HashPop(key) ==
  /\ GetSecondaryIndex(key) # 0 /\ RemoveHashNode(key, GetSecondaryIndex(key))
  /\ stacks' = [stacks EXCEPT ![key] = Tail(@)]

\* RemoveAtIndex of an index in range, whichever key stands there.
HashRemoveAtIndex(key, place) ==
  /\ place \in DOMAIN Chain(key) /\ RemoveHashNode(key, place)
  /\ LET chain == Chain(key)
         owner == chain[place].string
         nth == Len(Owned(SubSeq(chain, 1, place), owner))
     IN  stacks' = [stacks EXCEPT ![owner] = RemoveAt(@, nth)]

HashClear == /\ nodeList # << >> /\ nodeList' = << >> /\ size' = 0
             /\ stacks' = [key \in HashKeys |-> << >>]

HashNext == \/ \E key \in HashKeys : \/ \E x \in HashData : HashPush(key, x)
                                     \/ HashPop(key)
                                     \/ \E place \in 1 .. MaxHashed : HashRemoveAtIndex(key, place)
            \/ HashClear
HashSpec == HashInit /\ [][HashNext]_hashVars

\* GetAsList: the nodes chain by chain.
AllNodes(lists) ==
  LET nodes[n \in 0 .. HASH_SIZE] == IF n = 0 THEN << >> ELSE nodes[n - 1] \o lists[n - 1]
  IN  nodes[HASH_SIZE]
GetAsList == IF nodeList = << >> THEN << >> ELSE AllNodes(nodeList)

-----------------------------------------------------------------------------
\* Although keys share chains, under each key the data form a stack of their own:
\* GetAsList shows what was pushed there and not taken, the newest first; so does
\* the chain the key is looked for in, and size counts them all.
EachKeyIsAStack ==
  /\ \A key \in HashKeys : /\ Owned(GetAsList, key) = stacks[key]
                           /\ Owned(Chain(key), key) = stacks[key]
  /\ size = Len(GetAsList)
=============================================================================
