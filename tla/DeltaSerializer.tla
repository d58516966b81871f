--------------------------- MODULE DeltaSerializer ---------------------------
(***************************************************************************)
(* VariableDeltaSerializer.h and VariableListDeltaTracker.h, sending       *)
(* UNRELIABLE_WITH_ACK_RECEIPT to one system: a tick writes the variables  *)
(* that differ from what was last written, and what a lost message held is *)
(* flagged dirty, to be written again.  Messages may be lost, late or out  *)
(* of order, and a receipt may report a loss of what has arrived or still  *)
(* will.  A value is a pair: the bytes it is serialized to, and which it   *)
(* is.  Begin and EndSerialize and the receipts are not in the headers:    *)
(* they do what the comments of the headers say.  A write past the end of  *)
(* the list's block ends what the model says.                              *)
(***************************************************************************)
EXTENDS Integers, FiniteSets, Sequences

CONSTANTS
  NumVars,     \* variables written in a tick, in order
  VarValues,
  ByteBits,    \* bits of a byte of bitField: 8
  MaxReceipts  \* bound of the model on the messages

Vars == 1 .. NumVars

\* bitField has 56 bytes and no test of its end.
ASSUME DeltaAssumption ==
  /\ NumVars \in Nat /\ NumVars <= 56 * ByteBits /\ ByteBits \in Nat \ {0}
  /\ VarValues \subseteq Nat \X Nat /\ VarValues # {} /\ MaxReceipts \in Nat

VARIABLES
  varData,       \* the variables' values at the sender
  variableList,  \* what was last written, and the dirty flags
  sendReceipt,   \* messages sent
  network,       \* the messages that may still arrive
  changedVariables,  \* by receipt still to come, the variables of the message's bitField
  arrived,       \* of those receipts, the ones whose message was read
  varsRead,      \* the values at the receiver
  newestRead,    \* by variable, the newest message it was read from
  setBack,       \* variables read from a message older than another they were read from
  unflagged,     \* variables whose flag was cleared though they were not written
  listFull,      \* do NumVars variables fill the block of variableList (16, 32, ... of them)?
  overrun        \* was the flag past the end of a full block written?
deltaVars == <<varData, variableList, sendReceipt, network, changedVariables, arrived,
               varsRead, newestRead, setBack, unflagged, listFull, overrun>>

NotRead == <<0, 0>>
DeltaInit ==
  /\ varData \in [Vars -> {CHOOSE x \in VarValues : TRUE}]
  /\ variableList = << >> /\ sendReceipt = 0 /\ network = {} /\ changedVariables = << >>
  /\ arrived = {} /\ varsRead = [v \in Vars |-> NotRead] /\ newestRead = [v \in Vars |-> 0]
  /\ setBack = {} /\ unflagged = {} /\ listFull \in BOOLEAN /\ overrun = FALSE

-----------------------------------------------------------------------------
\* WriteVar of the variable v.  After a write of another length it is the flag of
\* the variable after it that is cleared: after the last variable, that of a spare
\* element of the block or, when there is none, memory that is not the list's.
Node(x) == [lastData |-> x, isDirty |-> FALSE]
Same(node, x) == ~node.isDirty /\ node.lastData = x
WriteVar(list, v, x) ==
  IF v > Len(list) THEN Append(list, Node(x))
  ELSE IF list[v].lastData[1] # x[1]
    THEN [u \in DOMAIN list |-> CASE u = v -> [list[v] EXCEPT !.lastData = x]
                                  [] u = v + 1 -> [list[u] EXCEPT !.isDirty = FALSE]
                                  [] OTHER -> list[u]]
  ELSE [list EXCEPT ![v] = Node(x)]
WritesPast(list, v, x) == listFull /\ v = Len(list) /\ list[v].lastData[1] # x[1]
IsDifferent(list, v, x) == v > Len(list) \/ ~Same(list[v], x)

\* The bit of v in the bit field, whose bytes are set anew at their first bit.
\* Mutant of BitsWith: every bit sets its byte anew.
BitsAnew(bits, v, different) ==
  LET kept == bits \ (v - ((v - 1) % ByteBits) .. v + ByteBits - 1)
  IN  IF different THEN kept \union {v} ELSE kept
BitsWith(bits, v, different) ==
  LET kept == IF (v - 1) % ByteBits = 0 THEN bits \ (v .. v + ByteBits - 1) ELSE bits
  IN  IF different THEN kept \union {v} ELSE kept

\* SerializeVariable of v, and of the first variables in their order, from the bits
\* the pool left in the field.
SerializeVariable(s, v) ==
  LET different == IsDifferent(s.list, v, varData[v])
  IN  [list    |-> IF different THEN WriteVar(s.list, v, varData[v]) ELSE s.list,
       written |-> IF different THEN s.written \union {v} ELSE s.written,
       bits    |-> BitsWith(s.bits, v, different)]
Serialized(bits) ==
  LET after[v \in 0 .. NumVars] ==
        IF v = 0 THEN [list |-> variableList, written |-> {}, bits |-> bits]
        ELSE SerializeVariable(after[v - 1], v)
  IN  after[NumVars]

SetVariable(v, x) ==
  /\ x # varData[v] /\ varData' = [varData EXCEPT ![v] = x]
  /\ UNCHANGED <<variableList, sendReceipt, network, changedVariables, arrived, varsRead,
                 newestRead, setBack, unflagged, listFull, overrun>>

\* A tick in which something is written: the message goes out with the next receipt.
SerializeAndSend ==
  \E bits \in {{}, Vars} :
    LET s == Serialized(bits)
        cleared == {v \in DOMAIN variableList : variableList[v].isDirty /\ ~s.list[v].isDirty}
    IN  /\ s.written # {} /\ sendReceipt < MaxReceipts
        /\ variableList' = s.list
        /\ sendReceipt' = sendReceipt + 1
        /\ network' = network \union
             {[receipt |-> sendReceipt + 1, data |-> [v \in s.written |-> varData[v]]]}
        /\ changedVariables' = [r \in DOMAIN changedVariables \union {sendReceipt + 1} |->
             IF r = sendReceipt + 1 THEN s.bits ELSE changedVariables[r]]
        /\ unflagged' = (unflagged \union cleared) \ s.written
        /\ overrun' = (Len(variableList) = NumVars
                       /\ WritesPast(variableList, NumVars, varData[NumVars]))
        /\ UNCHANGED <<varData, arrived, varsRead, newestRead, setBack, listFull>>

\* DeserializeVariable for every variable: those not written stay as they are.
Deserialize(m) ==
  /\ network' = network \ {m}
  /\ arrived' = arrived \union ({m.receipt} \intersect DOMAIN changedVariables)
  /\ varsRead' = [v \in Vars |-> IF v \in DOMAIN m.data THEN m.data[v] ELSE varsRead[v]]
  /\ newestRead' = [v \in Vars |-> IF v \in DOMAIN m.data /\ m.receipt > newestRead[v]
                                     THEN m.receipt ELSE newestRead[v]]
  /\ setBack' = {v \in Vars : IF v \in DOMAIN m.data THEN m.receipt < newestRead[v]
                                                     ELSE v \in setBack}
  /\ UNCHANGED <<varData, variableList, sendReceipt, changedVariables, unflagged,
                 listFull, overrun>>

Lose(m) == /\ network' = network \ {m}
           /\ UNCHANGED <<varData, variableList, sendReceipt, changedVariables, arrived,
                          varsRead, newestRead, setBack, unflagged, listFull, overrun>>

\* OnMessageReceipt.  Only what has arrived is acknowledged; a loss flags the
\* variables of the message (FlagDirtyFromBitArray).
OnMessageReceipt(r, messageArrived) ==
  /\ messageArrived => r \in arrived
  /\ arrived' = arrived \ {r}
  /\ changedVariables' = [q \in DOMAIN changedVariables \ {r} |-> changedVariables[q]]
  /\ variableList' = IF messageArrived THEN variableList
                     ELSE [v \in DOMAIN variableList |->
                             [variableList[v] EXCEPT !.isDirty = @ \/ v \in changedVariables[r]]]
  /\ UNCHANGED <<varData, sendReceipt, network, varsRead, newestRead, setBack, unflagged,
                 listFull, overrun>>

DeltaStep ==
  \/ \E v \in Vars, x \in VarValues : SetVariable(v, x)
  \/ SerializeAndSend
  \/ \E m \in network : Deserialize(m) \/ Lose(m)
  \/ \E r \in DOMAIN changedVariables, ok \in BOOLEAN : OnMessageReceipt(r, ok)
DeltaNext == ~overrun /\ DeltaStep
DeltaSpec == DeltaInit /\ [][DeltaNext]_deltaVars

-----------------------------------------------------------------------------
\* What the receiver last read of a variable is what was last written of it, or
\* a receipt that has still to come, or the dirty flag, will have it written
\* again.  Two cases are left: a late message sets a variable back (the sequenced
\* form of the reliability is commented out, PacketPriority.h:71), and a flag is
\* lost to the write of another variable.  Nothing is said after the last variable
\* has changed its length in a list that fills its block.
NothingForgotten == ~overrun =>
  \A v \in DOMAIN variableList :
    \/ varsRead[v] = variableList[v].lastData
    \/ variableList[v].isDirty
    \/ \E r \in DOMAIN changedVariables \ arrived : v \in changedVariables[r]
    \/ v \in setBack \union unflagged

\* VariableListDeltaTracker.h:121: "Variables flagged dirty will cause WriteVar()
\* to return true", so that a flag goes only when its variable is written.
FlaggedAreWritten ==
  [][\A v \in DOMAIN variableList :
       variableList[v].isDirty /\ ~variableList'[v].isDirty =>
         \E m \in network' \ network : v \in DOMAIN m.data]_deltaVars
=============================================================================
