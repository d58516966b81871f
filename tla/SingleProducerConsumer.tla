---------------------- MODULE SingleProducerConsumer ----------------------
(***************************************************************************)
(* SingleProducerConsumer.h: a circular list of pages between one writing  *)
(* thread and one reading thread, without a lock.  The writer locks pages  *)
(* ahead of the ones it has published, the reader locks pages ahead of the *)
(* ones it has given back, and either may cancel its locks.  A step is one *)
(* access to what both threads see, so that WriteLock, WriteUnlock and     *)
(* ReadUnlock take two.  A page's object is the number of its write; the   *)
(* accesses take effect in program order, which volatile asks of the       *)
(* compiler and an x86 processor keeps.                                    *)
(***************************************************************************)
EXTENDS Integers, FiniteSets

CONSTANTS
  MINIMUM_LIST_SIZE,  \* 8 in the code, where 3 is the least allowed
  MaxPages,           \* bound of the model: no page is allocated beyond it
  CountModulus        \* the counts wrap there: 2^32 in the code

ASSUME PagesAssumption ==
  /\ MINIMUM_LIST_SIZE \in Nat /\ MINIMUM_LIST_SIZE >= 3
  /\ MaxPages \in Nat /\ MaxPages >= MINIMUM_LIST_SIZE
  /\ CountModulus \in Nat /\ CountModulus > MaxPages

VARIABLES
  next,          \* from every allocated page to the page after it
  readyToRead,   \* the allocated pages with the flag
  object,        \* from every allocated page to the write it holds
  readAheadPointer, writeAheadPointer, readPointer, writePointer,
  readCount, writeCount,
  writer,        \* between its two steps: "idle", "look", "full", "publish"
  reader         \* likewise: "idle", "release"
pageVars == <<next, readyToRead, object, readAheadPointer, writeAheadPointer,
              readPointer, writePointer, readCount, writeCount, writer, reader>>

Pages == DOMAIN next

PagesInit ==
  /\ next = [p \in 0 .. MINIMUM_LIST_SIZE - 1 |-> (p + 1) % MINIMUM_LIST_SIZE]
  /\ object = [p \in 0 .. MINIMUM_LIST_SIZE - 1 |-> 0] /\ readyToRead = {}
  /\ readAheadPointer = 0 /\ writeAheadPointer = 0 /\ readPointer = 0 /\ writePointer = 0
  /\ readCount = 0 /\ writeCount = 0 /\ writer = "idle" /\ reader = "idle"

\* The page k pages after p, and how many pages q is after p.
After(p, k) == LET Step[i \in 0 .. k] == IF i = 0 THEN p ELSE next[Step[i - 1]] IN Step[k]
Between(p, q) == CHOOSE k \in 0 .. Cardinality(Pages) - 1 : After(p, k) = q

-----------------------------------------------------------------------------
\* The writer.  WriteLock: is the next page the one being read?  Mutant of
\* NextIsRead: the question is not asked, readyToRead alone stops the writer.
NextIsNeverRead == FALSE
NextIsRead == next[writeAheadPointer] = readPointer

WriteLockLook ==
  /\ writer = "idle" /\ writer' = IF NextIsRead THEN "full" ELSE "look"
  /\ UNCHANGED <<next, readyToRead, object, readAheadPointer, writeAheadPointer,
                 readPointer, writePointer, readCount, writeCount, reader>>

\* ... or one still to be read?  Then a page is put before it.
WriteLockTake ==
  /\ writer \in {"look", "full"} /\ writer' = "idle"
  /\ LET last  == writeAheadPointer
         value == (writeCount + Between(writePointer, last)) % CountModulus
     IN  IF writer = "full" \/ next[last] \in readyToRead
         THEN \E page \in 0 .. MaxPages - 1 \ Pages :
                /\ \A p \in 0 .. MaxPages - 1 \ Pages : page <= p
                /\ next' = [p \in Pages \union {page} |->
                              IF p = last THEN page ELSE IF p = page THEN next[last] ELSE next[p]]
                /\ object' = [p \in Pages \union {page} |->
                                IF p = last THEN value ELSE IF p = page THEN 0 ELSE object[p]]
                /\ writeAheadPointer' = page
         ELSE /\ writeAheadPointer' = next[last]
              /\ object' = [object EXCEPT ![last] = value]
              /\ UNCHANGED next
  /\ UNCHANGED <<readyToRead, readAheadPointer, readPointer, writePointer, readCount,
                 writeCount, reader>>

CancelWriteLock(page) ==
  /\ writer = "idle" /\ Between(writePointer, page) < Between(writePointer, writeAheadPointer)
  /\ writeAheadPointer' = page
  /\ UNCHANGED <<next, readyToRead, object, readAheadPointer, readPointer, writePointer,
                 readCount, writeCount, writer, reader>>

\* WriteUnlock of the first locked page: the flag, then the pointer.
WriteUnlock ==
  /\ writer = "idle" /\ writePointer # writeAheadPointer
  /\ writer' = "publish"
  /\ writeCount' = (writeCount + 1) % CountModulus
  /\ readyToRead' = readyToRead \union {writePointer}
  /\ UNCHANGED <<next, object, readAheadPointer, writeAheadPointer, readPointer,
                 writePointer, readCount, reader>>
WriteUnlockMove ==
  /\ writer = "publish" /\ writer' = "idle"
  /\ writePointer' = next[writePointer]
  /\ UNCHANGED <<next, readyToRead, object, readAheadPointer, writeAheadPointer,
                 readPointer, readCount, writeCount, reader>>

-----------------------------------------------------------------------------
\* The reader.  ReadLock returns 0 and changes nothing at the write pointer or
\* at a page that is not ready.
ReadLock ==
  /\ reader = "idle" /\ readAheadPointer # writePointer /\ readAheadPointer \in readyToRead
  /\ readAheadPointer' = next[readAheadPointer]
  /\ UNCHANGED <<next, readyToRead, object, writeAheadPointer, readPointer, writePointer,
                 readCount, writeCount, writer, reader>>

CancelReadLock(page) ==
  /\ reader = "idle" /\ Between(readPointer, page) < Between(readPointer, readAheadPointer)
  /\ readAheadPointer' = page
  /\ UNCHANGED <<next, readyToRead, object, writeAheadPointer, readPointer, writePointer,
                 readCount, writeCount, writer, reader>>

\* ReadUnlock of the first locked page: the flag, then the pointer.
ReadUnlock ==
  /\ reader = "idle" /\ readPointer # readAheadPointer
  /\ reader' = "release"
  /\ readCount' = (readCount + 1) % CountModulus
  /\ readyToRead' = readyToRead \ {readPointer}
  /\ UNCHANGED <<next, object, readAheadPointer, writeAheadPointer, readPointer,
                 writePointer, writeCount, writer>>
ReadUnlockMove ==
  /\ reader = "release" /\ reader' = "idle"
  /\ readPointer' = next[readPointer]
  /\ UNCHANGED <<next, readyToRead, object, readAheadPointer, writeAheadPointer,
                 writePointer, readCount, writeCount, writer>>

-----------------------------------------------------------------------------
\* Clear, while neither thread is in a call: the pages after the one being read
\* are deleted down to MINIMUM_LIST_SIZE; the flags of the kept pages stay.
PagesClear ==
  /\ writer = "idle" /\ reader = "idle" /\ <<readCount, writeCount>> # <<0, 0>>
  /\ LET excess == Cardinality(Pages) - MINIMUM_LIST_SIZE
         kept   == Pages \ {After(readPointer, k) : k \in 1 .. excess}
     IN  /\ next' = [p \in kept |-> IF p = readPointer THEN After(p, excess + 1) ELSE next[p]]
         /\ object' = [p \in kept |-> object[p]]
         /\ readyToRead' = readyToRead \intersect kept
  /\ readAheadPointer' = readPointer /\ writeAheadPointer' = readPointer
  /\ writePointer' = readPointer /\ readCount' = 0 /\ writeCount' = 0
  /\ UNCHANGED <<readPointer, writer, reader>>

PagesSize == (writeCount - readCount) % CountModulus

WriterStep == \/ WriteLockLook \/ WriteLockTake \/ WriteUnlock \/ WriteUnlockMove
              \/ \E page \in Pages : CancelWriteLock(page)
ReaderStep == \/ ReadLock \/ ReadUnlock \/ ReadUnlockMove
              \/ \E page \in Pages : CancelReadLock(page)
PagesNext == WriterStep \/ ReaderStep \/ PagesClear
PagesSpec == PagesInit /\ [][PagesNext]_pageVars

-----------------------------------------------------------------------------
\* However the two threads interleave, lock ahead and cancel, the reader gets
\* every write once and in order: from the first page not given back, PagesSize
\* pages hold the writes readCount, readCount + 1, ..., all flagged, none of
\* them overwritten by a write still to be published.
WritesArriveInOrder ==
  LET first == IF reader = "release" THEN next[readPointer] ELSE readPointer IN
  \A k \in 0 .. PagesSize - 1 :
    /\ After(first, k) \in readyToRead
    /\ object[After(first, k)] = (readCount + k) % CountModulus
=============================================================================
