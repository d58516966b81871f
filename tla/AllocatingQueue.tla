-------------------------- MODULE AllocatingQueue ---------------------------
(***************************************************************************)
(* DS_ThreadsafeAllocatingQueue.h: blocks of a memory pool that threads    *)
(* allocate, pass on in a queue and give back.  The queue and the pool     *)
(* each have a mutex.  PopInaccurate looks at the queue without it, while  *)
(* another thread may be in the middle of a push that, for a moment, makes *)
(* a full ring look empty.  (Module Queue has the ring; here the queue is  *)
(* the sequence it promises.)                                              *)
(***************************************************************************)
EXTENDS Integers, Sequences, SequencesExt

CONSTANTS Users,   \* the threads
          Blocks   \* the blocks of the memory pool

ASSUME AllocatingQueueAssumption == 0 \notin Blocks

NoBlock == 0

VARIABLES
  queue,       \* the blocks in the queue
  held,        \* the block each thread has, or NoBlock
  allocated,   \* the blocks the pool has given out
  call,        \* where each thread is: those in InMutex are inside queueMutex
  seen         \* the queue as such a thread has found it
allocatingVars == <<queue, held, allocated, call, seen>>

AllocatingInit ==
  /\ queue = << >> /\ held = [u \in Users |-> NoBlock] /\ allocated = {}
  /\ call = [u \in Users |-> "none"] /\ seen = [u \in Users |-> << >>]

InMutex == {"push", "pop", "remove"}
queueMutexHeld == \E u \in Users : call[u] \in InMutex
AtRest(u) == call[u] = "none" /\ held[u] = NoBlock

\* A call on the queue: under the mutex it reads the ring and then writes it.
QueueLock(u, name) == /\ ~queueMutexHeld
                      /\ call' = [call EXCEPT ![u] = name] /\ seen' = [seen EXCEPT ![u] = queue]
                      /\ UNCHANGED <<queue, held, allocated>>
QueueUnlock(u, q, block) == /\ queue' = q /\ held' = [held EXCEPT ![u] = block]
                            /\ call' = [call EXCEPT ![u] = "none"]
                            /\ seen' = [seen EXCEPT ![u] = << >>]
                            /\ UNCHANGED allocated

-----------------------------------------------------------------------------
\* Allocate and Deallocate, under memoryPoolMutex.
TakeBlock(u) ==
  /\ AtRest(u)
  /\ \E b \in Blocks \ allocated : /\ allocated' = allocated \union {b}
                                   /\ held' = [held EXCEPT ![u] = b]
  /\ UNCHANGED <<queue, call, seen>>
Deallocate(u) ==
  /\ call[u] = "none" /\ held[u] # NoBlock
  /\ allocated' = allocated \ {held[u]} /\ held' = [held EXCEPT ![u] = NoBlock]
  /\ UNCHANGED <<queue, call, seen>>

PushLock(u) == call[u] = "none" /\ held[u] # NoBlock /\ QueueLock(u, "push")
PushUnlock(u) == call[u] = "push" /\ QueueUnlock(u, Append(seen[u], held[u]), NoBlock)

\* PopInaccurate's look; one that finds nothing returns 0.
PopLook(u) == /\ AtRest(u)
              /\ queue # << >> \/ queueMutexHeld
              /\ call' = [call EXCEPT ![u] = "looked"]
              /\ UNCHANGED <<queue, held, allocated, seen>>
PopLock(u) == /\ AtRest(u) \/ call[u] = "looked"
              /\ QueueLock(u, "pop")

\* What a pop returns under the mutex.  Mutant: the look before it was enough; an
\* empty ring gives the block that was in its cell before.
PoppedUnasked(q) == IF q = << >> THEN CHOOSE b \in Blocks : TRUE ELSE Head(q)
Popped(q) == IF q = << >> THEN NoBlock ELSE Head(q)
PopUnlock(u) ==
  /\ call[u] = "pop"
  /\ QueueUnlock(u, IF seen[u] = << >> THEN << >> ELSE Tail(seen[u]), Popped(seen[u]))

\* RemoveAtIndex, which does nothing past the end, gives the block to nobody; only
\* Clear gets it back.
RemoveLock(u) == AtRest(u) /\ QueueLock(u, "remove")
RemoveUnlock(u) ==
  /\ call[u] = "remove"
  /\ \/ QueueUnlock(u, seen[u], NoBlock)
     \/ \E i \in DOMAIN seen[u] : QueueUnlock(u, RemoveAt(seen[u], i), NoBlock)

\* Clear goes through the queue under the pool's mutex and frees every block there is:
\* it is for a caller who is alone, as no thread has a block or is inside a call.
ClearAllocated ==
  /\ \A u \in Users : AtRest(u)
  /\ allocated # {} /\ queue' = << >> /\ allocated' = {}
  /\ UNCHANGED <<held, call, seen>>

AllocatingNext ==
  \/ \E u \in Users : \/ TakeBlock(u) \/ Deallocate(u) \/ PushLock(u) \/ PushUnlock(u)
                      \/ PopLook(u) \/ PopLock(u) \/ PopUnlock(u)
                      \/ RemoveLock(u) \/ RemoveUnlock(u)
  \/ ClearAllocated
AllocatingSpec == AllocatingInit /\ [][AllocatingNext]_allocatingVars

-----------------------------------------------------------------------------
\* However pushes, both kinds of pop, removals and the pool's calls interleave, a
\* block has one place: one thread has it, or it is once in the queue, or the pool
\* may give it out.  So nothing is popped twice, and nothing freed under its owner.
OnePlaceForABlock ==
  /\ \A u \in Users : held[u] # NoBlock =>
       /\ held[u] \in allocated /\ held[u] \notin ToSet(queue)
       /\ \A v \in Users \ {u} : held[v] # held[u]
  /\ ToSet(queue) \subseteq allocated
  /\ \A i, j \in DOMAIN queue : queue[i] = queue[j] => i = j
=============================================================================
