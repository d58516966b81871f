---------------------------- MODULE MemoryPool ----------------------------
(***************************************************************************)
(* DS_MemoryPool.h: pages of blocks in two rings, the pages with a free    *)
(* block and the pages without.  A page's stack of free blocks is its size *)
(* only; a page is the number of its allocation.                           *)
(***************************************************************************)
EXTENDS Integers, FiniteSets

CONSTANTS
  BlockCounts,             \* blocks a page may have, by memoryPoolPageSize
  MAX_FREE_PAGES,          \* DS_MEMORY_POOL_MAX_FREE_PAGES, 4 in the code
  MaxPoolPages             \* bound of the model

ASSUME MemoryPoolAssumption ==
  BlockCounts \subseteq Nat \ {0, 1} /\ MAX_FREE_PAGES \in Nat \ {0, 1} /\ MaxPoolPages \in Nat

VARIABLES
  page,              \* of every allocated page: its free blocks and its neighbours
  availablePages, unavailablePages, availablePagesSize, unavailablePagesSize,
  BlocksPerPage,     \* by the page size set last
  blocks, given,     \* of every page the blocks it has, and those the callers hold
  misused            \* the page size was set with pages there, or a page half made
memoryVars == <<page, availablePages, unavailablePages, availablePagesSize,
                unavailablePagesSize, BlocksPerPage, blocks, given, misused>>

NULL == 0
MemoryInit ==
  /\ page = << >> /\ availablePages = NULL /\ unavailablePages = NULL
  /\ availablePagesSize = 0 /\ unavailablePagesSize = 0 /\ BlocksPerPage \in BlockCounts
  /\ blocks = << >> /\ given = << >> /\ misused = FALSE

\* A page out of its ring, and a page at the end of the ring with the given head.
OutOfRing(pages, p) ==
  LET joined == [pages EXCEPT ![pages[p].next].prev = pages[p].prev]
  IN  [joined EXCEPT ![joined[p].prev].next = joined[p].next]
LinkedLast(pages, p, first, size) ==
  IF size = 0 THEN [pages EXCEPT ![p].next = p, ![p].prev = p]
  ELSE LET last == pages[first].prev
       IN  [pages EXCEPT ![p].next = first, ![p].prev = last, ![last].next = p, ![first].prev = p]

\* Allocate from the first available page; when that was its last block it goes
\* to the end of the other ring.
Allocate ==
  /\ availablePagesSize > 0
  /\ LET p == availablePages
         taken == [page EXCEPT ![p].availableStackSize = @ - 1]
     IN  /\ given' = [given EXCEPT ![p] = @ + 1]
         /\ IF taken[p].availableStackSize > 0
            THEN /\ page' = taken
                 /\ UNCHANGED <<availablePages, unavailablePages, availablePagesSize,
                                unavailablePagesSize>>
            ELSE /\ page' = LinkedLast(OutOfRing(taken, p), p, unavailablePages,
                                       unavailablePagesSize)
                 /\ availablePages' = page[p].next
                 /\ availablePagesSize' = availablePagesSize - 1
                 /\ unavailablePages' = IF unavailablePagesSize = 0 THEN p ELSE unavailablePages
                 /\ unavailablePagesSize' = unavailablePagesSize + 1
  /\ UNCHANGED <<BlocksPerPage, blocks, misused>>

\* ... from a new page, InitPage included.
AllocatePage ==
  /\ availablePagesSize = 0 /\ Cardinality(DOMAIN page) < MaxPoolPages
  /\ LET p == CHOOSE n \in 1 .. MaxPoolPages \ DOMAIN page : TRUE
         made == [availableStackSize |-> BlocksPerPage - 1, next |-> p, prev |-> p]
     IN  /\ page' = [n \in DOMAIN page \union {p} |-> IF n = p THEN made ELSE page[n]]
         /\ blocks' = [n \in DOMAIN page \union {p} |-> IF n = p THEN BlocksPerPage ELSE blocks[n]]
         /\ given' = [n \in DOMAIN page \union {p} |-> IF n = p THEN 1 ELSE given[n]]
         /\ availablePages' = p
  /\ availablePagesSize' = 1
  /\ UNCHANGED <<unavailablePages, unavailablePagesSize, BlocksPerPage, misused>>

\* InitPage runs out of memory: 0 is returned, the page counts as available.
InitPageFails ==
  /\ availablePagesSize = 0 /\ availablePagesSize' = 1 /\ misused' = TRUE
  /\ UNCHANGED <<page, availablePages, unavailablePages, unavailablePagesSize, BlocksPerPage,
                 blocks, given>>

\* The head of a ring that loses a page.  Mutant: the head stays.
HeadStays(first, p) == first
HeadWithout(first, p) == IF p = first THEN page[p].next ELSE first

Keeps(p) == [page EXCEPT ![p].availableStackSize = @ + 1]

\* Release of a block of a page without free ones: back to the available pages.
ReleaseToFull(p) ==
  /\ given[p] > 0 /\ page[p].availableStackSize = 0
  /\ unavailablePagesSize' = unavailablePagesSize - 1
  /\ unavailablePages' = IF unavailablePagesSize > 1 THEN HeadWithout(unavailablePages, p)
                         ELSE unavailablePages
  /\ page' = LinkedLast(OutOfRing(Keeps(p), p), p, availablePages, availablePagesSize)
  /\ availablePages' = IF availablePagesSize = 0 THEN p ELSE availablePages
  /\ availablePagesSize' = availablePagesSize + 1
  /\ given' = [given EXCEPT ![p] = @ - 1]
  /\ UNCHANGED <<BlocksPerPage, blocks, misused>>

\* ... of another page, which is freed when it is unused and there are enough.
ReleaseToOther(p) ==
  /\ given[p] > 0 /\ page[p].availableStackSize > 0
  /\ IF Keeps(p)[p].availableStackSize = BlocksPerPage /\ availablePagesSize >= MAX_FREE_PAGES
     THEN LET rest == DOMAIN page \ {p}
              left == OutOfRing(page, p)
          IN  /\ page' = [n \in rest |-> left[n]]
              /\ availablePages' = HeadWithout(availablePages, p)
              /\ availablePagesSize' = availablePagesSize - 1
              /\ blocks' = [n \in rest |-> blocks[n]] /\ given' = [n \in rest |-> given[n]]
     ELSE /\ page' = Keeps(p) /\ given' = [given EXCEPT ![p] = @ - 1]
          /\ UNCHANGED <<availablePages, availablePagesSize, blocks>>
  /\ UNCHANGED <<unavailablePages, unavailablePagesSize, BlocksPerPage, misused>>

MemoryClear ==
  /\ page # << >> /\ page' = << >> /\ blocks' = << >> /\ given' = << >>
  /\ availablePagesSize' = 0 /\ unavailablePagesSize' = 0
  /\ UNCHANGED <<availablePages, unavailablePages, BlocksPerPage, misused>>

SetPageSize(count) ==
  /\ BlocksPerPage' = count /\ misused' = (page # << >>)
  /\ UNCHANGED <<page, availablePages, unavailablePages, availablePagesSize,
                 unavailablePagesSize, blocks, given>>

MemoryNext ==
  /\ ~misused
  /\ \/ Allocate \/ AllocatePage \/ InitPageFails \/ MemoryClear
     \/ \E p \in DOMAIN page : ReleaseToFull(p) \/ ReleaseToOther(p)
     \/ \E count \in BlockCounts \ {BlocksPerPage} : SetPageSize(count)
MemorySpec == MemoryInit /\ [][MemoryNext]_memoryVars

-----------------------------------------------------------------------------
\* The pages of a ring are these, next and prev lead round them all.
IsRing(first, size, members) ==
  LET walk[k \in 0 .. size] == IF k = 0 THEN first ELSE page[walk[k - 1]].next
  IN  /\ size = Cardinality(members)
      /\ size > 0 => /\ first \in members
                     /\ walk[size] = first /\ {walk[k] : k \in 0 .. size} = members
                     /\ \A p \in members : page[page[p].next].prev = p

\* However blocks come and go: the rings hold exactly the pages with and without
\* a free block, a freed page has no block in a caller's hands, and no block is
\* both free and given.  (Not when InitPage fails, nor once the page size was
\* set with pages there.)
PoolAccounted ==
  ~misused => /\ IsRing(availablePages, availablePagesSize,
                        {p \in DOMAIN page : page[p].availableStackSize > 0})
              /\ IsRing(unavailablePages, unavailablePagesSize,
                        {p \in DOMAIN page : page[p].availableStackSize = 0})
              /\ \A p \in DOMAIN page : page[p].availableStackSize + given[p] = blocks[p]
=============================================================================
