----------------------------- MODULE SmartPtr -----------------------------
(***************************************************************************)
(* RakNetSmartPtr.h: pointers that share a counter and what they point to. *)
(* The counter is not atomic: the pointers belong to one thread.           *)
(***************************************************************************)
EXTENDS Integers, FiniteSets

CONSTANTS Pointers,
          Targets  \* what a pointer may point to; each has its own counter

ASSUME SmartPtrAssumption == IsFiniteSet(Pointers) /\ 0 \notin Targets

VARIABLES ptr,       \* of every pointer what it points to, Nothing for 0
          refCount,  \* of every target alive its counter
          deleted    \* a counter was used after its target was deleted
pointerVars == <<ptr, refCount, deleted>>

Nothing == 0
PointersInit == /\ ptr = [p \in Pointers |-> Nothing] /\ refCount = << >> /\ deleted = FALSE

\* The counters after the pointer has let go of its target, and after one more
\* holds the target t.  Mutant of Held: an assignment does not count.
Released(p) ==
  LET t == ptr[p]
  IN  IF t = Nothing THEN refCount
      ELSE IF refCount[t] = 1 THEN [u \in DOMAIN refCount \ {t} |-> refCount[u]]
      ELSE [refCount EXCEPT ![t] = @ - 1]
HeldUncounted(counts, t) == counts
Held(counts, t) == IF t \in DOMAIN counts THEN [counts EXCEPT ![t] = @ + 1] ELSE counts

Uses(p) == deleted' = (deleted \/ ptr[p] \notin DOMAIN refCount \union {Nothing})
Created(counts, t) == [u \in DOMAIN counts \union {t} |-> IF u = t THEN 1 ELSE counts[u]]

\* RakNetSmartPtr(T*), assigned.
PointTo(p, t) ==
  /\ t \notin DOMAIN refCount /\ Uses(p)
  /\ ptr[p] \in DOMAIN refCount \union {Nothing}
  /\ ptr' = [ptr EXCEPT ![p] = t] /\ refCount' = Created(Released(p), t)

\* operator=, and the copy constructor when p is null.
Assign(p, q) ==
  /\ p # q /\ Uses(p) /\ ptr[p] \in DOMAIN refCount \union {Nothing}
  /\ ptr' = [ptr EXCEPT ![p] = ptr[q]]
  /\ refCount' = Held(Released(p), ptr[q])

\* SetNull, and the destructor.
SetNull(p) == /\ ptr[p] # Nothing /\ Uses(p) /\ ptr' = [ptr EXCEPT ![p] = Nothing]
              /\ refCount' = IF ptr[p] \in DOMAIN refCount THEN Released(p) ELSE refCount

\* Clone of a pointer that shares: a target of its own.
Clone(p, t) ==
  /\ ptr[p] \in DOMAIN refCount /\ refCount[ptr[p]] # 1 /\ t \notin DOMAIN refCount
  /\ ptr' = [ptr EXCEPT ![p] = t] /\ refCount' = Created([refCount EXCEPT ![ptr[p]] = @ - 1], t)
  /\ UNCHANGED deleted

PointersNext == \E p \in Pointers : \/ \E t \in Targets : PointTo(p, t) \/ Clone(p, t)
                                    \/ \E q \in Pointers : Assign(p, q)
                                    \/ SetNull(p)
PointersSpec == PointersInit /\ [][PointersNext]_pointerVars

-----------------------------------------------------------------------------
\* A target lives exactly as long as a pointer points to it, and its counter is
\* the number of pointers that do: nothing is deleted under a pointer or kept
\* without one, whatever is assigned, cloned and set to null.
CountsPointers ==
  /\ ~deleted
  /\ DOMAIN refCount = {ptr[p] : p \in Pointers} \ {Nothing}
  /\ \A t \in DOMAIN refCount : refCount[t] = Cardinality({p \in Pointers : ptr[p] = t})
=============================================================================
