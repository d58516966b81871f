---------------------------- MODULE ThreadProofs ----------------------------
(***************************************************************************)
(* Proofs about what threads share: ThreadPool, SmartPtr, AllocatingQueue  *)
(* and SingleProducerConsumer.                                             *)
(*                                                                         *)
(* ThreadPool, for any number of threads and inputs: what IsWorking and    *)
(* Pause tell the owner.  Both rest on what the two counters count:        *)
(* numThreadsRunning is always the number of the workers in their loop.    *)
(* numThreadsWorking is that of the workers between CountIn and CountOut,  *)
(* but StartThreads sets it to 0 without looking: that is right only if    *)
(* the workers of an earlier start are gone, which needs that StopThreads  *)
(* waited for all of them, which needs that none was created and not yet   *)
(* counted when StartThreads returned.  A start that failed breaks the     *)
(* chain.                                                                  *)
(*                                                                         *)
(* SmartPtr, for any number of pointers and targets: counters count.       *)
(* Everything is said with the number of holders of a target, of which one *)
(* pointer that moves changes two by one.                                  *)
(*                                                                         *)
(* AllocatingQueue, for any number of threads and blocks: a block has one  *)
(* place.  What a thread has read of the queue inside the mutex must still *)
(* be so when it writes.                                                   *)
(*                                                                         *)
(* SingleProducerConsumer, for lists of any size and counts of any width:  *)
(* the reader gets the writes in order.  The pages are numbered from the   *)
(* one being read; the pointers follow one another in these numbers, a     *)
(* page's number tells which write it holds, and each step moves some      *)
(* number by one or renumbers the ring.                                    *)
(***************************************************************************)
EXTENDS ThreadPool, SmartPtr, AllocatingQueue, SingleProducerConsumer, Induction,
        SequenceTheorems

InLoop  == {"turn", "count", "take", "call", "put", "countOut", "leave"}
AtWork  == {"take", "call", "put", "countOut"}
Stages  == InLoop \union {"none", "born"}
Callers == {"idle", "creating", "stopping", "clearing", "output", "input", "threads", "pausing"}

At(stages) == {w \in Workers : stage[w] \in stages}

FlagsOK == /\ runThreads \in BOOLEAN /\ countMutexHeld \in BOOLEAN
           /\ quiet \in BOOLEAN /\ startFailed \in BOOLEAN
PoolTypeOK ==
  /\ FlagsOK
  /\ numThreadsRunning \in Int /\ numThreadsWorking \in Int /\ created \in Nat
  /\ inputs \in Nat /\ outputs \in Nat
  /\ stage \in [Workers -> Stages] /\ caller \in Callers

RunningCounted == numThreadsRunning = Cardinality(At(InLoop))
WorkingCounted == numThreadsWorking = Cardinality(At(AtWork))

\* While StartThreads runs, the workers there are are those it created, and none leaves.
AllCreated == caller = "creating" => /\ runThreads /\ At({"leave"}) = {}
                                     /\ created = Cardinality(At(Stages \ {"none"}))
NoneBorn   == caller # "creating" => At({"born"}) = {}
StoppedAll == ~runThreads /\ caller # "stopping" => At(InLoop) = {}

Counted == WorkingCounted /\ AllCreated /\ NoneBorn /\ StoppedAll
PausedNoneWorks == countMutexHeld /\ caller # "pausing" => At(AtWork) = {}
NoInputAsked == caller = "threads" => inputs = 0
QuietIsDone == quiet => inputs = 0 /\ At({"call", "put"}) = {}

PoolInv == /\ PoolTypeOK /\ RunningCounted /\ NoInputAsked
           /\ ~startFailed => Counted /\ PausedNoneWorks /\ QuietIsDone

-----------------------------------------------------------------------------
\* The number of workers at some stages when one of them goes from one to another.
LEMMA AtFinite ==
  ASSUME NEW S
  PROVE  IsFiniteSet(At(S)) /\ Cardinality(At(S)) \in Nat
BY PoolAssumption, FS_Subset, FS_CardinalityType DEF At

LEMMA AtEmpty ==
  ASSUME NEW S
  PROVE  Cardinality(At(S)) = 0 <=> At(S) = {}
BY AtFinite, FS_EmptySet

LEMMA GoesCounts ==
  ASSUME PoolTypeOK, NEW w \in Workers, NEW from, NEW to, Goes(w, from, to), NEW S
  PROVE  /\ At(S)' = IF to \in S THEN At(S) \union {w} ELSE At(S) \ {w}
         /\ w \in At(S) <=> from \in S
         /\ from \in S <=> to \in S => Cardinality(At(S)') = Cardinality(At(S))
         /\ from \notin S /\ to \in S => Cardinality(At(S)') = Cardinality(At(S)) + 1
         /\ from \in S /\ to \notin S => Cardinality(At(S)') = Cardinality(At(S)) - 1
<1>1. w \in At(S) <=> from \in S
  BY DEF At, Goes
<1>2. At(S)' = IF to \in S THEN At(S) \union {w} ELSE At(S) \ {w}
  BY DEF At, Goes, PoolTypeOK
<1>3. IsFiniteSet(At(S)) /\ Cardinality(At(S)) \in Nat
  BY AtFinite
<1>4. (from \in S <=> to \in S) => At(S)' = At(S)
  BY <1>1, <1>2
<1>5. from \notin S /\ to \in S => Cardinality(At(S)') = Cardinality(At(S)) + 1
  BY <1>1, <1>2, <1>3, FS_AddElement, SMTT(30)
<1>6. from \in S /\ to \notin S => Cardinality(At(S)') = Cardinality(At(S)) - 1
  BY <1>1, <1>2, <1>3, FS_RemoveElement
<1> QED BY <1>1, <1>2, <1>4, <1>5, <1>6

-----------------------------------------------------------------------------
\* A step of a worker from one stage to another keeps the invariant if the counters
\* follow it, it leaves the loop only when it is told to, begins to work only when the
\* mutex is free, and begins a callback only with an input.
Change(S, from, to) == (IF to \in S THEN 1 ELSE 0) - (IF from \in S THEN 1 ELSE 0)

LEMMA GoesKeeps ==
  ASSUME PoolInv, NEW w \in Workers, NEW from \in Stages \ {"none"}, NEW to \in Stages \ {"born"},
         Goes(w, from, to), OwnerKeeps,
         numThreadsRunning' = numThreadsRunning + Change(InLoop, from, to),
         numThreadsWorking' = numThreadsWorking + Change(AtWork, from, to),
         inputs' \in Nat, outputs' \in Nat, inputs = 0 => inputs' = 0,
         to = "leave" => ~runThreads,
         to = "none" => from = "leave",
         to \in AtWork /\ from \notin AtWork => ~countMutexHeld,
         to = "call" => inputs > 0, to = "put" => from = "call"
  PROVE  PoolInv'
<1>1. PoolTypeOK /\ PoolTypeOK'
  BY DEF PoolInv, PoolTypeOK, FlagsOK, Goes, OwnerKeeps, Change
<1>2. RunningCounted'
  BY <1>1, GoesCounts, AtFinite DEF PoolInv, RunningCounted, Change
<1>3. NoInputAsked'
  BY DEF PoolInv, NoInputAsked, OwnerKeeps
<1>4. ASSUME ~startFailed
      PROVE  (Counted /\ PausedNoneWorks /\ QuietIsDone)'
  <2>0. Counted /\ PausedNoneWorks /\ QuietIsDone
    BY <1>4 DEF PoolInv
  <2>1. WorkingCounted'
    BY <1>1, <2>0, GoesCounts, AtFinite DEF Counted, WorkingCounted, Change
  <2>2. AllCreated'
    <3>1. SUFFICES ASSUME caller = "creating"
                   PROVE  /\ runThreads /\ At({"leave"})' = {}
                          /\ created = Cardinality(At(Stages \ {"none"})')
      BY DEF AllCreated, OwnerKeeps
    <3>2. runThreads /\ At({"leave"}) = {} /\ created = Cardinality(At(Stages \ {"none"}))
      BY <2>0, <3>1 DEF Counted, AllCreated
    <3>3. from # "leave" /\ to # "leave" /\ to # "none"
      BY <3>2 DEF At, Goes
    <3>4. At({"leave"})' = {}
      BY <1>1, <3>2, <3>3, GoesCounts
    <3>5. Cardinality(At(Stages \ {"none"})') = Cardinality(At(Stages \ {"none"}))
      BY <1>1, <3>3, GoesCounts
    <3> QED BY <3>2, <3>4, <3>5
  <2>3. NoneBorn'
    BY <1>1, <2>0, GoesCounts DEF Counted, NoneBorn, OwnerKeeps
  <2>4. StoppedAll'
    <3>1. SUFFICES ASSUME ~runThreads, caller # "stopping" PROVE At(InLoop)' = {}
      BY DEF StoppedAll, OwnerKeeps
    <3>2. At(InLoop) = {} /\ At({"born"}) = {}
      BY <2>0, <3>1 DEF Counted, StoppedAll, NoneBorn, AllCreated
    <3>3. FALSE
      BY <3>2 DEF At, Goes, Stages
    <3> QED BY <3>3
  <2>5. PausedNoneWorks'
    BY <1>1, <2>0, GoesCounts DEF PausedNoneWorks, OwnerKeeps
  <2>6. QuietIsDone'
    BY <1>1, <2>0, GoesCounts DEF QuietIsDone, OwnerKeeps, At, Goes
  <2> QED BY <2>1, <2>2, <2>3, <2>4, <2>5, <2>6 DEF Counted
<1>5. startFailed' = startFailed
  BY DEF OwnerKeeps
<1> QED BY <1>1, <1>2, <1>3, <1>4, <1>5 DEF PoolInv

LEMMA WorkerKeeps ==
  ASSUME PoolInv, NEW w \in Workers, WorkerStep(w)
  PROVE  PoolInv'
<1> USE DEF Stages, InLoop, AtWork
<1>0. PoolTypeOK /\ NoInputAsked
  BY DEF PoolInv
<1>1. CASE Begin(w)
  BY <1>0, <1>1, GoesKeeps DEF Begin, Change, PoolTypeOK
<1>2. CASE WorkerTurn(w)
  <2>1. CASE runThreads
    BY <1>0, <1>2, <2>1, GoesKeeps DEF WorkerTurn, Change, PoolTypeOK
  <2>2. CASE ~runThreads
    BY <1>0, <1>2, <2>2, GoesKeeps DEF WorkerTurn, Change, PoolTypeOK
  <2> QED BY <2>1, <2>2
<1>3. CASE CountIn(w)
  BY <1>0, <1>3, GoesKeeps DEF CountIn, Change, PoolTypeOK
<1>4. CASE Take(w)
  <2>1. CASE inputs > 0
    BY <1>0, <1>4, <2>1, GoesKeeps DEF Take, Change, PoolTypeOK
  <2>2. CASE inputs = 0
    BY <1>0, <1>4, <2>2, GoesKeeps DEF Take, Change, PoolTypeOK
  <2> QED BY <1>0, <2>1, <2>2 DEF PoolTypeOK
<1>5. CASE CallBack(w)
  BY <1>0, <1>5, GoesKeeps DEF CallBack, Change, PoolTypeOK
<1>6. CASE PutOutput(w)
  BY <1>0, <1>6, GoesKeeps DEF PutOutput, Change, PoolTypeOK
<1>7. CASE CountOut(w)
  BY <1>0, <1>7, GoesKeeps DEF CountOut, Change, PoolTypeOK
<1>8. CASE LeaveLoop(w)
  BY <1>0, <1>8, GoesKeeps DEF LeaveLoop, Change, PoolTypeOK, OneLess, FlagsOK
<1> QED BY <1>1, <1>2, <1>3, <1>4, <1>5, <1>6, <1>7, <1>8 DEF WorkerStep

-----------------------------------------------------------------------------
\* The counters in a call that leaves the workers and their number alone.
Elsewhere == Callers \ {"creating", "stopping"}

LEMMA CallKeeps ==
  ASSUME PoolInv, PoolKeeps, caller \in Elsewhere, caller' \in Elsewhere
  PROVE  /\ RunningCounted' /\ startFailed' = startFailed
         /\ \A S : At(S)' = At(S)
         /\ ~startFailed => Counted'
<1>1. \A S : At(S)' = At(S)
  BY DEF At, PoolKeeps
<1>2. RunningCounted' /\ startFailed' = startFailed
  BY <1>1 DEF PoolInv, RunningCounted, PoolKeeps
<1>3. ASSUME ~startFailed PROVE Counted'
  <2>1. Counted
    BY <1>3 DEF PoolInv
  <2> QED BY <1>1, <2>1 DEF Counted, WorkingCounted, AllCreated, NoneBorn, StoppedAll,
                            PoolKeeps, Elsewhere
<1> QED BY <1>1, <1>2, <1>3

LEMMA OwnerKeepsInv ==
  ASSUME PoolInv, OwnerStep
  PROVE  PoolInv'
<1>0. PoolTypeOK /\ RunningCounted /\ NoInputAsked
  BY DEF PoolInv
<1>1. CASE StartThreads
  <2>1. PoolTypeOK' /\ NoInputAsked'
    BY <1>0, <1>1 DEF StartThreads, Calls, PoolTypeOK, FlagsOK, NoInputAsked, Callers
  <2>2. \A S : At(S)' = At(S)
    BY <1>1 DEF StartThreads, At
  <2>3. RunningCounted'
    BY <1>0, <1>1, <2>2 DEF StartThreads, RunningCounted
  <2>4. ASSUME ~startFailed PROVE (Counted /\ PausedNoneWorks /\ QuietIsDone)'
    <3>1. Counted /\ PausedNoneWorks /\ QuietIsDone
      BY <2>4 DEF PoolInv
    <3>2. At(InLoop) = {} /\ At({"born"}) = {}
      BY <1>1, <3>1 DEF Counted, StoppedAll, NoneBorn, StartThreads, Calls
    <3>3. At(AtWork) = {} /\ At({"leave"}) = {} /\ At(Stages \ {"none"}) = {}
      BY <3>2 DEF At, InLoop, AtWork, Stages
    <3>4. Cardinality({}) = 0
      BY FS_EmptySet
    <3>5. Counted'
      BY <1>1, <2>2, <3>3, <3>4
      DEF Counted, WorkingCounted, AllCreated, NoneBorn, StoppedAll, StartThreads, Calls
    <3> QED BY <1>1, <2>2, <3>1, <3>5 DEF PausedNoneWorks, QuietIsDone, StartThreads, Calls
  <2> QED BY <1>1, <2>1, <2>3, <2>4 DEF PoolInv, StartThreads
<1>2. CASE Create
  <2>1. PICK w \in Workers : Goes(w, "none", "born")
    BY <1>2 DEF Create
  <2>2. PoolTypeOK' /\ NoInputAsked'
    BY <1>0, <1>2, <2>1 DEF Create, Calls, Goes, PoolTypeOK, FlagsOK, NoInputAsked, Stages
  <2>3. RunningCounted'
    BY <1>0, <1>2, <2>1, GoesCounts DEF Create, RunningCounted, InLoop
  <2>4. ASSUME ~startFailed PROVE (Counted /\ PausedNoneWorks /\ QuietIsDone)'
    <3>1. Counted /\ PausedNoneWorks /\ QuietIsDone
      BY <2>4 DEF PoolInv
    <3>2. /\ At(AtWork)' = At(AtWork) /\ At({"leave"})' = At({"leave"})
          /\ At({"call", "put"})' = At({"call", "put"})
      BY <1>0, <2>1 DEF At, Goes, AtWork, PoolTypeOK
    <3>3. Cardinality(At(Stages \ {"none"})') = Cardinality(At(Stages \ {"none"})) + 1
      BY <1>0, <2>1, GoesCounts DEF Stages
    <3>4. Counted'
      BY <1>2, <3>1, <3>2, <3>3
      DEF Counted, WorkingCounted, AllCreated, NoneBorn, StoppedAll, Create, Calls
    <3> QED BY <1>2, <3>1, <3>2, <3>4 DEF PausedNoneWorks, QuietIsDone, Create, Calls
  <2> QED BY <1>2, <2>2, <2>3, <2>4 DEF PoolInv, Create
<1>3. CASE CreateFails
  <2>1. PoolTypeOK' /\ NoInputAsked' /\ startFailed'
    BY <1>0, <1>3 DEF CreateFails, Calls, PoolTypeOK, FlagsOK, NoInputAsked, Callers
  <2>2. RunningCounted'
    BY <1>0, <1>3 DEF CreateFails, RunningCounted, At
  <2> QED BY <2>1, <2>2 DEF PoolInv
<1>4. CASE StartReturns
  <2>1. PoolTypeOK' /\ NoInputAsked'
    BY <1>0, <1>4 DEF StartReturns, Calls, PoolTypeOK, FlagsOK, NoInputAsked, Callers
  <2>2. \A S : At(S)' = At(S)
    BY <1>4 DEF StartReturns, At
  <2>3. RunningCounted'
    BY <1>0, <1>4, <2>2 DEF StartReturns, RunningCounted
  <2>4. ASSUME ~startFailed PROVE (Counted /\ PausedNoneWorks /\ QuietIsDone)'
    <3>1. Counted /\ PausedNoneWorks /\ QuietIsDone
      BY <2>4 DEF PoolInv
    <3>2. runThreads /\ Cardinality(At(InLoop)) = Cardinality(At(Stages \ {"none"}))
      BY <1>0, <1>4, <3>1 DEF StartReturns, Calls, Counted, AllCreated, RunningCounted
    <3>3. At(InLoop) \subseteq At(Stages \ {"none"})
      BY DEF At, Stages, InLoop
    <3>4. At(InLoop) = At(Stages \ {"none"})
      BY <3>2, <3>3, AtFinite, FS_Subset
    <3>5. At({"born"}) = {}
      BY <3>4 DEF At, Stages, InLoop
    <3>6. Counted'
      BY <1>4, <2>2, <3>1, <3>2, <3>5
      DEF Counted, WorkingCounted, AllCreated, NoneBorn, StoppedAll, StartReturns, Calls
    <3> QED BY <1>4, <2>2, <3>1, <3>6 DEF PausedNoneWorks, QuietIsDone, StartReturns, Calls
  <2> QED BY <1>4, <2>1, <2>3, <2>4 DEF PoolInv, StartReturns
<1>5. CASE StopThreads
  <2>1. PoolTypeOK' /\ NoInputAsked'
    BY <1>0, <1>5 DEF StopThreads, Calls, PoolTypeOK, FlagsOK, NoInputAsked, Callers
  <2>2. \A S : At(S)' = At(S)
    BY <1>5 DEF StopThreads, At
  <2> QED BY <1>0, <1>5, <2>1, <2>2
          DEF PoolInv, StopThreads, Calls, RunningCounted, Counted, WorkingCounted, AllCreated,
              NoneBorn, StoppedAll, PausedNoneWorks, QuietIsDone
<1>6. CASE StopReturns
  <2>1. PoolTypeOK' /\ NoInputAsked'
    BY <1>0, <1>6 DEF StopReturns, Calls, PoolTypeOK, FlagsOK, NoInputAsked, Callers
  <2>2. \A S : At(S)' = At(S)
    BY <1>6 DEF StopReturns, At
  <2>3. At(InLoop) = {}
    BY <1>0, <1>6, AtEmpty DEF StopReturns, RunningCounted
  <2> QED BY <1>0, <1>6, <2>1, <2>2, <2>3
          DEF PoolInv, StopReturns, Calls, RunningCounted, Counted, WorkingCounted, AllCreated,
              NoneBorn, StoppedAll, PausedNoneWorks, QuietIsDone
<1>7. CASE AddInput \/ AddOutput \/ GetOutput \/ RemoveInputAtIndex \/ PoolClear \/ Resume
  <2>1. PoolTypeOK' /\ NoInputAsked'
    <3>1. inputs' \in Nat /\ outputs' \in Nat
      BY <1>0, <1>7
      DEF AddInput, AddOutput, GetOutput, RemoveInputAtIndex, PoolClear, Resume, PoolTypeOK
    <3>2. caller' \in {"idle", "clearing"} /\ PoolKeeps
      BY <1>7
      DEF AddInput, AddOutput, GetOutput, RemoveInputAtIndex, PoolClear, Resume, Calls
    <3>3. FlagsOK'
      BY <1>0, <1>7, Zenon
      DEF AddInput, AddOutput, GetOutput, RemoveInputAtIndex, PoolClear, Resume, PoolKeeps,
          PoolTypeOK, FlagsOK
    <3> QED BY <1>0, <3>1, <3>2, <3>3 DEF PoolTypeOK, PoolKeeps, NoInputAsked, Callers
  <2>2. PoolKeeps /\ caller \in Elsewhere /\ caller' \in Elsewhere
    BY <1>7
    DEF AddInput, AddOutput, GetOutput, RemoveInputAtIndex, PoolClear, Resume, Calls, Elsewhere, Callers
  <2>3. ASSUME ~startFailed PROVE (PausedNoneWorks /\ QuietIsDone)'
    <3>1. PausedNoneWorks /\ QuietIsDone
      BY <2>3 DEF PoolInv
    <3>2. \A S : At(S)' = At(S)
      BY <2>2, CallKeeps
    <3> QED BY <1>0, <1>7, <3>1, <3>2
            DEF AddInput, AddOutput, GetOutput, RemoveInputAtIndex, PoolClear, Resume, Calls,
                PausedNoneWorks, QuietIsDone, PoolTypeOK
  <2> QED BY <2>1, <2>2, <2>3, CallKeeps DEF PoolInv
<1>8. CASE IsWorking
  <2>1. PoolKeeps /\ caller \in Elsewhere /\ caller' \in Elsewhere
        /\ inputs' = inputs /\ outputs' = outputs /\ countMutexHeld' = countMutexHeld
    BY <1>8 DEF IsWorking, Calls, Questions, Elsewhere, Callers
  <2>2. quiet' \in BOOLEAN
    BY <1>0, <1>8 DEF IsWorking, PoolTypeOK, FlagsOK
  <2>3. PoolTypeOK'
    BY <1>0, <2>1, <2>2 DEF PoolTypeOK, FlagsOK, PoolKeeps, Elsewhere
  <2>6. /\ caller' = "threads" => ~(inputs > 0)
        /\ quiet' => quiet \/ (caller = "threads" /\ ~(numThreadsWorking # 0))
    <3>1. CASE Calls("idle", Questions[1]) /\ quiet' = quiet
      BY <3>1 DEF Calls, Questions
    <3>2. ASSUME NEW k \in 1 .. 3, NEW answer \in BOOLEAN, Answers(Questions[k], answer),
                 Calls(Questions[k], IF answer \/ k = 3 THEN "idle" ELSE Questions[k + 1]),
                 quiet' = IF answer \/ k = 3 THEN ~answer ELSE quiet
          PROVE  /\ caller' = "threads" => ~(inputs > 0)
                 /\ quiet' => quiet \/ (caller = "threads" /\ ~(numThreadsWorking # 0))
      <4>1. CASE k = 1
        <5>1. caller' # "threads" /\ (quiet' => quiet)
          <6>1. caller' \in {"idle", "input"}
            BY <3>2, <4>1 DEF Calls, Questions
          <6>2. k # 3
            BY <4>1
          <6>3. CASE answer
            BY <3>2, <6>3, <6>1, Zenon
          <6>4. CASE ~answer
            BY <3>2, <6>2, <6>4, <6>1, Zenon
          <6> QED BY <6>3, <6>4
        <5> QED BY <5>1
      <4>2. CASE k = 2
        <5>1. answer = (inputs > 0)
          BY <3>2, <4>2 DEF Answers, Questions
        <5>2. answer => caller' = "idle"
          BY <3>2, <4>2 DEF Calls
        <5>3. quiet' => quiet
          <6>1. k # 3
            BY <4>2
          <6>2. CASE answer
            BY <3>2, <6>2, Zenon
          <6>3. CASE ~answer
            BY <3>2, <6>1, <6>3, Zenon
          <6> QED BY <6>2, <6>3
        <5> QED BY <5>1, <5>2, <5>3
      <4>3. CASE k = 3
        <5>1. answer = (numThreadsWorking # 0) /\ caller = "threads" /\ caller' = "idle"
          BY <3>2, <4>3 DEF Answers, Questions, Calls
        <5> QED BY <3>2, <4>3, <5>1
      <4> QED BY <4>1, <4>2, <4>3
    <3> QED BY <1>8, <3>1, <3>2, Zenon DEF IsWorking
  <2>4. NoInputAsked'
    BY <1>0, <2>1, <2>6 DEF NoInputAsked, PoolTypeOK
  <2>5. ASSUME ~startFailed PROVE (PausedNoneWorks /\ QuietIsDone)'
    <3>1. Counted /\ PausedNoneWorks /\ QuietIsDone
      BY <2>5 DEF PoolInv
    <3>2. \A S : At(S)' = At(S)
      BY <2>1, CallKeeps
    <3>3. PausedNoneWorks'
      <4>1. caller # "pausing"
        BY <1>8 DEF IsWorking, Calls, Questions
      <4> QED BY <2>1, <3>1, <3>2, <4>1 DEF PausedNoneWorks
    <3>4. quiet' => quiet \/ (caller = "threads" /\ numThreadsWorking = 0)
      BY <2>6
    <3>5. ASSUME caller = "threads", numThreadsWorking = 0
          PROVE  inputs = 0 /\ At({"call", "put"}) = {}
      <4>1. At(AtWork) = {}
        BY <3>1, <3>5, AtEmpty DEF Counted, WorkingCounted
      <4> QED BY <1>0, <3>5, <4>1 DEF NoInputAsked, At, AtWork
    <3>6. QuietIsDone'
      BY <2>1, <3>1, <3>2, <3>4, <3>5 DEF QuietIsDone
    <3> QED BY <3>3, <3>6
  <2> QED BY <2>1, <2>3, <2>4, <2>5, CallKeeps DEF PoolInv
<1>9. CASE Pause
  <2>1. PoolKeeps /\ caller \in Elsewhere /\ caller' \in Elsewhere
        /\ inputs' = inputs /\ outputs' = outputs /\ quiet' = quiet
    BY <1>9 DEF Pause, Calls, Elsewhere, Callers
  <2>2. PoolTypeOK' /\ NoInputAsked'
    BY <1>0, <1>9, <2>1 DEF Pause, Calls, PoolTypeOK, FlagsOK, PoolKeeps, NoInputAsked, Elsewhere
  <2>3. ASSUME ~startFailed PROVE (PausedNoneWorks /\ QuietIsDone)'
    <3>1. Counted /\ PausedNoneWorks /\ QuietIsDone
      BY <2>3 DEF PoolInv
    <3>2. \A S : At(S)' = At(S)
      BY <2>1, CallKeeps
    <3>3. ASSUME NoneWorks PROVE At(AtWork) = {}
      BY <3>1, <3>3, AtEmpty, AtFinite DEF Counted, WorkingCounted, NoneWorks
    <3> QED BY <1>9, <2>1, <3>1, <3>2, <3>3 DEF Pause, Calls, PausedNoneWorks, QuietIsDone
  <2> QED BY <2>1, <2>2, <2>3, CallKeeps DEF PoolInv
<1> QED BY <1>1, <1>2, <1>3, <1>4, <1>5, <1>6, <1>7, <1>8, <1>9 DEF OwnerStep

-----------------------------------------------------------------------------
LEMMA PoolStarts == PoolInit => PoolInv
<1> SUFFICES ASSUME PoolInit PROVE PoolInv
  OBVIOUS
<1>1. PoolTypeOK /\ NoInputAsked
  <2>1. stage \in [Workers -> Stages] /\ caller \in Callers /\ NoInputAsked
    BY DEF PoolInit, NoInputAsked, Stages, Callers
  <2>2. FlagsOK
    BY Zenon DEF PoolInit, FlagsOK
  <2> QED BY <2>1, <2>2 DEF PoolInit, PoolTypeOK
<1>2. ASSUME NEW S, "none" \notin S PROVE At(S) = {}
  BY <1>2 DEF PoolInit, At
<1>3. /\ At(InLoop) = {} /\ At(AtWork) = {} /\ At({"leave"}) = {} /\ At({"born"}) = {}
      /\ At({"call", "put"}) = {}
  BY <1>2 DEF InLoop, AtWork
<1>4. Cardinality({}) = 0
  BY FS_EmptySet
<1> QED BY <1>1, <1>3, <1>4
        DEF PoolInit, PoolInv, RunningCounted, Counted, WorkingCounted, AllCreated, NoneBorn,
            StoppedAll, PausedNoneWorks, QuietIsDone

LEMMA PoolStutters ==
  ASSUME PoolInv, UNCHANGED poolVars
  PROVE  PoolInv'
<1>1. \A S : At(S)' = At(S)
  BY DEF At, poolVars
<1> QED BY <1>1
        DEF poolVars, PoolInv, PoolTypeOK, FlagsOK, RunningCounted, Counted, WorkingCounted, AllCreated,
            NoneBorn, StoppedAll, NoInputAsked, PausedNoneWorks, QuietIsDone

THEOREM PoolInvariance == PoolSpec => []PoolInv
<1>1. PoolInit => PoolInv
  BY PoolStarts
<1>2. PoolInv /\ [PoolNext]_poolVars => PoolInv'
  BY WorkerKeeps, OwnerKeepsInv, PoolStutters DEF PoolNext
<1> QED BY <1>1, <1>2, PTL DEF PoolSpec

\* When IsWorking (ThreadPool.h:567) has answered no, every input given to the pool
\* before has been dealt with, whatever the number of threads and however they moved
\* between its three questions.
THEOREM IdleCorrect == PoolSpec => []IdleMeansDone
<1>1. PoolInv => IdleMeansDone
  BY DEF PoolInv, QuietIsDone, IdleMeansDone, At
<1> QED BY <1>1, PoolInvariance, PTL

\* Between the return of Pause (ThreadPool.h:615) and Resume no worker is in a
\* callback or takes an input.
THEOREM PauseCorrect == PoolSpec => []PausedMeansStill
<1>1. PoolInv => PausedMeansStill
  BY DEF PoolInv, PausedNoneWorks, PausedMeansStill, At, AtWork
<1> QED BY <1>1, PoolInvariance, PTL

-----------------------------------------------------------------------------
Holders(t) == {p \in Pointers : ptr[p] = t}
Number(t)  == Cardinality(Holders(t))

PointersTypeOK == ptr \in [Pointers -> Targets \union {Nothing}] /\ deleted = FALSE

PointersInv == PointersTypeOK /\ refCount = [t \in {u \in Targets : Number(u) > 0} |-> Number(t)]

-----------------------------------------------------------------------------
LEMMA HoldersFinite ==
  ASSUME NEW t
  PROVE  IsFiniteSet(Holders(t)) /\ Number(t) \in Nat /\ (Number(t) = 0 <=> Holders(t) = {})
BY SmartPtrAssumption, FS_Subset, FS_CardinalityType, FS_EmptySet DEF Holders, Number

\* A holder counts.
LEMMA HolderCounts ==
  ASSUME NEW p \in Pointers
  PROVE  Number(ptr[p]) > 0
<1>1. p \in Holders(ptr[p])
  BY DEF Holders
<1> QED BY <1>1, HoldersFinite

\* So do two.
LEMMA TwoHoldersCount ==
  ASSUME NEW p \in Pointers, NEW q \in Pointers, p # q, ptr[p] = ptr[q]
  PROVE  Number(ptr[p]) > 1
<1> DEFINE others == Holders(ptr[p]) \ {p}
<1>1. p \in Holders(ptr[p]) /\ q \in others
  BY DEF Holders
<1>2. IsFiniteSet(others) /\ Cardinality(others) = Number(ptr[p]) - 1
  BY <1>1, HoldersFinite, FS_RemoveElement DEF Number
<1>3. Cardinality(others) # 0 /\ Cardinality(others) \in Nat
  BY <1>1, <1>2, FS_EmptySet, FS_CardinalityType
<1> QED BY <1>2, <1>3, HoldersFinite

\* A pointer that moves: its new target has a holder more, its old one a holder less.
LEMMA MoveCounts ==
  ASSUME PointersTypeOK, NEW p \in Pointers, NEW u, ptr' = [ptr EXCEPT ![p] = u], NEW t
  PROVE  Number(t)' = IF ptr[p] = u THEN Number(t)
                      ELSE IF t = u THEN Number(t) + 1
                      ELSE IF t = ptr[p] THEN Number(t) - 1 ELSE Number(t)
<1>1. Holders(t)' = IF t = u THEN Holders(t) \union {p} ELSE Holders(t) \ {p}
  BY DEF Holders, PointersTypeOK
<1>2. p \in Holders(t) <=> t = ptr[p]
  BY DEF Holders
<1>3. CASE t = u
  <2>1. Cardinality(Holders(t) \union {p}) = IF p \in Holders(t) THEN Number(t) ELSE Number(t) + 1
    BY HoldersFinite, FS_AddElement DEF Number
  <2> QED BY <1>1, <1>2, <1>3, <2>1 DEF Number
<1>4. CASE t # u
  <2>1. Cardinality(Holders(t) \ {p}) = IF p \in Holders(t) THEN Number(t) - 1 ELSE Number(t)
    BY HoldersFinite, FS_RemoveElement DEF Number
  <2> QED BY <1>1, <1>2, <1>4, <2>1 DEF Number
<1> QED BY <1>3, <1>4

\* The counters once a pointer has let go.
LEMMA ReleaseCounts ==
  ASSUME PointersInv, NEW p \in Pointers
  PROVE  LET left(t) == IF t = ptr[p] THEN Number(t) - 1 ELSE Number(t)
         IN  Released(p) = [t \in {u \in Targets : left(u) > 0} |-> left(t)]
<1> DEFINE left(t) == IF t = ptr[p] THEN Number(t) - 1 ELSE Number(t)
<1>1. ptr[p] \in Targets \union {Nothing} /\ Nothing \notin Targets
  BY SmartPtrAssumption DEF Nothing, PointersInv, PointersTypeOK
<1>2. Number(ptr[p]) > 0 /\ \A t : Number(t) \in Nat
  BY HolderCounts, HoldersFinite
<1>3. CASE ptr[p] = Nothing
  <2>1. \A t \in Targets : left(t) = Number(t)
    BY <1>1, <1>3
  <2> QED BY <1>3, <2>1 DEF Released, PointersInv
<1>4. CASE ptr[p] # Nothing /\ Number(ptr[p]) = 1
  <2>1. \A t \in Targets : left(t) > 0 <=> Number(t) > 0 /\ t # ptr[p]
    BY <1>2, <1>4
  <2>2. refCount[ptr[p]] = 1
    BY <1>1, <1>4 DEF PointersInv
  <2> QED BY <1>2, <1>4, <2>1, <2>2 DEF Released, PointersInv
<1>5. CASE ptr[p] # Nothing /\ Number(ptr[p]) # 1
  <2>1. \A t \in Targets : left(t) > 0 <=> Number(t) > 0
    BY <1>2, <1>5
  <2>2. refCount[ptr[p]] = Number(ptr[p])
    BY <1>1, <1>2, <1>5 DEF PointersInv
  <2>3. Released(p) = [refCount EXCEPT ![ptr[p]] = refCount[ptr[p]] - 1]
    BY <1>5, <2>2 DEF Released
  <2> QED BY <1>2, <2>1, <2>2, <2>3 DEF PointersInv
<1> QED BY <1>3, <1>4, <1>5

-----------------------------------------------------------------------------
LEMMA PointToKeeps ==
  ASSUME PointersInv, NEW p \in Pointers, NEW t \in Targets, PointTo(p, t)
  PROVE  PointersInv'
<1> DEFINE left(u) == IF u = ptr[p] THEN Number(u) - 1 ELSE Number(u)
<1>1. Released(p) = [v \in {u \in Targets : left(u) > 0} |-> left(v)]
  BY ReleaseCounts
<1>2. \A u : Number(u) \in Nat
  BY HoldersFinite
<1>3. Number(t) = 0 /\ ptr[p] # t
  BY <1>2, HolderCounts DEF PointTo, PointersInv
<1>4. \A u : Number(u)' = IF u = t THEN 1 ELSE left(u)
  <2>1. PointersTypeOK /\ ptr' = [ptr EXCEPT ![p] = t]
    BY DEF PointTo, PointersInv
  <2>2. \A u : Number(u)' = IF ptr[p] = t THEN Number(u)
                           ELSE IF u = t THEN Number(u) + 1
                           ELSE IF u = ptr[p] THEN Number(u) - 1 ELSE Number(u)
    BY <2>1, MoveCounts
  <2> QED BY <1>3, <2>2
<1>5. refCount' = [v \in {u \in Targets : Number(u)' > 0} |-> Number(v)']
  BY <1>1, <1>4 DEF PointTo, Created
<1>6. PointersTypeOK'
  BY HolderCounts, SmartPtrAssumption DEF Nothing, PointTo, Uses, PointersInv, PointersTypeOK
<1> QED BY <1>5, <1>6 DEF PointersInv

LEMMA AssignKeeps ==
  ASSUME PointersInv, NEW p \in Pointers, NEW q \in Pointers, Assign(p, q)
  PROVE  PointersInv'
<1> DEFINE left(u) == IF u = ptr[p] THEN Number(u) - 1 ELSE Number(u)
           t == ptr[q]
<1>1. Released(p) = [v \in {u \in Targets : left(u) > 0} |-> left(v)]
  BY ReleaseCounts
<1>2. \A u : Number(u) \in Nat
  BY HoldersFinite
<1>3. p # q /\ t \in Targets \union {Nothing} /\ Nothing \notin Targets
  BY SmartPtrAssumption DEF Nothing, Assign, PointersInv, PointersTypeOK
<1>4. left(t) > 0
  <2>1. CASE ptr[p] = t
    BY <1>2, <1>3, <2>1, TwoHoldersCount
  <2>2. CASE ptr[p] # t
    BY <2>2, HolderCounts
  <2> QED BY <2>1, <2>2
<1>5. \A u : Number(u)' = IF u = t THEN left(u) + 1 ELSE left(u)
  <2>1. PointersTypeOK /\ ptr' = [ptr EXCEPT ![p] = t]
    BY DEF Assign, PointersInv
  <2>2. \A u : Number(u)' = IF ptr[p] = t THEN Number(u)
                           ELSE IF u = t THEN Number(u) + 1
                           ELSE IF u = ptr[p] THEN Number(u) - 1 ELSE Number(u)
    BY <2>1, MoveCounts
  <2> QED BY <1>2, <2>2
<1>6. refCount' = [v \in {u \in Targets : Number(u)' > 0} |-> Number(v)']
  <2>1. CASE t = Nothing
    <3>1. t \notin DOMAIN Released(p)
      BY <1>1, <1>3, <2>1
    <3>2. refCount' = Released(p)
      BY <3>1 DEF Assign, Held
    <3>3. \A u \in Targets : Number(u)' = left(u)
      BY <1>3, <1>5, <2>1
    <3> QED BY <1>1, <3>2, <3>3
  <2>2. CASE t \in Targets
    <3>1. t \in DOMAIN Released(p)
      BY <1>1, <1>4, <2>2
    <3>2. refCount' = [Released(p) EXCEPT ![t] = Released(p)[t] + 1]
      BY <3>1 DEF Assign, Held
    <3>3. \A u \in Targets : Number(u)' > 0 <=> left(u) > 0
      BY <1>2, <1>4, <1>5
    <3> QED BY <1>1, <1>2, <1>5, <3>1, <3>2, <3>3
  <2> QED BY <1>3, <2>1, <2>2
<1>7. PointersTypeOK'
  BY HolderCounts, SmartPtrAssumption DEF Nothing, Assign, Uses, PointersInv, PointersTypeOK
<1> QED BY <1>6, <1>7 DEF PointersInv

LEMMA SetNullKeeps ==
  ASSUME PointersInv, NEW p \in Pointers, SetNull(p)
  PROVE  PointersInv'
<1> DEFINE left(u) == IF u = ptr[p] THEN Number(u) - 1 ELSE Number(u)
<1>1. Released(p) = [v \in {u \in Targets : left(u) > 0} |-> left(v)]
  BY ReleaseCounts
<1>2. Nothing \notin Targets /\ ptr[p] \in DOMAIN refCount
  BY HolderCounts, SmartPtrAssumption DEF Nothing, SetNull, PointersInv, PointersTypeOK
<1>3. \A u \in Targets : Number(u)' = left(u)
  BY <1>2, MoveCounts DEF SetNull, PointersInv
<1>4. refCount' = Released(p)
  BY <1>2 DEF SetNull
<1>5. PointersTypeOK'
  BY <1>2 DEF SetNull, Uses, PointersInv, PointersTypeOK
<1> QED BY <1>1, <1>3, <1>4, <1>5 DEF PointersInv

LEMMA CloneKeeps ==
  ASSUME PointersInv, NEW p \in Pointers, NEW t \in Targets, Clone(p, t)
  PROVE  PointersInv'
<1>1. /\ ptr[p] \in Targets /\ Number(ptr[p]) > 1 /\ refCount[ptr[p]] = Number(ptr[p])
      /\ Number(t) = 0 /\ \A u : Number(u) \in Nat
  BY HoldersFinite DEF Clone, PointersInv
<1>2. \A u : Number(u)' = IF u = t THEN 1 ELSE IF u = ptr[p] THEN Number(u) - 1 ELSE Number(u)
  <2>1. PointersTypeOK /\ ptr' = [ptr EXCEPT ![p] = t] /\ ptr[p] # t
    BY <1>1 DEF Clone, PointersInv
  <2>2. \A u : Number(u)' = IF u = t THEN Number(u) + 1
                           ELSE IF u = ptr[p] THEN Number(u) - 1 ELSE Number(u)
    BY <2>1, MoveCounts
  <2> QED BY <1>1, <2>2
<1>3. \A u \in Targets : Number(u)' > 0 <=> u \in DOMAIN refCount \union {t}
  BY <1>1, <1>2 DEF PointersInv
<1>4. {u \in Targets : Number(u)' > 0} = DOMAIN refCount \union {t}
  BY <1>3 DEF PointersInv
<1>5. refCount' = [v \in DOMAIN refCount \union {t} |-> Number(v)']
  BY <1>1, <1>2 DEF Clone, Created, PointersInv
<1>6. PointersTypeOK'
  BY DEF Clone, PointersInv, PointersTypeOK
<1> QED BY <1>4, <1>5, <1>6 DEF PointersInv

THEOREM PointersInvariance == PointersSpec => []PointersInv
<1>1. PointersInit => PointersInv
  <2> SUFFICES ASSUME PointersInit PROVE PointersInv
    OBVIOUS
  <2>1. \A t \in Targets : Holders(t) = {}
    BY SmartPtrAssumption DEF Nothing, PointersInit, Holders
  <2>2. \A t \in Targets : ~(Number(t) > 0)
    BY <2>1, HoldersFinite
  <2>3. refCount = [t \in {u \in Targets : Number(u) > 0} |-> Number(t)]
    BY <2>2 DEF PointersInit
  <2> QED BY <2>3 DEF PointersInit, PointersInv, PointersTypeOK
<1>2. PointersInv /\ [PointersNext]_pointerVars => PointersInv'
  <2>1. ASSUME PointersInv, UNCHANGED pointerVars PROVE PointersInv'
    BY <2>1 DEF pointerVars, PointersInv, PointersTypeOK, Number, Holders
  <2> QED BY <2>1, PointToKeeps, AssignKeeps, SetNullKeeps, CloneKeeps DEF PointersNext
<1> QED BY <1>1, <1>2, PTL DEF PointersSpec

\* The counter of RakNetSmartPtr.h counts: whatever is assigned, cloned and set to
\* null, of any number of pointers, a target is deleted with its last pointer, not
\* before and not later.
THEOREM CountCorrect == PointersSpec => []CountsPointers
<1>1. PointersInv => CountsPointers
  <2> SUFFICES ASSUME PointersInv PROVE CountsPointers
    OBVIOUS
  <2>1. \A t \in Targets : Number(t) > 0 <=> \E p \in Pointers : ptr[p] = t
    <3>1. SUFFICES ASSUME NEW t \in Targets
                   PROVE  Number(t) > 0 <=> \E p \in Pointers : ptr[p] = t
      OBVIOUS
    <3>2. Holders(t) # {} <=> \E p \in Pointers : ptr[p] = t
      BY DEF Holders
    <3> QED BY <3>2, HoldersFinite
  <2>2. DOMAIN refCount = {ptr[p] : p \in Pointers} \ {Nothing}
    BY <2>1, SmartPtrAssumption DEF Nothing, PointersInv, PointersTypeOK
  <2> QED BY <2>2 DEF CountsPointers, PointersInv, PointersTypeOK, Number, Holders
<1> QED BY <1>1, PointersInvariance, PTL
-----------------------------------------------------------------------------
QueueCalls == InMutex \union {"none", "looked"}
AllocatingTypeOK ==
  /\ queue \in Seq(Blocks) /\ allocated \subseteq Blocks
  /\ held \in [Users -> Blocks \union {NoBlock}]
  /\ call \in [Users -> QueueCalls] /\ seen \in [Users -> Seq(Blocks)]

\* What a thread inside the mutex has found stays true, as it is alone there.
SeenIsQueue == \A u \in Users : call[u] \in InMutex =>
                 /\ seen[u] = queue
                 /\ \A v \in Users \ {u} : call[v] \notin InMutex
HasToPush == \A u \in Users : call[u] = "push" => held[u] # NoBlock

AllocatingInv == AllocatingTypeOK /\ SeenIsQueue /\ HasToPush /\ OnePlaceForABlock

-----------------------------------------------------------------------------
\* Some of the queue, each element from a place of its own.
LEMMA PartKeepsPlaces ==
  ASSUME NEW q \in Seq(Blocks), NEW r \in Seq(Blocks), NEW f \in [DOMAIN r -> DOMAIN q],
         \A i, j \in DOMAIN r : f[i] = f[j] => i = j,
         \A i \in DOMAIN r : r[i] = q[f[i]],
         \A i, j \in DOMAIN q : q[i] = q[j] => i = j
  PROVE  /\ ToSet(r) \subseteq ToSet(q)
         /\ \A i, j \in DOMAIN r : r[i] = r[j] => i = j
BY DEF ToSet

\* Its tail; what is popped is in the queue no more.
LEMMA TailKeepsPlaces ==
  ASSUME NEW q \in Seq(Blocks), q # << >>,
         \A i, j \in DOMAIN q : q[i] = q[j] => i = j
  PROVE  /\ Tail(q) \in Seq(Blocks) /\ Head(q) \in ToSet(q) /\ Head(q) \in Blocks
         /\ ToSet(Tail(q)) \subseteq ToSet(q) \ {Head(q)}
         /\ \A i, j \in DOMAIN Tail(q) : Tail(q)[i] = Tail(q)[j] => i = j
<1> DEFINE r == Tail(q)
<1>1. r \in Seq(Blocks) /\ Len(r) = Len(q) - 1 /\ \A i \in 1 .. Len(r) : r[i] = q[i + 1]
  OBVIOUS
<1>2. \A i \in DOMAIN r : i + 1 \in DOMAIN q /\ i + 1 # 1
  BY <1>1
<1>3. Head(q) = q[1] /\ 1 \in DOMAIN q /\ q[1] \in Blocks
  OBVIOUS
<1>4. ToSet(r) \subseteq ToSet(q) \ {q[1]}
  BY <1>1, <1>2, <1>3 DEF ToSet
<1>5. \A i, j \in DOMAIN r : r[i] = r[j] => i = j
  BY <1>1, <1>2
<1> QED BY <1>1, <1>3, <1>4, <1>5 DEF ToSet

\* The queue without an element, and with one more.
LEMMA Shift ==
  ASSUME NEW m \in Nat, NEW n \in 1 .. m, NEW i \in 1 .. m - 1, ~(i < n)
  PROVE  i - (n - 1) \in 1 .. m - n /\ n + (i - (n - 1)) = i + 1 /\ ~(i <= n - 1)
OBVIOUS

LEMMA RemoveKeepsPlaces ==
  ASSUME NEW q \in Seq(Blocks), NEW n \in DOMAIN q,
         \A i, j \in DOMAIN q : q[i] = q[j] => i = j
  PROVE  /\ RemoveAt(q, n) \in Seq(Blocks)
         /\ ToSet(RemoveAt(q, n)) \subseteq ToSet(q)
         /\ \A i, j \in DOMAIN RemoveAt(q, n) : RemoveAt(q, n)[i] = RemoveAt(q, n)[j] => i = j
<1> DEFINE a == SubSeq(q, 1, n - 1)
           b == SubSeq(q, n + 1, Len(q))
           r == RemoveAt(q, n)
           f == [i \in DOMAIN r |-> IF i < n THEN i ELSE i + 1]
<1>1. /\ n \in 1 .. Len(q) /\ Len(q) \in Nat
      /\ a \in Seq(Blocks) /\ Len(a) = n - 1 /\ \A i \in 1 .. n - 1 : a[i] = q[i]
  OBVIOUS
<1>2. b \in Seq(Blocks) /\ Len(b) = Len(q) - n /\ \A i \in 1 .. Len(q) - n : b[i] = q[n + i]
  <2>1. \A i \in n + 1 .. Len(q) : q[i] \in Blocks
    BY <1>1
  <2> QED BY <1>1, <2>1, SubSeqProperties
<1>3. r = a \o b
  BY DEF RemoveAt
<1> HIDE DEF a, b
<1>4. r \in Seq(Blocks) /\ DOMAIN r = 1 .. Len(q) - 1
  BY <1>1, <1>2, <1>3
<1>5. \A i \in DOMAIN r : r[i] = q[IF i < n THEN i ELSE i + 1]
  <2> SUFFICES ASSUME NEW i \in DOMAIN r PROVE r[i] = q[IF i < n THEN i ELSE i + 1]
    OBVIOUS
  <2>1. i \in 1 .. Len(q) - 1
    BY <1>4
  <2>2. r[i] = IF i <= n - 1 THEN a[i] ELSE b[i - (n - 1)]
    <3>1. Len(a) + Len(b) = Len(q) - 1
      BY <1>1, <1>2
    <3>2. (a \o b)[i] = IF i <= Len(a) THEN a[i] ELSE b[i - Len(a)]
      <4>1. a \in Seq(Blocks) /\ b \in Seq(Blocks)
        BY <1>1, <1>2
      <4>2. i \in 1 .. Len(a) + Len(b)
        BY <2>1, <3>1
      <4> QED BY <4>1, <4>2, ConcatProperties
    <3>3. r[i] = (a \o b)[i] /\ Len(a) = n - 1
      BY <1>1, <1>3
    <3> QED BY <3>2, <3>3
  <2>3. CASE i < n
    <3>1. i \in 1 .. n - 1 /\ i <= n - 1
      BY <1>1, <2>1, <2>3
    <3>2. r[i] = q[i]
      BY <1>1, <2>2, <3>1
    <3> QED BY <2>3, <3>2
  <2>4. CASE ~(i < n)
    <3>1. i - (n - 1) \in 1 .. Len(q) - n /\ n + (i - (n - 1)) = i + 1 /\ ~(i <= n - 1)
      BY <1>1, <2>1, <2>4, Shift
    <3>2. r[i] = q[i + 1]
      BY <1>2, <2>2, <3>1
    <3> QED BY <2>4, <3>2
  <2> QED BY <2>3, <2>4
<1>6. /\ f \in [DOMAIN r -> DOMAIN q]
      /\ \A i, j \in DOMAIN r : f[i] = f[j] => i = j
      /\ \A i \in DOMAIN r : r[i] = q[f[i]]
  BY <1>1, <1>4, <1>5
<1> HIDE DEF f, r
<1>7. /\ ToSet(r) \subseteq ToSet(q)
      /\ \A i, j \in DOMAIN r : r[i] = r[j] => i = j
  BY <1>4, <1>6, PartKeepsPlaces
<1> QED BY <1>4, <1>7 DEF r

LEMMA AppendKeepsPlaces ==
  ASSUME NEW q \in Seq(Blocks), NEW b \in Blocks \ ToSet(q),
         \A i, j \in DOMAIN q : q[i] = q[j] => i = j
  PROVE  /\ Append(q, b) \in Seq(Blocks)
         /\ ToSet(Append(q, b)) = ToSet(q) \union {b}
         /\ \A i, j \in DOMAIN Append(q, b) : Append(q, b)[i] = Append(q, b)[j] => i = j
<1> DEFINE r == Append(q, b)
           last == Len(q) + 1
<1>1. r \in Seq(Blocks) /\ DOMAIN r = DOMAIN q \union {last} /\ last \notin DOMAIN q
  OBVIOUS
<1>2. r[last] = b /\ \A i \in DOMAIN q : r[i] = q[i] /\ q[i] # b
  BY DEF ToSet
<1> HIDE DEF r, last
<1>3. ToSet(r) = ToSet(q) \union {b}
  BY <1>1, <1>2 DEF ToSet
<1>4. \A i, j \in DOMAIN r : r[i] = r[j] => i = j
  BY <1>1, <1>2
<1> QED BY <1>1, <1>3, <1>4 DEF r

-----------------------------------------------------------------------------
\* A call that leaves the mutex, if what it puts in the queue and in its hand is
\* from the queue it found and from its hand.
LEMMA UnlockKeeps ==
  ASSUME AllocatingInv, NEW u \in Users, call[u] \in InMutex,
         NEW q \in Seq(Blocks), NEW block \in Blocks \union {NoBlock}, QueueUnlock(u, q, block),
         ToSet(q) \union ({block} \ {NoBlock}) \subseteq ToSet(queue) \union ({held[u]} \ {NoBlock}),
         block \notin ToSet(q), 
         \A i, j \in DOMAIN q : q[i] = q[j] => i = j
  PROVE  AllocatingInv'
<1> USE DEF AllocatingInv, QueueUnlock, InMutex
<1>1. AllocatingTypeOK'
  BY DEF AllocatingTypeOK, QueueCalls
<1>2. SeenIsQueue'
  BY DEF AllocatingTypeOK, SeenIsQueue
<1>3. HasToPush'
  BY DEF AllocatingTypeOK, HasToPush
<1>4. OnePlaceForABlock'
  <2>1. \A v \in Users \ {u} : held'[v] = held[v]
    BY DEF AllocatingTypeOK
  <2>2. held'[u] = block /\ queue' = q /\ allocated' = allocated
    BY DEF AllocatingTypeOK
  <2>3. ToSet(q) \subseteq allocated /\ (block # NoBlock => block \in allocated)
    BY DEF OnePlaceForABlock
  <2>4. ASSUME NEW v \in Users \ {u}, held[v] # NoBlock
        PROVE  held[v] \in allocated /\ held[v] \notin ToSet(q) /\ held[v] # block
    BY <2>4 DEF OnePlaceForABlock
  <2>5. ASSUME NEW v \in Users, held'[v] # NoBlock
        PROVE  /\ held'[v] \in allocated' /\ held'[v] \notin ToSet(queue')
               /\ \A w \in Users \ {v} : held'[w] # held'[v]
    <3>1. CASE v = u
      BY <2>1, <2>2, <2>3, <2>4, <2>5, <3>1
    <3>2. CASE v # u
      <4>1. held'[v] = held[v]
        BY <2>1, <3>2
      <4>2. \A w \in Users \ {v} : held[w] # held[v]
        BY <2>5, <4>1 DEF OnePlaceForABlock
      <4> QED BY <2>1, <2>2, <2>4, <2>5, <3>2, <4>1, <4>2
    <3> QED BY <3>1, <3>2
  <2>6. \A i, j \in DOMAIN queue' : queue'[i] = queue'[j] => i = j
    BY <2>2
  <2> QED BY <2>2, <2>3, <2>5, <2>6 DEF OnePlaceForABlock
<1> QED BY <1>1, <1>2, <1>3, <1>4

\* A thread that enters the mutex finds it free.
LEMMA LockKeeps ==
  ASSUME AllocatingInv, NEW u \in Users, NEW name \in InMutex, QueueLock(u, name),
         name = "push" => held[u] # NoBlock
  PROVE  AllocatingInv'
<1>1. AllocatingTypeOK'
  BY DEF AllocatingInv, AllocatingTypeOK, QueueLock, QueueCalls
<1>2. SeenIsQueue'
  BY DEF AllocatingInv, AllocatingTypeOK, QueueLock, SeenIsQueue, queueMutexHeld
<1>3. HasToPush'
  BY DEF AllocatingInv, AllocatingTypeOK, QueueLock, HasToPush
<1>4. OnePlaceForABlock'
  BY DEF AllocatingInv, QueueLock, OnePlaceForABlock
<1> QED BY <1>1, <1>2, <1>3, <1>4 DEF AllocatingInv

\* A call that does not lock the mutex and leaves the queue alone.
LEMMA BlocksKeep ==
  ASSUME AllocatingInv, NEW u \in Users,
         TakeBlock(u) \/ Deallocate(u) \/ PopLook(u)
  PROVE  AllocatingInv'
<1>1. AllocatingTypeOK' /\ SeenIsQueue' /\ HasToPush'
  BY DEF AllocatingInv, AllocatingTypeOK, SeenIsQueue, HasToPush, TakeBlock, Deallocate, PopLook,
         AtRest, QueueCalls, InMutex
<1>2. CASE TakeBlock(u)
  <2>1. PICK b \in Blocks \ allocated : /\ allocated' = allocated \union {b}
                                        /\ held' = [held EXCEPT ![u] = b]
    BY <1>2 DEF TakeBlock
  <2>2. queue' = queue
    BY <1>2 DEF TakeBlock
  <2>3. held'[u] = b /\ \A v \in Users \ {u} : held'[v] = held[v]
    BY <2>1 DEF AllocatingInv, AllocatingTypeOK
  <2> QED BY <1>1, <2>1, <2>2, <2>3 DEF AllocatingInv, OnePlaceForABlock
<1>3. CASE Deallocate(u)
  <2>1. held'[u] = NoBlock /\ (\A v \in Users \ {u} : held'[v] = held[v])
        /\ queue' = queue /\ allocated' = allocated \ {held[u]} /\ held[u] # NoBlock
    BY <1>3 DEF Deallocate, AllocatingInv, AllocatingTypeOK
  <2> QED BY <1>1, <2>1 DEF AllocatingInv, OnePlaceForABlock
<1>4. CASE PopLook(u)
  BY <1>1, <1>4 DEF PopLook, AllocatingInv, OnePlaceForABlock
<1> QED BY <1>2, <1>3, <1>4

LEMMA UserKeeps ==
  ASSUME AllocatingInv, NEW u \in Users,
         \/ TakeBlock(u) \/ Deallocate(u) \/ PushLock(u) \/ PushUnlock(u)
         \/ PopLook(u) \/ PopLock(u) \/ PopUnlock(u) \/ RemoveLock(u) \/ RemoveUnlock(u)
  PROVE  AllocatingInv'
<1> USE AllocatingQueueAssumption DEF NoBlock
<1>a. /\ queue \in Seq(Blocks) /\ seen[u] \in Seq(Blocks) /\ held[u] \in Blocks \union {NoBlock}
      /\ \A i, j \in DOMAIN queue : queue[i] = queue[j] => i = j
  BY DEF AllocatingInv, AllocatingTypeOK, OnePlaceForABlock
<1>b. call[u] \in InMutex => seen[u] = queue
  BY DEF AllocatingInv, SeenIsQueue
<1>1. CASE TakeBlock(u) \/ Deallocate(u) \/ PopLook(u)
  BY <1>1, BlocksKeep
<1>2. CASE PushLock(u)
  BY <1>2, LockKeeps DEF PushLock, InMutex
<1>3. CASE PopLock(u)
  BY <1>3, LockKeeps DEF PopLock, InMutex
<1>4. CASE RemoveLock(u)
  BY <1>4, LockKeeps DEF RemoveLock, InMutex
<1>5. CASE PushUnlock(u)
  <2>1. call[u] \in InMutex /\ seen[u] = queue /\ QueueUnlock(u, Append(queue, held[u]), NoBlock)
    BY <1>5, <1>b DEF PushUnlock, InMutex
  <2>2. held[u] \in Blocks \ ToSet(queue)
    BY <1>5, <1>a DEF PushUnlock, AllocatingInv, HasToPush, OnePlaceForABlock
  <2>3. /\ Append(queue, held[u]) \in Seq(Blocks)
        /\ ToSet(Append(queue, held[u])) = ToSet(queue) \union {held[u]}
        /\ \A i, j \in DOMAIN Append(queue, held[u]) :
             Append(queue, held[u])[i] = Append(queue, held[u])[j] => i = j
    BY <1>a, <2>2, AppendKeepsPlaces
  <2>4. NoBlock \notin ToSet(Append(queue, held[u]))
    BY <1>a, <2>2, <2>3 DEF ToSet
  <2> QED BY <2>1, <2>2, <2>3, <2>4, UnlockKeeps
<1>6. CASE PopUnlock(u)
  <2>1. call[u] \in InMutex /\ seen[u] = queue
    BY <1>6, <1>b DEF PopUnlock, InMutex
  <2>2. CASE queue = << >>
    <3>1. QueueUnlock(u, << >>, NoBlock)
      BY <1>6, <2>1, <2>2 DEF PopUnlock, Popped
    <3>2. << >> \in Seq(Blocks) /\ ToSet(<< >>) = {} /\ DOMAIN << >> = {}
      BY DEF ToSet
    <3>3. \A i, j \in DOMAIN << >> : << >>[i] = << >>[j] => i = j
      BY <3>2
    <3> QED BY <2>1, <3>1, <3>2, <3>3, UnlockKeeps
  <2>3. CASE queue # << >>
    <3>1. QueueUnlock(u, Tail(queue), Head(queue))
      BY <1>6, <2>1, <2>3 DEF PopUnlock, Popped
    <3>2. /\ Tail(queue) \in Seq(Blocks) /\ Head(queue) \in ToSet(queue) /\ Head(queue) \in Blocks
          /\ ToSet(Tail(queue)) \subseteq ToSet(queue) \ {Head(queue)}
          /\ \A i, j \in DOMAIN Tail(queue) : Tail(queue)[i] = Tail(queue)[j] => i = j
      BY <1>a, <2>3, TailKeepsPlaces
    <3> QED BY <2>1, <3>1, <3>2, UnlockKeeps
  <2> QED BY <2>2, <2>3
<1>7. CASE RemoveUnlock(u)
  <2>1. call[u] \in InMutex /\ seen[u] = queue
    BY <1>7, <1>b DEF RemoveUnlock, InMutex
  <2>2. NoBlock \notin ToSet(queue)
    BY <1>a DEF ToSet
  <2>3. CASE QueueUnlock(u, queue, NoBlock)
    BY <1>a, <2>1, <2>2, <2>3, UnlockKeeps
  <2>4. CASE \E i \in DOMAIN queue : QueueUnlock(u, RemoveAt(queue, i), NoBlock)
    <3>1. PICK n \in DOMAIN queue : QueueUnlock(u, RemoveAt(queue, n), NoBlock)
      BY <2>4
    <3>2. /\ RemoveAt(queue, n) \in Seq(Blocks)
          /\ ToSet(RemoveAt(queue, n)) \subseteq ToSet(queue)
          /\ \A i, j \in DOMAIN RemoveAt(queue, n) :
               RemoveAt(queue, n)[i] = RemoveAt(queue, n)[j] => i = j
      BY <1>a, RemoveKeepsPlaces
    <3> QED BY <2>1, <2>2, <3>1, <3>2, UnlockKeeps
  <2> QED BY <1>7, <2>1, <2>3, <2>4 DEF RemoveUnlock
<1> QED BY <1>1, <1>2, <1>3, <1>4, <1>5, <1>6, <1>7

THEOREM AllocatingInvariance == AllocatingSpec => []AllocatingInv
<1> USE AllocatingQueueAssumption DEF NoBlock
<1>1. AllocatingInit => AllocatingInv
  BY DEF AllocatingInit, AllocatingInv, AllocatingTypeOK, SeenIsQueue, HasToPush,
         OnePlaceForABlock, QueueCalls, InMutex, ToSet
<1>2. AllocatingInv /\ [AllocatingNext]_allocatingVars => AllocatingInv'
  <2> SUFFICES ASSUME AllocatingInv, [AllocatingNext]_allocatingVars PROVE AllocatingInv'
    OBVIOUS
  <2>1. CASE \E u \in Users : \/ TakeBlock(u) \/ Deallocate(u) \/ PushLock(u) \/ PushUnlock(u)
                              \/ PopLook(u) \/ PopLock(u) \/ PopUnlock(u)
                              \/ RemoveLock(u) \/ RemoveUnlock(u)
    BY <2>1, UserKeeps
  <2>2. CASE ClearAllocated
    BY <2>2 DEF ClearAllocated, AtRest, AllocatingInv, AllocatingTypeOK, SeenIsQueue, HasToPush,
                OnePlaceForABlock, QueueCalls, InMutex, ToSet
  <2>3. CASE UNCHANGED allocatingVars
    BY <2>3 DEF allocatingVars, AllocatingInv, AllocatingTypeOK, SeenIsQueue, HasToPush,
                OnePlaceForABlock
  <2> QED BY <2>1, <2>2, <2>3 DEF AllocatingNext
<1> QED BY <1>1, <1>2, PTL DEF AllocatingSpec

\* Between threads that use the queue and the pool in any order
\* (DS_ThreadsafeAllocatingQueue.h:57-130), a block is never in two hands.
THEOREM PlaceCorrect == AllocatingSpec => []OnePlaceForABlock
<1>1. AllocatingInv => OnePlaceForABlock
  BY DEF AllocatingInv
<1> QED BY <1>1, AllocatingInvariance, PTL

-----------------------------------------------------------------------------
(***************************************************************************)
(* A ring of n pages is numbered: c[0], ..., c[n - 1] are its pages in     *)
(* their order, and c[n] is c[0] again.                                    *)
(***************************************************************************)
Numbers(c, n, after, P) ==
  /\ n \in Nat /\ n > 0 /\ c \in [0 .. n -> P] /\ c[n] = c[0]
  /\ \A i \in 0 .. n - 1 : after[c[i]] = c[i + 1]
  /\ \A i, j \in 0 .. n - 1 : c[i] = c[j] => i = j
  /\ \A p \in P : \E i \in 0 .. n - 1 : c[i] = p

\* n pages have n numbers.
LEMMA NumbersCount ==
  ASSUME NEW P, NEW n, NEW c, NEW after, Numbers(c, n, after, P)
  PROVE  Cardinality(P) = n
<1>1. n \in Nat /\ \A i \in 0 .. n - 1 : c[i] \in P
  BY DEF Numbers
<1>2. /\ \A i, j \in 0 .. n - 1 : c[i] = c[j] => i = j
      /\ \A p \in P : \E i \in 0 .. n - 1 : c[i] = p
  BY DEF Numbers
<1> QED BY <1>1, <1>2, CountedByNumbers

\* Where k steps lead from a page.
LEMMA AfterIs ==
  ASSUME NEW n, NEW c, Numbers(c, n, next, Pages), NEW i \in 0 .. n - 1, NEW k \in 0 .. n
  PROVE  After(c[i], k) = IF i + k <= n THEN c[i + k] ELSE c[i + k - n]
<1> DEFINE to(m) == IF i + m <= n THEN c[i + m] ELSE c[i + m - n]
           IsWalk(g) == g = [m \in 0 .. k |-> IF m = 0 THEN c[i] ELSE next[g[m - 1]]]
           walk == CHOOSE g : IsWalk(g)
<1>1. n \in Nat /\ n > 0 /\ k \in Nat /\ i \in Nat
  BY DEF Numbers
<1>2. to(0) = c[i]
  BY <1>1
<1>3. ASSUME NEW m \in 0 .. k - 1 PROVE to(m + 1) = next[to(m)]
  <2>1. CASE i + m < n
    <3>1. i + m \in 0 .. n - 1
      BY <1>1, <2>1
    <3>2. next[c[i + m]] = c[(i + m) + 1]
      BY <3>1 DEF Numbers
    <3> QED BY <1>1, <2>1, <3>2
  <2>2. CASE i + m = n
    <3>1. 0 \in 0 .. n - 1 /\ c[n] = c[0] /\ next[c[0]] = c[0 + 1]
      BY <1>1 DEF Numbers
    <3>2. i + (m + 1) - n = 1
      BY <1>1, <2>2
    <3> QED BY <1>1, <2>2, <3>1, <3>2
  <2>3. CASE i + m > n
    <3>1. i + m - n \in 0 .. n - 1
      BY <1>1, <2>3
    <3>2. next[c[i + m - n]] = c[(i + m - n) + 1]
      BY <3>1 DEF Numbers
    <3>3. i + (m + 1) - n = (i + m - n) + 1
      BY <1>1
    <3> QED BY <1>1, <2>3, <3>2, <3>3
  <2> QED BY <1>1, <2>1, <2>2, <2>3
<1> HIDE DEF to
<1>4. \E g : IsWalk(g)
  <2> DEFINE g == [m \in 0 .. k |-> to(m)]
  <2>1. ASSUME NEW m \in 0 .. k PROVE to(m) = IF m = 0 THEN c[i] ELSE next[g[m - 1]]
    <3>1. CASE m = 0
      BY <1>2, <3>1
    <3>2. CASE m # 0
      <4>1. m - 1 \in 0 .. k - 1 /\ (m - 1) + 1 = m /\ m - 1 \in 0 .. k
        BY <1>1, <3>2
      <4> QED BY <1>3, <3>2, <4>1
    <3> QED BY <3>1, <3>2
  <2>2. IsWalk(g)
    BY <2>1
  <2> HIDE DEF IsWalk
  <2> QED BY <2>2
<1>5. IsWalk(walk)
  <2> HIDE DEF IsWalk
  <2> QED BY <1>4
<1>6. After(c[i], k) = walk[k]
  BY DEF After
<1> HIDE DEF walk
<1> DEFINE S == {m \in Nat : walk[m] = to(m)}
<1>7. 0 \in S
  BY <1>1, <1>2, <1>5
<1>8. ASSUME NEW m \in 0 .. k - 1, m \in S PROVE m + 1 \in S
  <2>1. m + 1 \in 0 .. k /\ m + 1 # 0 /\ (m + 1) - 1 = m /\ m + 1 \in Nat
    BY <1>1
  <2>2. walk[m + 1] = next[walk[m]]
    BY <1>5, <2>1
  <2> QED BY <1>3, <1>8, <2>1, <2>2
<1>9. 0 .. k \subseteq S
  <2> HIDE DEF S
  <2> QED BY <1>1, <1>7, <1>8, UpToInSet
<1>10. walk[k] = to(k)
  BY <1>1, <1>9
<1> QED BY <1>6, <1>10 DEF to

\* How many pages one page is after another.
LEMMA BetweenIs ==
  ASSUME NEW n, NEW c, Numbers(c, n, next, Pages), IsFiniteSet(Pages),
         NEW i \in 0 .. n - 1, NEW j \in 0 .. n - 1
  PROVE  Between(c[i], c[j]) = IF i <= j THEN j - i ELSE j + n - i
<1> DEFINE d == IF i <= j THEN j - i ELSE j + n - i
<1>1. n \in Nat /\ n > 0 /\ i \in Nat /\ j \in Nat /\ c[n] = c[0]
  BY DEF Numbers
<1>2. Cardinality(Pages) = n
  BY NumbersCount
<1>3. d \in 0 .. n - 1 /\ After(c[i], d) = c[j]
  <2>1. d \in 0 .. n - 1 /\ d \in 0 .. n
    BY <1>1
  <2>2. After(c[i], d) = IF i + d <= n THEN c[i + d] ELSE c[i + d - n]
    <3> HIDE DEF d
    <3> QED BY <2>1, AfterIs
  <2>3. CASE i <= j
    <3>1. i + d = j /\ i + d <= n
      BY <1>1, <2>3
    <3> QED BY <2>1, <2>2, <3>1
  <2>4. CASE ~(i <= j)
    <3>1. i + d = j + n
      BY <1>1, <2>4
    <3>2. CASE j = 0
      BY <1>1, <2>1, <2>2, <3>1, <3>2
    <3>3. CASE j # 0
      <4>1. ~(i + d <= n) /\ i + d - n = j
        BY <1>1, <3>1, <3>3
      <4> QED BY <2>1, <2>2, <4>1
    <3> QED BY <3>2, <3>3
  <2> QED BY <2>3, <2>4
<1>4. ASSUME NEW k \in 0 .. n - 1, After(c[i], k) = c[j] PROVE k = d
  <2>1. k \in 0 .. n /\ k \in Nat
    BY <1>1
  <2>2. c[j] = IF i + k <= n THEN c[i + k] ELSE c[i + k - n]
    BY <1>4, <2>1, AfterIs
  <2>3. CASE i + k < n
    <3>1. i + k \in 0 .. n - 1 /\ c[i + k] = c[j]
      BY <1>1, <2>1, <2>2, <2>3
    <3>2. i + k = j
      BY <3>1 DEF Numbers
    <3> QED BY <1>1, <2>1, <3>2
  <2>4. CASE ~(i + k < n)
    <3>1. i + k - n \in 0 .. n - 1 /\ c[i + k - n] = c[j]
      <4>1. CASE i + k = n
        <5>1. i + k - n = 0
          BY <1>1, <4>1
        <5> QED BY <1>1, <2>2, <4>1, <5>1
      <4>2. CASE i + k # n
        BY <1>1, <2>1, <2>2, <2>4, <4>2
      <4> QED BY <4>1, <4>2
    <3>2. i + k - n = j
      BY <3>1 DEF Numbers
    <3> QED BY <1>1, <2>1, <3>2
  <2> QED BY <2>3, <2>4
<1> HIDE DEF d
<1>5. Between(c[i], c[j]) = d
  BY <1>2, <1>3, <1>4 DEF Between
<1> QED BY <1>5 DEF d

-----------------------------------------------------------------------------
PagesTypeOK ==
  /\ Pages \subseteq 0 .. MaxPages - 1 /\ object \in [Pages -> Int]
  /\ writer \in {"idle", "look", "full", "publish"} /\ reader \in {"idle", "release"}

\* The pages published and not yet passed, and given back and not yet passed.
Published == IF writer = "publish" THEN 1 ELSE 0
GivenBack  == IF reader = "release" THEN 1 ELSE 0

\* From the page the reader is at, numbered 0, the pages locked by the reader, those it
\* may lock, those locked by the writer and the free ones follow one another; the page
\* of number i holds write R + i.
Placed(c, n, a, w, b, R) ==
  /\ a \in Nat /\ w \in Nat /\ b \in Nat /\ R \in Nat
  /\ n >= MINIMUM_LIST_SIZE
  /\ GivenBack <= a /\ a <= w /\ w + Published <= b /\ b < n
  /\ readPointer = c[0] /\ readAheadPointer = c[a]
  /\ writePointer = c[w] /\ writeAheadPointer = c[b]
  /\ writer = "look" => b + 1 < n
  /\ readCount = (R + GivenBack) % CountModulus
  /\ writeCount = (R + w + Published) % CountModulus
  /\ \A i \in 0 .. n - 1 : GivenBack <= i /\ i < w + Published => c[i] \in readyToRead
  /\ \A i \in 0 .. b - 1 : object[c[i]] = (R + i) % CountModulus

InPlace == \E n, c, a, w, b, R : Numbers(c, n, next, Pages) /\ Placed(c, n, a, w, b, R)
PagesInv == PagesTypeOK /\ InPlace

LEMMA PagesFinite ==
  ASSUME PagesTypeOK
  PROVE  IsFiniteSet(Pages) /\ Cardinality(Pages) <= MaxPages
<1>1. MaxPages \in Nat
  BY PagesAssumption
<1>2. IsFiniteSet(0 .. MaxPages - 1) /\ Cardinality(0 .. MaxPages - 1) = MaxPages
  <2>1. 0 \in Int /\ MaxPages - 1 \in Int /\ 0 <= MaxPages - 1 + 1
        /\ MaxPages - 1 - 0 + 1 = MaxPages
    BY <1>1
  <2> QED BY <2>1, FS_Interval
<1> QED BY <1>2, FS_Subset DEF PagesTypeOK

LEMMA PlacedOrder ==
  ASSUME NEW n, NEW c, NEW a, NEW w, NEW b, NEW R,
         Numbers(c, n, next, Pages), Placed(c, n, a, w, b, R)
  PROVE  /\ n \in Nat /\ n > 0 /\ a \in Nat /\ w \in Nat /\ b \in Nat /\ R \in Nat
         /\ GivenBack <= a /\ a <= w /\ w + Published <= b /\ b < n
         /\ GivenBack \in {0, 1} /\ Published \in {0, 1}
BY DEF Placed, Numbers, Published, GivenBack

\* The writer.
LEMMA LookKeeps ==
  ASSUME PagesTypeOK, NEW n, NEW c, NEW a, NEW w, NEW b, NEW R,
         Numbers(c, n, next, Pages), Placed(c, n, a, w, b, R), WriteLockLook
  PROVE  PagesInv'
<1>1. PagesTypeOK'
  BY DEF PagesTypeOK, WriteLockLook, Pages
<1>2. Published = 0 /\ Published' = 0 /\ GivenBack' = GivenBack
  BY DEF WriteLockLook, Published, GivenBack
<1>3. writer' = "look" => b + 1 < n
  <2>1. n \in Nat /\ b \in 0 .. n - 1
    BY PlacedOrder
  <2>2. next[c[b]] = c[b + 1]
    BY <2>1 DEF Numbers
  <2>3. b < n /\ n \in Nat /\ b \in Nat
    BY PlacedOrder
  <2>4. writer' = "look" => c[b + 1] # c[0]
    <3>1. writer' = "look" => ~NextIsRead
      BY DEF WriteLockLook
    <3>2. writeAheadPointer = c[b] /\ readPointer = c[0]
      BY DEF Placed
    <3> QED BY <2>2, <3>1, <3>2 DEF NextIsRead
  <2>5. c[n] = c[0]
    BY DEF Numbers
  <2> QED BY <2>3, <2>4, <2>5
<1>4. Numbers(c, n, next', Pages')
  BY DEF WriteLockLook, Pages
<1>5. Placed(c, n, a, w, b, R)'
  BY <1>2, <1>3 DEF Placed, WriteLockLook
<1> QED BY <1>1, <1>4, <1>5 DEF PagesInv, InPlace

LEMMA CancelWriteKeeps ==
  ASSUME PagesTypeOK, NEW n, NEW c, NEW a, NEW w, NEW b, NEW R,
         Numbers(c, n, next, Pages), Placed(c, n, a, w, b, R),
         NEW page \in Pages, CancelWriteLock(page)
  PROVE  PagesInv'
<1>1. PagesTypeOK'
  BY DEF PagesTypeOK, CancelWriteLock, Pages
<1>2. Published = 0 /\ Published' = Published /\ GivenBack' = GivenBack
  BY DEF CancelWriteLock, Published, GivenBack
<1>3. PICK j \in 0 .. n - 1 : c[j] = page
  BY DEF Numbers
<1>4. n \in Nat /\ w \in 0 .. n - 1 /\ b \in 0 .. n - 1
  BY PlacedOrder
<1>5. w <= j /\ j < b
  <2>1. /\ Between(c[w], c[j]) = IF w <= j THEN j - w ELSE j + n - w
        /\ Between(c[w], c[b]) = IF w <= b THEN b - w ELSE b + n - w
    BY <1>3, <1>4, BetweenIs, PagesFinite
  <2>2. Between(c[w], c[j]) < Between(c[w], c[b]) /\ w <= b
    BY <1>2, <1>3 DEF CancelWriteLock, Placed
  <2> QED BY <1>3, <1>4, <2>1, <2>2
<1>6. Numbers(c, n, next', Pages')
  BY DEF CancelWriteLock, Pages
<1>7. Placed(c, n, a, w, j, R)'
  BY <1>2, <1>3, <1>4, <1>5 DEF Placed, CancelWriteLock
<1> QED BY <1>1, <1>6, <1>7 DEF PagesInv, InPlace

LEMMA WriteUnlockKeeps ==
  ASSUME PagesTypeOK, NEW n, NEW c, NEW a, NEW w, NEW b, NEW R,
         Numbers(c, n, next, Pages), Placed(c, n, a, w, b, R), WriteUnlock
  PROVE  PagesInv'
<1>1. PagesTypeOK'
  BY DEF PagesTypeOK, WriteUnlock, Pages
<1>2. Published = 0 /\ Published' = 1 /\ GivenBack' = GivenBack
  BY DEF WriteUnlock, Published, GivenBack
<1>3. w < b
  BY <1>2 DEF WriteUnlock, Placed
<1>4. writeCount' = (R + w + 1) % CountModulus
  <2>1. writeCount = (R + w) % CountModulus /\ R + w \in Int
    BY <1>2 DEF Placed
  <2> QED BY <2>1, PagesAssumption, ModAdds DEF WriteUnlock
<1>5. Numbers(c, n, next', Pages')
  BY DEF WriteUnlock, Pages
<1>6. \A i \in 0 .. n - 1 : GivenBack <= i /\ i < w + 1 => c[i] \in readyToRead'
  <2> SUFFICES ASSUME NEW i \in 0 .. n - 1, GivenBack <= i, i < w + 1
               PROVE  c[i] \in readyToRead'
    OBVIOUS
  <2>1. w \in Nat /\ n \in Nat /\ writePointer = c[w]
    BY PlacedOrder DEF Placed
  <2>2. CASE i < w
    BY <1>2, <2>1, <2>2 DEF Placed, WriteUnlock
  <2>3. CASE i = w
    BY <2>1, <2>3 DEF WriteUnlock
  <2> QED BY <2>1, <2>2, <2>3
<1>7. Placed(c, n, a, w, b, R)'
  BY <1>2, <1>3, <1>4, <1>6 DEF Placed, WriteUnlock
<1> QED BY <1>1, <1>5, <1>7 DEF PagesInv, InPlace

LEMMA WriteMoveKeeps ==
  ASSUME PagesTypeOK, NEW n, NEW c, NEW a, NEW w, NEW b, NEW R,
         Numbers(c, n, next, Pages), Placed(c, n, a, w, b, R), WriteUnlockMove
  PROVE  PagesInv'
<1>1. PagesTypeOK'
  BY DEF PagesTypeOK, WriteUnlockMove, Pages
<1>2. Published = 1 /\ Published' = 0 /\ GivenBack' = GivenBack
  BY DEF WriteUnlockMove, Published, GivenBack
<1>3. writePointer' = c[w + 1]
  <2>1. w \in 0 .. n - 1
    BY PlacedOrder
  <2>2. next[c[w]] = c[w + 1] /\ writePointer = c[w]
    BY <2>1 DEF Placed, Numbers
  <2> QED BY <2>2 DEF WriteUnlockMove
<1>4. Numbers(c, n, next', Pages')
  BY DEF WriteUnlockMove, Pages
<1>5. Placed(c, n, a, w + 1, b, R)'
  BY <1>2, <1>3 DEF Placed, WriteUnlockMove
<1> QED BY <1>1, <1>4, <1>5 DEF PagesInv, InPlace

\* The reader.
LEMMA ReadLockKeeps ==
  ASSUME PagesTypeOK, NEW n, NEW c, NEW a, NEW w, NEW b, NEW R,
         Numbers(c, n, next, Pages), Placed(c, n, a, w, b, R), ReadLock
  PROVE  PagesInv'
<1>1. PagesTypeOK'
  BY DEF PagesTypeOK, ReadLock, Pages
<1>2. GivenBack = 0 /\ GivenBack' = 0 /\ Published' = Published /\ Published \in {0, 1}
  BY DEF ReadLock, Published, GivenBack
<1>3. a < w
  BY PlacedOrder DEF ReadLock, Placed
<1>4. readAheadPointer' = c[a + 1]
  <2>1. a \in 0 .. n - 1
    BY PlacedOrder
  <2>2. next[c[a]] = c[a + 1] /\ readAheadPointer = c[a]
    BY <2>1 DEF Placed, Numbers
  <2> QED BY <2>2 DEF ReadLock
<1>5. Numbers(c, n, next', Pages')
  BY DEF ReadLock, Pages
<1>6. Placed(c, n, a + 1, w, b, R)'
  BY <1>2, <1>3, <1>4 DEF Placed, ReadLock
<1> QED BY <1>1, <1>5, <1>6 DEF PagesInv, InPlace

LEMMA CancelReadKeeps ==
  ASSUME PagesTypeOK, NEW n, NEW c, NEW a, NEW w, NEW b, NEW R,
         Numbers(c, n, next, Pages), Placed(c, n, a, w, b, R),
         NEW page \in Pages, CancelReadLock(page)
  PROVE  PagesInv'
<1>1. PagesTypeOK'
  BY DEF PagesTypeOK, CancelReadLock, Pages
<1>2. GivenBack = 0 /\ GivenBack' = 0 /\ Published' = Published /\ Published \in {0, 1}
  BY DEF CancelReadLock, Published, GivenBack
<1>3. PICK j \in 0 .. n - 1 : c[j] = page
  BY DEF Numbers
<1>4. n \in Nat /\ 0 \in 0 .. n - 1 /\ a \in 0 .. n - 1
  BY PlacedOrder
<1>5. j < a
  <2>1. /\ Between(c[0], c[j]) = IF 0 <= j THEN j - 0 ELSE j + n - 0
        /\ Between(c[0], c[a]) = IF 0 <= a THEN a - 0 ELSE a + n - 0
    BY <1>3, <1>4, BetweenIs, PagesFinite
  <2>2. Between(c[0], c[j]) < Between(c[0], c[a])
    BY <1>2, <1>3 DEF CancelReadLock, Placed
  <2> QED BY <1>3, <1>4, <2>1, <2>2
<1>6. Numbers(c, n, next', Pages')
  BY DEF CancelReadLock, Pages
<1>7. Placed(c, n, j, w, b, R)'
  BY <1>2, <1>3, <1>4, <1>5 DEF Placed, CancelReadLock
<1> QED BY <1>1, <1>6, <1>7 DEF PagesInv, InPlace

LEMMA ReadUnlockKeeps ==
  ASSUME PagesTypeOK, NEW n, NEW c, NEW a, NEW w, NEW b, NEW R,
         Numbers(c, n, next, Pages), Placed(c, n, a, w, b, R), ReadUnlock
  PROVE  PagesInv'
<1>1. PagesTypeOK'
  BY DEF PagesTypeOK, ReadUnlock, Pages
<1>2. GivenBack = 0 /\ GivenBack' = 1 /\ Published' = Published /\ Published \in {0, 1}
  BY DEF ReadUnlock, Published, GivenBack
<1>3. 1 <= a
  BY DEF ReadUnlock, Placed
<1>4. readCount' = (R + 1) % CountModulus
  <2>1. readCount = R % CountModulus /\ R \in Int
    BY <1>2 DEF Placed
  <2> QED BY <2>1, PagesAssumption, ModAdds DEF ReadUnlock
<1>5. Numbers(c, n, next', Pages')
  BY DEF ReadUnlock, Pages
<1>6. \A i \in 0 .. n - 1 : 1 <= i /\ i < w + Published => c[i] \in readyToRead'
  <2> SUFFICES ASSUME NEW i \in 0 .. n - 1, 1 <= i, i < w + Published
               PROVE  c[i] \in readyToRead'
    OBVIOUS
  <2>1. c[i] \in readyToRead
    BY <1>2 DEF Placed
  <2>2. c[i] # c[0]
    BY DEF Numbers
  <2> QED BY <2>1, <2>2 DEF ReadUnlock, Placed
<1>7. Placed(c, n, a, w, b, R)'
  BY <1>2, <1>3, <1>4, <1>6 DEF Placed, ReadUnlock
<1> QED BY <1>1, <1>5, <1>7 DEF PagesInv, InPlace
LEMMA ReadMoveKeeps ==
  ASSUME PagesTypeOK, NEW n, NEW c, NEW a, NEW w, NEW b, NEW R,
         Numbers(c, n, next, Pages), Placed(c, n, a, w, b, R), ReadUnlockMove
  PROVE  PagesInv'
<1> DEFINE d == [i \in 0 .. n |-> IF i = n THEN c[1] ELSE c[i + 1]]
<1>1. PagesTypeOK'
  BY DEF PagesTypeOK, ReadUnlockMove, Pages
<1>2. GivenBack = 1 /\ GivenBack' = 0 /\ Published' = Published /\ Published \in {0, 1}
  BY DEF ReadUnlockMove, Published, GivenBack
<1>3. /\ n \in Nat /\ a \in Nat /\ w \in Nat /\ b \in Nat /\ R \in Nat
      /\ 1 <= a /\ a <= w /\ w + Published <= b /\ b < n
  BY <1>2, PlacedOrder
<1>4. Numbers(d, n, next, Pages)
  <2>1. /\ c \in [0 .. n -> Pages] /\ c[n] = c[0]
        /\ \A i \in 0 .. n - 1 : next[c[i]] = c[i + 1]
        /\ \A i, j \in 0 .. n - 1 : c[i] = c[j] => i = j
        /\ \A p \in Pages : \E i \in 0 .. n - 1 : c[i] = p
    BY DEF Numbers
  <2>2. d \in [0 .. n -> Pages] /\ d[n] = d[0]
    BY <1>3, <2>1
  <2>3. \A i \in 0 .. n - 1 : next[d[i]] = d[i + 1]
    <3> SUFFICES ASSUME NEW i \in 0 .. n - 1 PROVE next[d[i]] = d[i + 1]
      OBVIOUS
    <3>1. CASE i + 1 = n
      <4>1. d[i] = c[0] /\ d[i + 1] = c[1] /\ 0 \in 0 .. n - 1
        BY <1>3, <2>1, <3>1
      <4> QED BY <2>1, <4>1
    <3>2. CASE i + 1 # n
      <4>1. i + 1 \in 0 .. n - 1 /\ d[i] = c[i + 1] /\ d[i + 1] = c[(i + 1) + 1]
        BY <1>3, <3>2
      <4> QED BY <2>1, <4>1
    <3> QED BY <3>1, <3>2
  <2>4. ASSUME NEW i \in 0 .. n - 1, NEW j \in 0 .. n - 1, d[i] = d[j] PROVE i = j
    <3>1. \A k \in 0 .. n - 1 : \E x \in 0 .. n - 1 :
            d[k] = c[x] /\ x = IF k + 1 = n THEN 0 ELSE k + 1
      <4> SUFFICES ASSUME NEW k \in 0 .. n - 1
                   PROVE  \E x \in 0 .. n - 1 :
                            d[k] = c[x] /\ x = IF k + 1 = n THEN 0 ELSE k + 1
        OBVIOUS
      <4>1. CASE k + 1 = n
        <5>1. k \in 0 .. n /\ k # n /\ 0 \in 0 .. n - 1
          BY <1>3
        <5>2. d[k] = c[k + 1]
          BY <5>1
        <5>3. d[k] = c[0]
          BY <2>1, <4>1, <5>2
        <5> QED BY <4>1, <5>1, <5>3
      <4>2. CASE k + 1 # n
        <5>1. d[k] = c[k + 1] /\ k + 1 \in 0 .. n - 1
          BY <1>3, <2>1, <4>2
        <5> QED BY <4>2, <5>1
      <4> QED BY <4>1, <4>2
    <3>2. PICK x \in 0 .. n - 1 : d[i] = c[x] /\ x = IF i + 1 = n THEN 0 ELSE i + 1
      BY <3>1
    <3>3. PICK y \in 0 .. n - 1 : d[j] = c[y] /\ y = IF j + 1 = n THEN 0 ELSE j + 1
      BY <3>1
    <3>4. x = y
      BY <2>1, <2>4, <3>2, <3>3
    <3> QED BY <1>3, <3>2, <3>3, <3>4
  <2>5. ASSUME NEW p \in Pages PROVE \E i \in 0 .. n - 1 : d[i] = p
    <3>1. PICK i \in 0 .. n - 1 : c[i] = p
      BY <2>1
    <3>2. CASE i = 0
      <4>1. n - 1 \in 0 .. n - 1 /\ d[n - 1] = c[n]
        BY <1>3
      <4> QED BY <2>1, <3>1, <3>2, <4>1
    <3>3. CASE i # 0
      <4>1. i - 1 \in 0 .. n - 1 /\ d[i - 1] = c[i]
        BY <1>3, <3>3
      <4> QED BY <3>1, <4>1
    <3> QED BY <3>2, <3>3
  <2> HIDE DEF d
  <2> QED BY <1>3, <2>2, <2>3, <2>4, <2>5 DEF Numbers
<1>5. \A i \in 0 .. n - 1 : i + 1 \in 0 .. n /\ d[i] = c[i + 1]
  BY <1>3
<1> HIDE DEF d
<1>6. a - 1 \in 0 .. n - 1 /\ w - 1 \in 0 .. n - 1 /\ b - 1 \in 0 .. n - 1 /\ 0 \in 0 .. n - 1
  BY <1>2, <1>3
<1>7. /\ readPointer' = d[0] /\ readAheadPointer' = d[a - 1]
      /\ writePointer' = d[w - 1] /\ writeAheadPointer' = d[b - 1]
  <2>1. d[0] = c[0 + 1] /\ d[a - 1] = c[a] /\ d[w - 1] = c[w] /\ d[b - 1] = c[b]
    BY <1>3, <1>5, <1>6
  <2>2. next[c[0]] = c[0 + 1]
    BY <1>6 DEF Numbers
  <2> QED BY <2>1, <2>2 DEF Placed, ReadUnlockMove
<1>8. \A i \in 0 .. n - 1 : i < w - 1 + Published => d[i] \in readyToRead
  <2> SUFFICES ASSUME NEW i \in 0 .. n - 1, i < w - 1 + Published PROVE d[i] \in readyToRead
    OBVIOUS
  <2>1. i + 1 \in 0 .. n - 1 /\ 1 <= i + 1 /\ i + 1 < w + Published
    BY <1>2, <1>3
  <2> QED BY <1>2, <1>5, <2>1 DEF Placed
<1>9. \A i \in 0 .. (b - 1) - 1 : object[d[i]] = ((R + 1) + i) % CountModulus
  <2> SUFFICES ASSUME NEW i \in 0 .. (b - 1) - 1
               PROVE  object[d[i]] = ((R + 1) + i) % CountModulus
    OBVIOUS
  <2>1. i \in 0 .. n - 1 /\ i + 1 \in 0 .. b - 1 /\ (R + 1) + i = R + (i + 1)
    BY <1>3
  <2> QED BY <1>5, <2>1 DEF Placed
<1>10. /\ readCount' = ((R + 1) + 0) % CountModulus
       /\ writeCount' = ((R + 1) + (w - 1) + Published) % CountModulus
  <2>1. (R + 1) + 0 = R + 1 /\ (R + 1) + (w - 1) + Published = R + w + Published
    BY <1>2, <1>3
  <2> QED BY <1>2, <2>1 DEF Placed, ReadUnlockMove
<1>11. Placed(d, n, a - 1, w - 1, b - 1, R + 1)'
  <2>1. /\ a - 1 \in Nat /\ w - 1 \in Nat /\ b - 1 \in Nat /\ R + 1 \in Nat
        /\ 0 <= a - 1 /\ a - 1 <= w - 1 /\ w - 1 + Published <= b - 1 /\ b - 1 < n
    BY <1>2, <1>3
  <2>2. n >= MINIMUM_LIST_SIZE /\ (writer = "look" => b - 1 + 1 < n)
    BY <1>3 DEF Placed
  <2>3. object' = object /\ readyToRead' = readyToRead /\ writer' = writer
    BY DEF ReadUnlockMove
  <2> QED BY <1>2, <1>7, <1>8, <1>9, <1>10, <2>1, <2>2, <2>3 DEF Placed
<1>12. Numbers(d, n, next', Pages')
  BY <1>4 DEF ReadUnlockMove, Pages
<1> QED BY <1>1, <1>11, <1>12 DEF PagesInv, InPlace
\* WriteLock: the writer goes on to the next page, or puts one before it.
LEMMA LockedValue ==
  ASSUME PagesTypeOK, NEW n, NEW c, NEW a, NEW w, NEW b, NEW R,
         Numbers(c, n, next, Pages), Placed(c, n, a, w, b, R), writer # "publish"
  PROVE  (writeCount + Between(writePointer, writeAheadPointer)) % CountModulus
           = (R + b) % CountModulus
<1>1. /\ n \in Nat /\ w \in 0 .. n - 1 /\ b \in 0 .. n - 1 /\ w <= b /\ R \in Nat
      /\ writeCount = (R + w) % CountModulus
  <2>1. Published = 0
    BY DEF Published
  <2>2. n \in Nat /\ w \in 0 .. n - 1 /\ b \in 0 .. n - 1 /\ w <= b /\ R \in Nat
    BY <2>1, PlacedOrder
  <2>3. R + w + Published = R + w
    BY <2>1, <2>2
  <2> QED BY <2>2, <2>3 DEF Placed
<1>2. Between(writePointer, writeAheadPointer) = b - w
  <2>1. Between(c[w], c[b]) = IF w <= b THEN b - w ELSE b + n - w
    BY <1>1, BetweenIs, PagesFinite
  <2> QED BY <1>1, <2>1 DEF Placed
<1>3. (((R + w) % CountModulus) + (b - w)) % CountModulus = ((R + w) + (b - w)) % CountModulus
  <2>1. R + w \in Int /\ b - w \in Int
    BY <1>1
  <2> QED BY <2>1, PagesAssumption, ModAdds
<1>4. (R + w) + (b - w) = R + b
  BY <1>1
<1> QED BY <1>1, <1>2, <1>3, <1>4

LEMMA TakeNextKeeps ==
  ASSUME PagesTypeOK, NEW n, NEW c, NEW a, NEW w, NEW b, NEW R,
         Numbers(c, n, next, Pages), Placed(c, n, a, w, b, R), WriteLockTake,
         ~(writer = "full" \/ next[writeAheadPointer] \in readyToRead)
  PROVE  PagesInv'
<1>1. writer = "look" /\ writer' = "idle"
  BY DEF WriteLockTake
<1>2. Published = 0 /\ Published' = 0 /\ GivenBack' = GivenBack /\ GivenBack \in {0, 1}
  BY <1>1 DEF WriteLockTake, Published, GivenBack
<1>3. /\ n \in Nat /\ a \in Nat /\ w \in Nat /\ b \in Nat /\ R \in Nat
      /\ a <= w /\ w <= b /\ b + 1 < n
  <2>1. b + 1 < n
    BY <1>1 DEF Placed
  <2> QED BY <1>2, <2>1, PlacedOrder
<1>4. b \in 0 .. n - 1 /\ b + 1 \in 0 .. n /\ c[b] \in Pages /\ next[c[b]] = c[b + 1]
  BY <1>3 DEF Numbers
<1> DEFINE value == (R + b) % CountModulus
<1>5. /\ writeAheadPointer' = c[b + 1] /\ next' = next
      /\ object' = [object EXCEPT ![c[b]] = value]
      /\ readyToRead' = readyToRead /\ readAheadPointer' = readAheadPointer
      /\ readPointer' = readPointer /\ writePointer' = writePointer
      /\ readCount' = readCount /\ writeCount' = writeCount /\ reader' = reader
  <2>1. (writeCount + Between(writePointer, writeAheadPointer)) % CountModulus = value
    BY <1>1, LockedValue
  <2>2. writeAheadPointer = c[b]
    BY DEF Placed
  <2> HIDE DEF value
  <2> QED BY <1>4, <2>1, <2>2 DEF WriteLockTake
<1>6. value \in Int
  BY <1>3, PagesAssumption, ModIs
<1> HIDE DEF value
<1>7. PagesTypeOK'
  BY <1>1, <1>5, <1>6 DEF PagesTypeOK, Pages
<1>8. \A i \in 0 .. (b + 1) - 1 : object'[c[i]] = (R + i) % CountModulus
  <2> SUFFICES ASSUME NEW i \in 0 .. (b + 1) - 1
               PROVE  object'[c[i]] = (R + i) % CountModulus
    OBVIOUS
  <2>1. CASE i = b
    BY <1>4, <1>5, <2>1 DEF PagesTypeOK, value
  <2>2. CASE i # b
    <3>1. i \in 0 .. b - 1 /\ i \in 0 .. n - 1
      BY <1>3, <2>2
    <3>2. c[i] # c[b]
      BY <1>4, <2>2, <3>1 DEF Numbers
    <3>3. object'[c[i]] = object[c[i]]
      BY <1>5, <3>2 DEF PagesTypeOK
    <3> QED BY <3>1, <3>3 DEF Placed
  <2> QED BY <2>1, <2>2
<1>9. Placed(c, n, a, w, b + 1, R)'
  BY <1>1, <1>2, <1>3, <1>5, <1>8 DEF Placed
<1>10. Numbers(c, n, next', Pages')
  BY <1>5 DEF Pages
<1> QED BY <1>7, <1>9, <1>10 DEF PagesInv, InPlace
\* A page put between those of number b and b + 1.
NumbersWith(c, n, b, page) ==
  [i \in 0 .. n + 1 |-> IF i <= b THEN c[i] ELSE IF i = b + 1 THEN page ELSE c[i - 1]]
AfterWith(P, after, last, page) ==
  [p \in P \union {page} |-> IF p = last THEN page ELSE IF p = page THEN after[last] ELSE after[p]]

LEMMA InsertNumbers ==
  ASSUME NEW P, NEW after, NEW n, NEW c, Numbers(c, n, after, P), NEW page, page \notin P,
         NEW b \in 0 .. n - 1
  PROVE  Numbers(NumbersWith(c, n, b, page), n + 1, AfterWith(P, after, c[b], page), P \union {page})
<1> DEFINE d == NumbersWith(c, n, b, page)
           Q == P \union {page}
           then == AfterWith(P, after, c[b], page)
<1> USE DEF NumbersWith, AfterWith
<1>0. n \in Nat /\ n > 0
  BY DEF Numbers
<1>1. /\ n \in Nat /\ n > 0 /\ c \in [0 .. n -> P] /\ c[n] = c[0]
      /\ \A i \in 0 .. n - 1 : after[c[i]] = c[i + 1]
      /\ \A i, j \in 0 .. n - 1 : c[i] = c[j] => i = j
      /\ \A p \in P : \E i \in 0 .. n - 1 : c[i] = p
  BY DEF Numbers
<1>2. /\ \A i \in 0 .. b : i \in 0 .. n - 1 /\ d[i] = c[i]
      /\ d[b + 1] = page
      /\ \A i \in b + 2 .. n + 1 : i - 1 \in b + 1 .. n /\ d[i] = c[i - 1]
  <2>1. ASSUME NEW i \in 0 .. b PROVE i \in 0 .. n - 1 /\ d[i] = c[i]
    BY <1>1
  <2>2. d[b + 1] = page
    <3>1. b + 1 \in 0 .. n + 1 /\ ~(b + 1 <= b)
      BY <1>0
    <3> QED BY <3>1
  <2>3. ASSUME NEW i \in b + 2 .. n + 1 PROVE i - 1 \in b + 1 .. n /\ d[i] = c[i - 1]
    <3>1. i \in 0 .. n + 1 /\ ~(i <= b) /\ i # b + 1 /\ i - 1 \in b + 1 .. n
      BY <1>0
    <3> QED BY <3>1
  <2> QED BY <2>1, <2>2, <2>3
<1>3. d \in [0 .. n + 1 -> Q]
  <2>1. ASSUME NEW i \in 0 .. n + 1 PROVE d[i] \in Q
    <3>1. CASE i <= b
      <4>1. i \in 0 .. n /\ d[i] = c[i]
        BY <1>0, <3>1
      <4> QED BY <1>1, <4>1
    <3>2. CASE i = b + 1
      BY <1>2, <3>2
    <3>3. CASE ~(i <= b) /\ i # b + 1
      <4>1. i - 1 \in 0 .. n /\ d[i] = c[i - 1]
        BY <1>0, <3>3
      <4> QED BY <1>1, <4>1
    <3> QED BY <3>1, <3>2, <3>3
  <2> QED BY <2>1
<1> HIDE DEF d
<1>4. d[n + 1] = d[0]
  <2>1. CASE b = n - 1
    <3>1. n + 1 \in b + 2 .. n + 1 /\ (n + 1) - 1 = n /\ 0 \in 0 .. b
      BY <1>0, <2>1
    <3> QED BY <1>1, <1>2, <3>1
  <2>2. CASE b # n - 1
    <3>1. n + 1 \in b + 2 .. n + 1 /\ (n + 1) - 1 = n /\ 0 \in 0 .. b
      BY <1>0, <2>2
    <3> QED BY <1>1, <1>2, <3>1
  <2> QED BY <2>1, <2>2
<1>5. ASSUME NEW i \in 0 .. (n + 1) - 1 PROVE then[d[i]] = d[i + 1]
  <2>1. CASE i < b
    <3>1. i \in 0 .. b /\ i + 1 \in 0 .. b /\ i \in 0 .. n - 1 /\ i # b
      BY <1>0, <2>1
    <3>2. d[i] = c[i] /\ d[i + 1] = c[i + 1] /\ c[i] \in P
      BY <1>1, <1>2, <3>1, SMTT(30)
    <3>3. c[i] # c[b] /\ c[i] # page
      BY <1>1, <3>1, <3>2
    <3> QED BY <1>1, <3>1, <3>2, <3>3
  <2>2. CASE i = b
    <3>1. d[i] = c[b] /\ d[i + 1] = page /\ c[b] \in Q
      BY <1>1, <1>2, <2>2
    <3> QED BY <3>1
  <2>3. CASE i = b + 1
    <3>1. b + 2 \in b + 2 .. n + 1 /\ (b + 2) - 1 = b + 1 /\ i + 1 = b + 2
      BY <1>0, <2>3
    <3>2. d[i] = page /\ d[i + 1] = c[b + 1]
      BY <1>2, <2>3, <3>1
    <3>3. page # c[b] /\ page \in Q /\ after[c[b]] = c[b + 1]
      BY <1>1
    <3> QED BY <3>2, <3>3
  <2>4. CASE i > b + 1
    <3>1. /\ i \in b + 2 .. n + 1 /\ i + 1 \in b + 2 .. n + 1 /\ i - 1 \in 0 .. n - 1
          /\ i - 1 # b /\ (i - 1) + 1 = i /\ (i + 1) - 1 = i
      BY <1>0, <2>4
    <3>2. d[i] = c[i - 1] /\ d[i + 1] = c[i] /\ c[i - 1] \in P
      <4>1. d[i] = c[i - 1]
        BY <1>2, <3>1
      <4>2. d[i + 1] = c[(i + 1) - 1]
        BY <1>2, <3>1
      <4>3. c[i - 1] \in P
        BY <1>1, <3>1
      <4> QED BY <3>1, <4>1, <4>2, <4>3
    <3>3. c[i - 1] # c[b] /\ c[i - 1] # page
      BY <1>1, <3>1, <3>2
    <3>4. after[c[i - 1]] = c[i]
      <4>1. after[c[i - 1]] = c[(i - 1) + 1]
        BY <1>1, <3>1
      <4> QED BY <3>1, <4>1
    <3> QED BY <3>2, <3>3, <3>4
  <2> HIDE DEF then, NumbersWith, AfterWith
  <2> QED BY <1>1, <2>1, <2>2, <2>3, <2>4
<1>6. \A i \in 0 .. (n + 1) - 1 :
        \/ i = b + 1 /\ d[i] = page
        \/ i # b + 1 /\ \E x \in 0 .. n - 1 : d[i] = c[x] /\ x = IF i <= b THEN i ELSE i - 1
  <2> SUFFICES ASSUME NEW i \in 0 .. (n + 1) - 1, i # b + 1
               PROVE  \E x \in 0 .. n - 1 : d[i] = c[x] /\ x = IF i <= b THEN i ELSE i - 1
    BY <1>2
  <2>1. CASE i <= b
    BY <1>0, <1>2, <2>1
  <2>2. CASE ~(i <= b)
    <3>1. i \in b + 2 .. n + 1 /\ i - 1 \in 0 .. n - 1
      BY <1>0, <2>2
    <3> QED BY <1>2, <2>2, <3>1
  <2> QED BY <2>1, <2>2
<1>7. ASSUME NEW i \in 0 .. (n + 1) - 1, NEW j \in 0 .. (n + 1) - 1, d[i] = d[j] PROVE i = j
  <2>1. CASE i = b + 1 \/ j = b + 1
    <3>1. \A k \in 0 .. (n + 1) - 1 : d[k] = page => k = b + 1
      <4> SUFFICES ASSUME NEW k \in 0 .. (n + 1) - 1, k # b + 1 PROVE d[k] # page
        OBVIOUS
      <4>1. PICK x \in 0 .. n - 1 : d[k] = c[x]
        BY <1>6
      <4>2. c[x] \in P
        BY <1>1
      <4> QED BY <4>1, <4>2
    <3>2. d[i] = page /\ d[j] = page
      BY <1>2, <1>7, <2>1
    <3> QED BY <3>1, <3>2
  <2>2. CASE i # b + 1 /\ j # b + 1
    <3>1. PICK x \in 0 .. n - 1 : d[i] = c[x] /\ x = IF i <= b THEN i ELSE i - 1
      BY <1>6, <2>2
    <3>2. PICK y \in 0 .. n - 1 : d[j] = c[y] /\ y = IF j <= b THEN j ELSE j - 1
      BY <1>6, <2>2
    <3>3. c[x] = c[y]
      BY <1>7, <3>1, <3>2
    <3>4. x = y
      BY <1>1, <3>3
    <3>5. i \in Int /\ j \in Int /\ b \in Int
      BY <1>0
    <3> QED BY <2>2, <3>1, <3>2, <3>4, <3>5
  <2> QED BY <2>1, <2>2
<1>8. ASSUME NEW p \in Q PROVE \E i \in 0 .. (n + 1) - 1 : d[i] = p
  <2>1. CASE p = page
    <3>1. b + 1 \in 0 .. (n + 1) - 1
      BY <1>0
    <3> QED BY <1>2, <2>1, <3>1
  <2>2. CASE p \in P
    <3>1. PICK x \in 0 .. n - 1 : c[x] = p
      BY <1>1, <2>2
    <3>2. CASE x <= b
      <4>1. x \in 0 .. b /\ x \in 0 .. (n + 1) - 1
        BY <1>0, <3>2
      <4> QED BY <1>2, <3>1, <4>1
    <3>3. CASE ~(x <= b)
      <4>1. x + 1 \in b + 2 .. n + 1 /\ x + 1 \in 0 .. (n + 1) - 1 /\ (x + 1) - 1 = x
        BY <1>0, <3>3
      <4> QED BY <1>2, <3>1, <4>1
    <3> QED BY <3>2, <3>3
  <2> QED BY <2>1, <2>2
<1> HIDE DEF then, Q
<1>9. Numbers(d, n + 1, then, Q)
  BY <1>0, <1>3, <1>4, <1>5, <1>7, <1>8 DEF Numbers
<1> QED BY <1>9 DEF d, then, Q
LEMMA TakeNewKeeps ==
  ASSUME PagesTypeOK, NEW n, NEW c, NEW a, NEW w, NEW b, NEW R,
         Numbers(c, n, next, Pages), Placed(c, n, a, w, b, R), WriteLockTake,
         writer = "full" \/ next[writeAheadPointer] \in readyToRead
  PROVE  PagesInv'
<1> DEFINE last == c[b]
           value == (R + b) % CountModulus
<1>1. writer' = "idle" /\ writer # "publish"
  BY DEF WriteLockTake
<1>2. Published = 0 /\ Published' = 0 /\ GivenBack' = GivenBack /\ GivenBack \in {0, 1}
  BY <1>1 DEF WriteLockTake, Published, GivenBack
<1>3. /\ n \in Nat /\ a \in Nat /\ w \in Nat /\ b \in Nat /\ R \in Nat
      /\ GivenBack <= a /\ a <= w /\ w <= b /\ b < n
  BY <1>2, PlacedOrder
<1>4. b \in 0 .. n - 1 /\ last \in Pages /\ writeAheadPointer = last
  BY <1>3 DEF Numbers, Placed
<1>5. (writeCount + Between(writePointer, writeAheadPointer)) % CountModulus = value
  BY <1>1, LockedValue
<1>6. value \in Int
  BY <1>3, PagesAssumption, ModIs
<1> HIDE DEF value
<1>7. PICK page \in 0 .. MaxPages - 1 \ Pages :
        /\ next' = [p \in Pages \union {page} |->
                      IF p = last THEN page ELSE IF p = page THEN next[last] ELSE next[p]]
        /\ object' = [p \in Pages \union {page} |->
                        IF p = last THEN value ELSE IF p = page THEN 0 ELSE object[p]]
        /\ writeAheadPointer' = page
  BY <1>4, <1>5 DEF WriteLockTake
<1>8. /\ readyToRead' = readyToRead /\ readAheadPointer' = readAheadPointer
      /\ readPointer' = readPointer /\ writePointer' = writePointer
      /\ readCount' = readCount /\ writeCount' = writeCount /\ reader' = reader
  BY DEF WriteLockTake
<1>9. Pages' = Pages \union {page}
  BY <1>7 DEF Pages
<1>10. PagesTypeOK'
  BY <1>1, <1>4, <1>6, <1>7, <1>8, <1>9 DEF PagesTypeOK
<1> DEFINE d == NumbersWith(c, n, b, page)
<1>11. Numbers(d, n + 1, next', Pages')
  <2>1. page \notin Pages /\ next' = AfterWith(Pages, next, c[b], page)
    BY <1>7 DEF AfterWith
  <2>2. Numbers(d, n + 1, AfterWith(Pages, next, c[b], page), Pages \union {page})
    BY <1>4, <2>1, InsertNumbers
  <2> HIDE DEF d
  <2> QED BY <1>9, <2>1, <2>2
<1>12. /\ \A i \in 0 .. b : d[i] = c[i]
       /\ d[b + 1] = page
  <2>1. b + 1 \in 0 .. n + 1 /\ ~(b + 1 <= b)
    BY <1>3
  <2> QED BY <1>3, <2>1 DEF NumbersWith
<1> HIDE DEF d
<1>13. /\ readPointer' = d[0] /\ readAheadPointer' = d[a]
       /\ writePointer' = d[w] /\ writeAheadPointer' = d[b + 1]
  <2>1. 0 \in 0 .. b /\ a \in 0 .. b /\ w \in 0 .. b
    BY <1>2, <1>3
  <2> QED BY <1>7, <1>8, <1>12, <2>1 DEF Placed
<1>14. \A i \in 0 .. (n + 1) - 1 : GivenBack <= i /\ i < w => d[i] \in readyToRead
  <2> SUFFICES ASSUME NEW i \in 0 .. (n + 1) - 1, GivenBack <= i, i < w
               PROVE  d[i] \in readyToRead
    OBVIOUS
  <2>1. i \in 0 .. b /\ i \in 0 .. n - 1
    BY <1>3
  <2> QED BY <1>2, <1>12, <2>1 DEF Placed
<1>15. \A i \in 0 .. (b + 1) - 1 : object'[d[i]] = (R + i) % CountModulus
  <2> SUFFICES ASSUME NEW i \in 0 .. (b + 1) - 1
               PROVE  object'[d[i]] = (R + i) % CountModulus
    OBVIOUS
  <2>1. i \in 0 .. b /\ i \in 0 .. n - 1 /\ c[i] \in Pages
    <3>1. i \in 0 .. b /\ i \in 0 .. n - 1 /\ i \in 0 .. n
      BY <1>3
    <3> QED BY <3>1 DEF Numbers
  <2>2. CASE i = b
    BY <1>4, <1>7, <1>12, <2>1, <2>2 DEF value
  <2>3. CASE i # b
    <3>1. i \in 0 .. b - 1
      BY <1>3, <2>1, <2>3
    <3>2. c[i] # last /\ c[i] # page
      BY <1>4, <2>1, <2>3 DEF Numbers
    <3>3. object'[c[i]] = object[c[i]]
      BY <1>7, <2>1, <3>2
    <3> QED BY <1>12, <2>1, <3>1, <3>3 DEF Placed
  <2> QED BY <2>2, <2>3
<1>16. Placed(d, n + 1, a, w, b + 1, R)'
  <2>1. /\ b + 1 \in Nat /\ n + 1 >= MINIMUM_LIST_SIZE
        /\ GivenBack <= a /\ a <= w /\ w + 0 <= b + 1 /\ b + 1 < n + 1
    BY <1>3, PagesAssumption DEF Placed
  <2>2. readCount' = (R + GivenBack) % CountModulus /\ writeCount' = (R + w + 0) % CountModulus
    BY <1>2, <1>8 DEF Placed
  <2>3. w + 0 = w
    BY <1>3
  <2> QED BY <1>1, <1>2, <1>3, <1>8, <1>13, <1>14, <1>15, <2>1, <2>2, <2>3 DEF Placed
<1> QED BY <1>10, <1>11, <1>16 DEF PagesInv, InPlace

-----------------------------------------------------------------------------
\* Clear deletes the pages of numbers 1 to excess.
LEMMA DeleteNumbers ==
  ASSUME NEW P, NEW after, NEW n, NEW c, Numbers(c, n, after, P),
         NEW excess \in 0 .. n - 2, NEW kept, kept = P \ {c[k] : k \in 1 .. excess}
  PROVE  Numbers([i \in 0 .. n - excess |-> IF i = 0 THEN c[0] ELSE c[i + excess]], n - excess,
                 [p \in kept |-> IF p = c[0] THEN c[excess + 1] ELSE after[p]], kept)
<1> DEFINE m == n - excess
           d == [i \in 0 .. m |-> IF i = 0 THEN c[0] ELSE c[i + excess]]
           then == [p \in kept |-> IF p = c[0] THEN c[excess + 1] ELSE after[p]]
<1>0. n \in Nat /\ n > 0
  BY DEF Numbers
<1>1. /\ n \in Nat /\ n > 0 /\ c \in [0 .. n -> P] /\ c[n] = c[0]
      /\ \A i \in 0 .. n - 1 : after[c[i]] = c[i + 1]
      /\ \A i, j \in 0 .. n - 1 : c[i] = c[j] => i = j
      /\ \A p \in P : \E i \in 0 .. n - 1 : c[i] = p
  BY DEF Numbers
<1>2. excess \in Nat /\ m \in Nat /\ m >= 2 /\ m + excess = n
  BY <1>0
<1>3. d[0] = c[0] /\ \A i \in 1 .. m : i + excess \in excess + 1 .. n /\ d[i] = c[i + excess]
  BY <1>1, <1>2
<1>4. \A x \in 0 .. n - 1 : c[x] \in kept <=> x = 0 \/ x > excess
  <2> SUFFICES ASSUME NEW x \in 0 .. n - 1 PROVE c[x] \in kept <=> x = 0 \/ x > excess
    OBVIOUS
  <2>1. c[x] \in P
    BY <1>1
  <2>2. CASE x = 0 \/ x > excess
    <3>1. ASSUME NEW k \in 1 .. excess PROVE c[k] # c[x]
      BY <1>1, <1>2, <2>2
    <3> QED BY <2>1, <2>2, <3>1
  <2>3. CASE ~(x = 0 \/ x > excess)
    <3>1. x \in 1 .. excess
      BY <1>0, <1>2, <2>3
    <3> QED BY <2>3, <3>1
  <2> QED BY <2>2, <2>3
<1> HIDE DEF d
<1>5. d \in [0 .. m -> kept]
  <2>1. ASSUME NEW i \in 0 .. m PROVE d[i] \in kept
    <3>1. 0 \in 0 .. n - 1 /\ c[n] = c[0]
      BY <1>1
    <3>2. CASE i = 0
      BY <1>3, <1>4, <3>1, <3>2
    <3>3. CASE i = m
      BY <1>2, <1>3, <1>4, <3>1, <3>3
    <3>4. CASE i # 0 /\ i # m
      <4>1. i \in 1 .. m /\ i + excess \in 0 .. n - 1 /\ i + excess > excess
        BY <1>0, <1>2, <3>4
      <4> QED BY <1>3, <1>4, <4>1
    <3> QED BY <3>2, <3>3, <3>4
  <2> QED BY <2>1 DEF d
<1>6. d[m] = d[0]
  <2>1. m \in 1 .. m
    BY <1>2
  <2> QED BY <1>1, <1>2, <1>3, <2>1
<1>7. ASSUME NEW i \in 0 .. m - 1 PROVE then[d[i]] = d[i + 1]
  <2>1. d[i] \in kept /\ i + 1 \in 1 .. m
    BY <1>2, <1>5
  <2>2. CASE i = 0
    <3>1. d[1] = c[1 + excess] /\ 1 + excess = excess + 1
      BY <1>2, <1>3, <2>1, <2>2
    <3> QED BY <1>3, <2>1, <2>2, <3>1
  <2>3. CASE i # 0
    <3>1. /\ i \in 1 .. m /\ i + excess \in 0 .. n - 1 /\ i + excess # 0 /\ 0 \in 0 .. n - 1
          /\ (i + 1) + excess = (i + excess) + 1
      <4>1. i \in Nat /\ i < m
        BY <1>2
      <4> HIDE DEF m
      <4>2. i \in 1 .. m /\ i + excess \in Int /\ (i + 1) + excess = (i + excess) + 1
        BY <1>1, <1>2, <2>3, <4>1, SMTT(30)
      <4>3. 0 <= i + excess /\ i + excess <= n - 1 /\ i + excess # 0 /\ 0 <= n - 1
        BY <1>1, <1>2, <2>3, <4>1
      <4> QED BY <1>1, <4>2, <4>3
    <3>2. d[i] = c[i + excess] /\ d[i + 1] = c[(i + excess) + 1]
      <4>1. d[i + 1] = c[(i + 1) + excess]
        BY <1>3, <2>1
      <4> QED BY <1>3, <3>1, <4>1
    <3>3. c[i + excess] # c[0]
      BY <1>1, <3>1
    <3>4. after[c[i + excess]] = c[(i + excess) + 1]
      BY <1>1, <3>1
    <3> QED BY <2>1, <3>2, <3>3, <3>4
  <2> QED BY <2>2, <2>3
<1>8. \A i \in 0 .. m - 1 : \E x \in 0 .. n - 1 :
        d[i] = c[x] /\ x = IF i = 0 THEN 0 ELSE i + excess
  <2> SUFFICES ASSUME NEW i \in 0 .. m - 1
               PROVE  \E x \in 0 .. n - 1 : d[i] = c[x] /\ x = IF i = 0 THEN 0 ELSE i + excess
    OBVIOUS
  <2>1. CASE i = 0
    <3>1. 0 \in 0 .. n - 1
      BY <1>0
    <3> QED BY <1>3, <2>1, <3>1
  <2>2. CASE i # 0
    <3>1. i \in 1 .. m /\ i + excess \in 0 .. n - 1
      BY <1>0, <1>2, <2>2
    <3> QED BY <1>3, <2>2, <3>1
  <2> QED BY <2>1, <2>2
<1>9. ASSUME NEW i \in 0 .. m - 1, NEW j \in 0 .. m - 1, d[i] = d[j] PROVE i = j
  <2>1. PICK x \in 0 .. n - 1 : d[i] = c[x] /\ x = IF i = 0 THEN 0 ELSE i + excess
    BY <1>8
  <2>2. PICK y \in 0 .. n - 1 : d[j] = c[y] /\ y = IF j = 0 THEN 0 ELSE j + excess
    BY <1>8
  <2>3. c[x] = c[y]
    BY <1>9, <2>1, <2>2
  <2>4. x = y
    BY <1>1, <2>3
  <2> QED BY <1>2, <2>1, <2>2, <2>4
<1>10. ASSUME NEW p \in kept PROVE \E i \in 0 .. m - 1 : d[i] = p
  <2>1. PICK x \in 0 .. n - 1 : c[x] = p
    BY <1>1
  <2>2. CASE x = 0
    <3>1. 0 \in 0 .. m - 1
      BY <1>2
    <3> QED BY <1>3, <2>1, <2>2, <3>1
  <2>3. CASE x # 0
    <3>1. x > excess
      BY <1>4, <2>1, <2>3
    <3>2. x - excess \in 1 .. m /\ x - excess \in 0 .. m - 1 /\ (x - excess) + excess = x
      BY <1>0, <1>2, <3>1
    <3> QED BY <1>3, <2>1, <3>2
  <2> QED BY <2>2, <2>3
<1> HIDE DEF then
<1>11. Numbers(d, m, then, kept)
  <2>1. m > 0
    BY <1>2
  <2> HIDE DEF m
  <2> QED BY <1>2, <1>5, <1>6, <1>7, <1>9, <1>10, <2>1 DEF Numbers
<1> QED BY <1>11 DEF d, then
LEMMA ClearKeeps ==
  ASSUME PagesTypeOK, NEW n, NEW c, NEW a, NEW w, NEW b, NEW R,
         Numbers(c, n, next, Pages), Placed(c, n, a, w, b, R), PagesClear
  PROVE  PagesInv'
<1> DEFINE excess == n - MINIMUM_LIST_SIZE
           kept == Pages \ {c[k] : k \in 1 .. excess}
           d == [i \in 0 .. n - excess |-> IF i = 0 THEN c[0] ELSE c[i + excess]]
           then == [p \in kept |-> IF p = c[0] THEN c[excess + 1] ELSE next[p]]
<1>1. n \in Nat /\ n > 0 /\ Cardinality(Pages) = n /\ readPointer = c[0]
  <2>1. Cardinality(Pages) = n
    BY NumbersCount, PagesFinite
  <2> QED BY <2>1 DEF Numbers, Placed
<1>2. /\ MINIMUM_LIST_SIZE \in Nat /\ MINIMUM_LIST_SIZE >= 3 /\ n >= MINIMUM_LIST_SIZE
      /\ CountModulus \in Nat /\ CountModulus > 0
  BY PagesAssumption DEF Placed
<1>3. excess \in 0 .. n - 2 /\ n - excess = MINIMUM_LIST_SIZE
  BY <1>1, <1>2
<1>4. ASSUME NEW k \in 0 .. excess + 1 PROVE After(readPointer, k) = c[k]
  <2>1. k \in 0 .. n /\ 0 \in 0 .. n - 1 /\ 0 + k <= n /\ 0 + k = k
    BY <1>1, <1>3
  <2> HIDE DEF excess
  <2> QED BY <1>1, <2>1, AfterIs
<1>5. /\ next' = then /\ object' = [p \in kept |-> object[p]]
      /\ readyToRead' = readyToRead \intersect kept
      /\ readAheadPointer' = c[0] /\ writeAheadPointer' = c[0] /\ writePointer' = c[0]
      /\ readPointer' = c[0] /\ readCount' = 0 /\ writeCount' = 0
      /\ writer' = "idle" /\ reader' = "idle"
  <2>1. {After(readPointer, k) : k \in 1 .. excess} = {c[k] : k \in 1 .. excess}
    <3>1. \A k \in 1 .. excess : After(readPointer, k) = c[k]
      <4>1. \A k \in 1 .. excess : k \in 0 .. excess + 1
        BY <1>3
      <4> HIDE DEF excess
      <4> QED BY <1>4, <4>1
    <3> HIDE DEF excess
    <3> QED BY <3>1
  <2>2. After(readPointer, excess + 1) = c[excess + 1]
    <3>1. excess + 1 \in 0 .. excess + 1
      BY <1>3
    <3> HIDE DEF excess
    <3> QED BY <1>4, <3>1
  <2>3. kept = Pages \ {After(readPointer, k) : k \in 1 .. excess}
    BY <2>1
  <2>4. excess = Cardinality(Pages) - MINIMUM_LIST_SIZE
    BY <1>1
  <2> HIDE DEF excess, kept
  <2> QED BY <1>1, <2>2, <2>3, <2>4 DEF PagesClear
<1>6. Pages' = kept
  BY <1>5 DEF Pages
<1>7. Numbers(d, MINIMUM_LIST_SIZE, next', Pages')
  <2>1. Numbers(d, n - excess, then, kept)
    <3>1. kept = Pages \ {c[k] : k \in 1 .. excess}
      OBVIOUS
    <3> HIDE DEF excess, kept
    <3> QED BY <1>3, <3>1, DeleteNumbers
  <2> HIDE DEF d, then, kept, excess
  <2> QED BY <1>3, <1>5, <1>6, <2>1
<1>8. PagesTypeOK'
  BY <1>5, <1>6 DEF PagesTypeOK
<1>9. d[0] = c[0]
  BY <1>3, <1>2
<1> HIDE DEF d, then, kept, excess
<1>10. 0 = 0 % CountModulus
  <2>1. 0 \in 0 .. CountModulus - 1
    BY <1>2
  <2> QED BY <1>2, <2>1, ModAdds
<1>11. Placed(d, MINIMUM_LIST_SIZE, 0, 0, 0, 0)'
  <2>1. Published' = 0 /\ GivenBack' = 0
    BY <1>5 DEF Published, GivenBack
  <2>2. 0 + 0 = 0 /\ 0 + 0 + 0 = 0
    OBVIOUS
  <2> QED BY <1>2, <1>5, <1>9, <1>10, <2>1, <2>2 DEF Placed
<1> QED BY <1>7, <1>8, <1>11 DEF PagesInv, InPlace

-----------------------------------------------------------------------------
LEMMA PagesStart == PagesInit => PagesInv
<1> SUFFICES ASSUME PagesInit PROVE PagesInv
  OBVIOUS
<1> DEFINE n == MINIMUM_LIST_SIZE
           P == 0 .. n - 1
           c == [i \in 0 .. n |-> IF i = n THEN 0 ELSE i]
<1>1. /\ n \in Nat /\ n >= 3 /\ MaxPages \in Nat /\ MaxPages >= n
      /\ CountModulus \in Nat /\ CountModulus > 0
  BY PagesAssumption
<1>2. Pages = P /\ next = [p \in P |-> (p + 1) % n]
  BY DEF PagesInit, Pages
<1>3. ASSUME NEW i \in P PROVE next[c[i]] = c[i + 1]
  <2>1. c[i] = i /\ next[i] = (i + 1) % n
    BY <1>1, <1>2
  <2>2. CASE i + 1 = n
    <3>1. (n * 1 + 0) % n = 0
      <4>1. 1 \in Int /\ 0 \in 0 .. n - 1 /\ n > 0
        BY <1>1
      <4> HIDE DEF n
      <4> QED BY <1>1, <4>1, ModUnique
    <3>2. n * 1 + 0 = n /\ c[n] = 0
      BY <1>1
    <3> HIDE DEF n, c
    <3> QED BY <2>1, <2>2, <3>1, <3>2
  <2>3. CASE i + 1 # n
    <3>1. i + 1 \in 0 .. n - 1 /\ c[i + 1] = i + 1
      BY <1>1, <2>3
    <3>2. (i + 1) % n = i + 1
      <4>1. n > 0 /\ i + 1 \in Int
        BY <1>1
      <4> HIDE DEF n, c
      <4> QED BY <1>1, <3>1, <4>1, ModAdds
    <3> HIDE DEF n, c
    <3> QED BY <2>1, <3>1, <3>2
  <2> QED BY <2>2, <2>3
<1>4. Numbers(c, n, next, Pages)
  <2>1. c \in [0 .. n -> P] /\ c[n] = c[0] /\ n > 0
    BY <1>1
  <2>2. \A i \in 0 .. n - 1 : c[i] = i
    BY <1>1
  <2> HIDE DEF c, n
  <2> QED BY <1>1, <1>2, <1>3, <2>1, <2>2 DEF Numbers
<1>5. PagesTypeOK
  BY <1>1, <1>2 DEF PagesInit, PagesTypeOK
<1>6. Placed(c, n, 0, 0, 0, 0)
  <2>1. 0 = 0 % CountModulus
    <3>1. 0 \in 0 .. CountModulus - 1
      BY <1>1
    <3> QED BY <1>1, <3>1, ModAdds
  <2>2. Published = 0 /\ GivenBack = 0
    BY DEF PagesInit, Published, GivenBack
  <2>3. c[0] = 0
    BY <1>1
  <2>4. 0 + 0 = 0 /\ 0 + 0 + 0 = 0
    OBVIOUS
  <2> HIDE DEF c
  <2> QED BY <1>1, <2>1, <2>2, <2>3, <2>4 DEF Placed, PagesInit
<1> HIDE DEF c, n
<1> QED BY <1>4, <1>5, <1>6 DEF PagesInv, InPlace

LEMMA PagesStep == PagesInv /\ [PagesNext]_pageVars => PagesInv'
<1> SUFFICES ASSUME PagesInv, [PagesNext]_pageVars PROVE PagesInv'
  OBVIOUS
<1>1. PICK n, c, a, w, b, R : Numbers(c, n, next, Pages) /\ Placed(c, n, a, w, b, R)
  BY DEF PagesInv, InPlace
<1>2. PagesTypeOK
  BY DEF PagesInv
<1>3. CASE WriteLockLook
  BY <1>1, <1>2, <1>3, LookKeeps
<1>4. CASE WriteLockTake
  BY <1>1, <1>2, <1>4, TakeNextKeeps, TakeNewKeeps
<1>5. CASE WriteUnlock
  BY <1>1, <1>2, <1>5, WriteUnlockKeeps
<1>6. CASE WriteUnlockMove
  BY <1>1, <1>2, <1>6, WriteMoveKeeps
<1>7. CASE \E page \in Pages : CancelWriteLock(page)
  BY <1>1, <1>2, <1>7, CancelWriteKeeps
<1>8. CASE ReadLock
  BY <1>1, <1>2, <1>8, ReadLockKeeps
<1>9. CASE ReadUnlock
  BY <1>1, <1>2, <1>9, ReadUnlockKeeps
<1>10. CASE ReadUnlockMove
  BY <1>1, <1>2, <1>10, ReadMoveKeeps
<1>11. CASE \E page \in Pages : CancelReadLock(page)
  BY <1>1, <1>2, <1>11, CancelReadKeeps
<1>12. CASE PagesClear
  BY <1>1, <1>2, <1>12, ClearKeeps
<1>13. CASE UNCHANGED pageVars
  <2>1. PagesTypeOK'
    BY <1>2, <1>13 DEF pageVars, PagesTypeOK, Pages
  <2>2. Numbers(c, n, next', Pages')
    BY <1>1, <1>13 DEF pageVars, Pages
  <2>3. Placed(c, n, a, w, b, R)'
    BY <1>1, <1>13 DEF pageVars, Placed, Published, GivenBack
  <2> QED BY <2>1, <2>2, <2>3 DEF PagesInv, InPlace
<1> QED BY <1>3, <1>4, <1>5, <1>6, <1>7, <1>8, <1>9, <1>10, <1>11, <1>12, <1>13
        DEF PagesNext, WriterStep, ReaderStep

THEOREM PagesInvariance == PagesSpec => []PagesInv
  BY PagesStart, PagesStep, PTL DEF PagesSpec

\* The invariant says more than the reader needs.
LEMMA InPlaceArrives == PagesInv => WritesArriveInOrder
<1> SUFFICES ASSUME PagesInv PROVE WritesArriveInOrder
  OBVIOUS
<1> DEFINE first == IF reader = "release" THEN next[readPointer] ELSE readPointer
           M == CountModulus
<1>1. PICK n, c, a, w, b, R : Numbers(c, n, next, Pages) /\ Placed(c, n, a, w, b, R)
  BY DEF PagesInv, InPlace
<1>2. GivenBack \in {0, 1} /\ Published \in {0, 1}
  BY DEF GivenBack, Published
<1>3. /\ n \in Nat /\ a \in Nat /\ w \in Nat /\ b \in Nat /\ R \in Nat
      /\ GivenBack <= a /\ a <= w /\ w + Published <= b /\ b < n
  BY <1>1, PlacedOrder
<1>4. M \in Nat /\ M > 0 /\ n < M
  <2>1. Cardinality(Pages) = n /\ n <= MaxPages
    BY <1>1, NumbersCount, PagesFinite DEF PagesInv
  <2> QED BY <1>3, <2>1, PagesAssumption
<1>5. PagesSize = w + Published - GivenBack
  <2> DEFINE x == R + w + Published
             y == R + GivenBack
  <2>1. x \in Int /\ y \in Int /\ x - y = w + Published - GivenBack
    BY <1>2, <1>3
  <2>2. writeCount = x % M /\ readCount = y % M
    BY <1>1 DEF Placed
  <2>3. x - y \in 0 .. M - 1
    BY <1>2, <1>3, <1>4, <2>1
  <2> HIDE DEF x, y, M
  <2>4. ((x % M) - (y % M)) % M = (x - y) % M
    BY <1>4, <2>1, ModAdds
  <2>5. (x - y) % M = x - y
    BY <1>4, <2>1, <2>3, ModAdds
  <2> QED BY <2>1, <2>2, <2>4, <2>5 DEF PagesSize, M
<1>6. first = c[GivenBack] /\ GivenBack \in 0 .. n - 1
  <2>1. 0 \in 0 .. n - 1 /\ GivenBack \in 0 .. n - 1
    BY <1>2, <1>3
  <2>2. next[c[0]] = c[0 + 1] /\ readPointer = c[0]
    BY <1>1, <2>1 DEF Numbers, Placed
  <2> QED BY <2>1, <2>2 DEF GivenBack
<1>7. ASSUME NEW k \in 0 .. PagesSize - 1
      PROVE  /\ After(first, k) \in readyToRead
             /\ object[After(first, k)] = (readCount + k) % M
  <2> DEFINE i == GivenBack + k
  <2>1. /\ k \in 0 .. n /\ i <= n /\ i \in 0 .. n - 1 /\ GivenBack <= i /\ i < w + Published
        /\ i \in 0 .. b - 1
    BY <1>2, <1>3, <1>5
  <2>2. After(first, k) = c[i]
    BY <1>1, <1>6, <2>1, AfterIs
  <2>3. c[i] \in readyToRead /\ object[c[i]] = (R + i) % M
    BY <1>1, <2>1 DEF Placed
  <2>4. (((R + GivenBack) % M) + k) % M = ((R + GivenBack) + k) % M
    <3>1. R + GivenBack \in Int /\ k \in Int
      BY <1>2, <1>3, <2>1
    <3> HIDE DEF M
    <3> QED BY <1>4, <3>1, ModAdds
  <2>5. (R + GivenBack) + k = R + i /\ readCount = (R + GivenBack) % M
    BY <1>1, <1>2, <1>3, <2>1 DEF Placed
  <2> HIDE DEF i, first, M
  <2> QED BY <2>2, <2>3, <2>4, <2>5
<1> QED BY <1>7 DEF WritesArriveInOrder

\* Without a lock, the reader gets the writer's pages in order
\* (SingleProducerConsumer.h:62-89), whatever the two threads lock ahead and cancel.
THEOREM WritesCorrect == PagesSpec => []WritesArriveInOrder
  BY InPlaceArrives, PagesInvariance, PTL
=============================================================================
