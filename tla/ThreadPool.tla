---------------------------- MODULE ThreadPool ----------------------------
(***************************************************************************)
(* ThreadPool.h: worker threads that take inputs from a queue, and the     *)
(* owner's calls.  A section under a mutex is one step; the one mutex held *)
(* from a call to the next is workingThreadCountMutex, between Pause and   *)
(* Resume.  WaitOnEvent(1000) also ends when nothing is signalled, so that *)
(* a wait is a delay before a step.  Inputs and outputs are counted only,  *)
(* inputQueue and inputFunctionQueue being changed together.  Callbacks    *)
(* return, and only the owner calls.                                       *)
(***************************************************************************)
EXTENDS Integers, FiniteSets, Sequences

CONSTANTS
  Workers,     \* the threads that may exist at once
  numThreads,  \* what StartThreads is called with
  MaxInputs    \* bound of the model on inputs and outputs waiting

ASSUME PoolAssumption == IsFiniteSet(Workers) /\ numThreads \in Nat /\ MaxInputs \in Nat

VARIABLES
  runThreads, numThreadsRunning, numThreadsWorking,
  inputs, outputs,   \* lengths of the queues
  stage,             \* where each worker is
  caller,            \* where the owner is
  created,           \* threads this call of StartThreads has created
  countMutexHeld,    \* the owner holds workingThreadCountMutex
  quiet,             \* the last IsWorking returned false, and no input since
  startFailed        \* a thread could not be created
poolVars == <<runThreads, numThreadsRunning, numThreadsWorking, inputs, outputs, stage,
              caller, created, countMutexHeld, quiet, startFailed>>

PoolInit ==
  /\ runThreads = FALSE /\ numThreadsRunning = 0 /\ numThreadsWorking = 0
  /\ inputs = 0 /\ outputs = 0 /\ stage = [w \in Workers |-> "none"] /\ caller = "idle"
  /\ created = 0 /\ countMutexHeld = FALSE /\ quiet = FALSE /\ startFailed = FALSE

-----------------------------------------------------------------------------
\* WorkerThread.
Goes(w, from, to) == stage[w] = from /\ stage' = [stage EXCEPT ![w] = to]
OwnerKeeps == UNCHANGED <<runThreads, caller, created, countMutexHeld, quiet, startFailed>>

\* Mutant of OneLess: the thread that ends is still counted.
StillThere(n) == n
OneLess(n) == n - 1

Begin(w) == /\ Goes(w, "born", "turn") /\ numThreadsRunning' = numThreadsRunning + 1
            /\ UNCHANGED <<numThreadsWorking, inputs, outputs>> /\ OwnerKeeps

WorkerTurn(w) == /\ Goes(w, "turn", IF runThreads THEN "count" ELSE "leave")
                 /\ UNCHANGED <<numThreadsRunning, numThreadsWorking, inputs, outputs>> /\ OwnerKeeps

CountIn(w) == /\ ~countMutexHeld /\ Goes(w, "count", "take")
              /\ numThreadsWorking' = numThreadsWorking + 1
              /\ UNCHANGED <<numThreadsRunning, inputs, outputs>> /\ OwnerKeeps

Take(w) == /\ Goes(w, "take", IF inputs > 0 THEN "call" ELSE "countOut")
           /\ inputs' = IF inputs > 0 THEN inputs - 1 ELSE 0
           /\ UNCHANGED <<numThreadsRunning, numThreadsWorking, outputs>> /\ OwnerKeeps

\* The callback returns, with an output or without one.
CallBack(w) == /\ Goes(w, "call", "countOut") \/ Goes(w, "call", "put")
               /\ UNCHANGED <<numThreadsRunning, numThreadsWorking, inputs, outputs>>
               /\ OwnerKeeps

PutOutput(w) == /\ Goes(w, "put", "countOut") /\ outputs' = outputs + 1
                /\ UNCHANGED <<numThreadsRunning, numThreadsWorking, inputs>> /\ OwnerKeeps

CountOut(w) == /\ ~countMutexHeld /\ Goes(w, "countOut", "turn")
               /\ numThreadsWorking' = numThreadsWorking - 1
               /\ UNCHANGED <<numThreadsRunning, inputs, outputs>> /\ OwnerKeeps

LeaveLoop(w) == /\ Goes(w, "leave", "none") /\ numThreadsRunning' = OneLess(numThreadsRunning)
            /\ UNCHANGED <<numThreadsWorking, inputs, outputs>> /\ OwnerKeeps

WorkerStep(w) == \/ Begin(w) \/ WorkerTurn(w) \/ CountIn(w) \/ Take(w)
                 \/ CallBack(w) \/ PutOutput(w) \/ CountOut(w) \/ LeaveLoop(w)

-----------------------------------------------------------------------------
\* The owner.
Calls(from, to) == caller = from /\ caller' = to

StartThreads ==
  /\ ~runThreads /\ Calls("idle", "creating")
  /\ runThreads' = TRUE /\ numThreadsWorking' = 0 /\ created' = 0
  /\ UNCHANGED <<numThreadsRunning, inputs, outputs, stage, countMutexHeld, quiet, startFailed>>

Create ==
  /\ created < numThreads /\ Calls("creating", "creating") /\ created' = created + 1
  /\ \E w \in Workers : Goes(w, "none", "born")
  /\ UNCHANGED <<runThreads, numThreadsRunning, numThreadsWorking, inputs, outputs,
                 countMutexHeld, quiet, startFailed>>

\* Create fails: StartThreads stops the threads that run, not those just born.
CreateFails ==
  /\ created < numThreads /\ Calls("creating", "stopping")
  /\ runThreads' = FALSE /\ startFailed' = TRUE
  /\ UNCHANGED <<numThreadsRunning, numThreadsWorking, inputs, outputs, stage, created,
                 countMutexHeld, quiet>>

StartReturns ==
  /\ created = numThreads /\ numThreadsRunning = numThreads /\ Calls("creating", "idle")
  /\ UNCHANGED <<runThreads, numThreadsRunning, numThreadsWorking, inputs, outputs, stage,
                 created, countMutexHeld, quiet, startFailed>>

StopThreads ==
  /\ runThreads /\ Calls("idle", "stopping") /\ runThreads' = FALSE
  /\ UNCHANGED <<numThreadsRunning, numThreadsWorking, inputs, outputs, stage, created,
                 countMutexHeld, quiet, startFailed>>

StopReturns ==
  /\ numThreadsRunning = 0 /\ Calls("stopping", "idle")
  /\ UNCHANGED <<runThreads, numThreadsRunning, numThreadsWorking, inputs, outputs, stage,
                 created, countMutexHeld, quiet, startFailed>>

PoolKeeps == UNCHANGED <<runThreads, numThreadsRunning, numThreadsWorking, stage, created,
                         startFailed>>
Waiting == inputs + outputs + Cardinality({w \in Workers : stage[w] \in {"call", "put"}})

AddInput == /\ Waiting < MaxInputs /\ Calls("idle", "idle") /\ inputs' = inputs + 1
            /\ quiet' = FALSE /\ UNCHANGED <<outputs, countMutexHeld>> /\ PoolKeeps
AddOutput == /\ Waiting < MaxInputs /\ Calls("idle", "idle") /\ outputs' = outputs + 1
             /\ UNCHANGED <<inputs, countMutexHeld, quiet>> /\ PoolKeeps
\* HasOutput and GetOutput, or RemoveOutputAtIndex.
GetOutput == /\ outputs > 0 /\ Calls("idle", "idle") /\ outputs' = outputs - 1
             /\ UNCHANGED <<inputs, countMutexHeld, quiet>> /\ PoolKeeps
\* Between LockInput and UnlockInput.
RemoveInputAtIndex == /\ inputs > 0 /\ Calls("idle", "idle") /\ inputs' = inputs - 1
                      /\ UNCHANGED <<outputs, countMutexHeld, quiet>> /\ PoolKeeps

\* Clear: the inputs, then the outputs.
PoolClear == \/ /\ Calls("idle", "clearing") /\ inputs + outputs > 0 /\ inputs' = 0
                /\ UNCHANGED <<outputs, countMutexHeld, quiet>> /\ PoolKeeps
             \/ /\ Calls("clearing", "idle") /\ outputs' = 0
                /\ UNCHANGED <<inputs, countMutexHeld, quiet>> /\ PoolKeeps

\* IsWorking asks three questions, in this order, until one is answered yes.
\* Mutant of Questions: the count first, the order a comment of the code says
\* was wrong.
QuestionsCountFirst == <<"threads", "output", "input">>
Questions == <<"output", "input", "threads">>

\* An output queue whose ring is being grown looks empty to HasOutputFast.
Answers(question, answer) ==
  CASE question = "output"  -> \/ answer = (outputs > 0)
                               \/ ~answer /\ \E w \in Workers : stage[w] = "put"
    [] question = "input"   -> answer = (inputs > 0)
    [] question = "threads" -> ~countMutexHeld /\ answer = (numThreadsWorking # 0)

IsWorking ==
  \/ Calls("idle", Questions[1]) /\ UNCHANGED <<inputs, outputs, countMutexHeld, quiet>>
                                 /\ PoolKeeps
  \/ \E k \in 1 .. 3, answer \in BOOLEAN :
       /\ Answers(Questions[k], answer)
       /\ Calls(Questions[k], IF answer \/ k = 3 THEN "idle" ELSE Questions[k + 1])
       /\ quiet' = IF answer \/ k = 3 THEN ~answer ELSE quiet
       /\ UNCHANGED <<inputs, outputs, countMutexHeld>> /\ PoolKeeps

\* Pause takes the mutex the workers change the count under, and waits for the
\* count to be 0 with it.  Mutant of NoneWorks: it does not wait.
NoneWorksUnasked == TRUE
NoneWorks == numThreadsWorking <= 0

Pause == \/ /\ runThreads /\ ~countMutexHeld /\ Calls("idle", "pausing")
            /\ countMutexHeld' = TRUE /\ UNCHANGED <<inputs, outputs, quiet>> /\ PoolKeeps
         \/ /\ NoneWorks /\ Calls("pausing", "idle")
            /\ UNCHANGED <<inputs, outputs, countMutexHeld, quiet>> /\ PoolKeeps

Resume == /\ countMutexHeld /\ Calls("idle", "idle") /\ countMutexHeld' = FALSE
          /\ UNCHANGED <<inputs, outputs, quiet>> /\ PoolKeeps

OwnerStep == \/ StartThreads \/ Create \/ CreateFails \/ StartReturns \/ StopThreads
             \/ StopReturns \/ AddInput \/ AddOutput \/ GetOutput \/ RemoveInputAtIndex
             \/ PoolClear \/ IsWorking \/ Pause \/ Resume

PoolNext == OwnerStep \/ \E w \in Workers : WorkerStep(w)

\* The scheduler runs every thread that can go on; calls are made or not.
PoolFairness == /\ \A w \in Workers : WF_poolVars(WorkerStep(w))
                /\ WF_poolVars(Create \/ StartReturns) /\ WF_poolVars(StopReturns)
                /\ WF_poolVars(NoneWorks /\ Pause)
PoolSpec == PoolInit /\ [][PoolNext]_poolVars /\ PoolFairness

-----------------------------------------------------------------------------
\* When IsWorking has answered no, every input added before is done with: none
\* waits, and no worker is in a callback or about to put its output.  (Unless a
\* start has failed: the thread it leaves behind is not counted on.)
IdleMeansDone ==
  quiet /\ ~startFailed => /\ inputs = 0
                           /\ \A w \in Workers : stage[w] \notin {"call", "put"}

\* From the return of Pause to Resume, no worker is in a callback or takes an
\* input, whatever is added meanwhile.
PausedMeansStill ==
  countMutexHeld /\ caller # "pausing" /\ ~startFailed =>
    \A w \in Workers : stage[w] \notin {"take", "call", "put"}

\* StopThreads returns, with the workers anywhere, unless it was called in a pause.
StopEnds == (caller = "stopping" /\ ~countMutexHeld) ~> caller = "idle"

\* ThreadPool.h:144 of Pause: "Block until all threads are stopped."  But a worker
\* that was counted before can be counted out under the held mutex only.
PauseReturns == (caller = "pausing" /\ ~startFailed) ~> caller = "idle"
=============================================================================
