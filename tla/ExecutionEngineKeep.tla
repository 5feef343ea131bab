------------------------ MODULE ExecutionEngineKeep -------------------------
(***************************************************************************)
(* ExecutionEngine while no lease runs out under its holder: the steps run *)
(* in order, each as often as its policy allows, and what is done is kept. *)
(***************************************************************************)
EXTENDS ExecutionEngineWaits

(* No process dies or pauses under its lease, and no statement fails. Jobs *)
(* may still be lost, delivered twice or taken by a worker shutting down,  *)
(* and the user may cancel.                                                *)
Undisturbed == FaultKinds \cap {"crash", "pause", "db"} = {}

(* The lease is then never left behind, so no reconciler ever works on     *)
(* abandoned steps.                                                        *)
Calm ==
  /\ lease # "expired"
  /\ lockedBy \in Workers => pc[lockedBy] \in HoldingPC
  /\ \A r \in Reconcilers : rpc[r] \notin {"expiredUpdate", "expiredSteps"}

LEMMA CalmInit == Init => Calm
  BY EngineAssumption DEF Init, Calm

(* The only fault that reaches a runner is the signal to shut down.        *)
LEMMA CalmArrives ==
  ASSUME Undisturbed, TypeInv, Next, NEW w \in Workers
  PROVE  \/ Rests(w)
         \/ RunnerStep(w) /\ Arrival(w)
         \/ \E j \in waiting : TakeJob(w, j)
  <1>1. CASE RunnerFault(w)
    BY <1>1 DEF RunnerFault, LoadFails, StatementFails, Crash, BeginShutdown, Fault,
       Undisturbed, Rests
  <1> QED BY <1>1, Arrives

LEMMA CalmLease ==
  ASSUME Undisturbed, TypeInv, LeaseInv, Calm, Next PROVE lease' # "expired"
  <1>1. CASE LeaseExpires
    <2>1. lockedBy \in Workers /\ pc[lockedBy] \in HoldingPC
      BY <1>1 DEF LeaseExpires, Calm, TypeInv, TypeOK, ExecutionTypes
    <2>2. Attended(lockedBy)
      BY <2>1 DEF Attended, LeaseInv, Beating, HoldingPC, BeatingPC
    <2> QED BY <1>1, <2>2 DEF LeaseExpires, Fault, Undisturbed
  <1>2. CASE ~LeaseExpires
    BY <1>2, RowWriters DEF Calm, dbVars, Cancel, Unlock, Acquire, Release, MarkWaiting,
       CompleteExecution, FailExecution, CreateDeadLetter, RequeueExpired, RequeueDue
  <1> QED BY <1>1, <1>2

(* Whoever gives the lease up has given up the lock, or never had it.      *)
LEMMA CalmHolder ==
  ASSUME Undisturbed, TypeInv, LeaseInv, Calm, Next, lockedBy' \in Workers
  PROVE  pc'[lockedBy'] \in HoldingPC
  <1>1. CASE lockedBy' # lockedBy
    <2>1. PICK w \in Workers : Acquire(w) /\ lockedBy' = w
      BY <1>1, RowWriters, EngineAssumption DEF dbVars, Cancel, Unlock, LeaseExpires, Acquire, Release,
         MarkWaiting, CompleteExecution, FailExecution, CreateDeadLetter, RequeueExpired,
         RequeueDue
    <2> QED BY <2>1 DEF Acquire, Goto, HoldingPC, RunningPC, TypeInv, TypeOK, RunnerTypes
  <1>2. CASE lockedBy' = lockedBy
    <2>1. PICK w \in Workers : w = lockedBy  BY <1>2
    <2>2. pc[w] \in HoldingPC  BY <2>1 DEF Calm
    <2>3. Owns(w)
      BY <2>1, EngineAssumption DEF Owns, Calm, TypeInv, TypeOK, ExecutionTypes
    <2>4. CASE Rests(w)  BY <1>2, <2>1, <2>2, <2>4 DEF Rests
    <2>5. CASE RunnerStep(w)
      <3>1. ~Release(w) /\ ~LoseLease(w)
        BY <1>2, <2>1, <2>3, EngineAssumption DEF Release, Unlock, LoseLease
      <3>2. ~Acquire(w) /\ ~RejectLease(w) /\ ~ScheduleRetry(w) /\ ~Finish(w) /\ ~CloseWorker(w)
        BY <2>2 DEF Acquire, RejectLease, ScheduleRetry, Finish, CloseWorker, HoldingPC,
           RunningPC, ReleasePC
      <3>3. \/ LoadExecution(w) \/ ReuseStep(w) \/ AwaitRetryTime(w) \/ FindStepExhausted(w)
            \/ PrepareStep(w) \/ SkipStep(w) \/ BeginStep(w) \/ StepSucceeds(w)
            \/ RecordAttempt(w) \/ StepRetries(w) \/ StepFails(w) \/ AfterStep(w)
            \/ MarkWaiting(w) \/ AssertNoFailedSteps(w) \/ CompleteExecution(w)
            \/ FailExecution(w) \/ CreateDeadLetter(w)
        BY <2>5, <3>1, <3>2 DEF RunnerStep
      <3>4. pc'[w] \in HoldingPC
        <4> USE DEF Goto, HoldingPC, RunningPC, ReleasePC, TypeInv, TypeOK, RunnerTypes
        <4>1. CASE LoadExecution(w) \/ ReuseStep(w) \/ AwaitRetryTime(w) \/ FindStepExhausted(w)
          BY <4>1 DEF LoadExecution, ReuseStep, AwaitRetryTime, FindStepExhausted, EnterCatch, Advance
        <4>2. CASE PrepareStep(w) \/ SkipStep(w) \/ BeginStep(w) \/ StepSucceeds(w)
          BY <4>2 DEF PrepareStep, SkipStep, BeginStep, StepSucceeds, Advance
        <4>3. CASE RecordAttempt(w) \/ StepRetries(w) \/ StepFails(w) \/ AfterStep(w)
          BY <4>3 DEF RecordAttempt, StepRetries, StepFails, AfterStep, EnterCatch, Advance
        <4>4. CASE MarkWaiting(w) \/ AssertNoFailedSteps(w) \/ CompleteExecution(w)
          BY <4>4 DEF MarkWaiting, AssertNoFailedSteps, CompleteExecution, EnterCatch
        <4>5. CASE FailExecution(w) \/ CreateDeadLetter(w)
          BY <4>5 DEF FailExecution, AfterFail, CreateDeadLetter
        <4> HIDE DEF TypeInv
        <4> QED BY <3>3, <4>1, <4>2, <4>3, <4>4, <4>5
      <3> QED BY <1>2, <2>1, <3>4
    <2>6. ~(\E j \in waiting : TakeJob(w, j))
      BY <2>2 DEF TakeJob, HoldingPC, RunningPC, ReleasePC
    <2> QED BY <2>4, <2>5, <2>6, CalmArrives
  <1> QED BY <1>1, <1>2

LEMMA CalmReconcilers ==
  ASSUME TypeInv, Calm, Next, NEW r \in Reconcilers
  PROVE  rpc'[r] \notin {"expiredUpdate", "expiredSteps"}
  <1> USE DEF TypeInv, TypeOK, ReconcilerTypes, Calm
  <1>1. ASSUME NEW q \in Reconcilers, ReconcilerStep(q)
        PROVE  rpc'[r] \notin {"expiredUpdate", "expiredSteps"}
    <2>1. ~FindExpired(q)  BY DEF FindExpired, IsExpiredRunning
    <2>2. ~RequeueExpired(q) /\ ~EnqueueExpired(q) /\ \A s \in Steps : ~AbandonStep(q, s)
      BY DEF RequeueExpired, EnqueueExpired, AbandonStep
    <2> QED
      BY <1>1, <2>1, <2>2 DEF ReconcilerStep, FindDue, RequeueDue, EnqueueDue,
         EnqueueRecovery, RecoverPendingDispatch, RequeueQueued, Step, recVars
  <1>2. ASSUME NEW q \in Reconcilers, AbortReconcile(q)
        PROVE  rpc'[r] \notin {"expiredUpdate", "expiredSteps"}
    BY <1>2 DEF AbortReconcile, Step
  <1> QED BY <1>1, <1>2, ReconcilerWriters DEF recVars

LEMMA CalmInvariance == ASSUME Undisturbed PROVE Spec => []Calm
  <1>1. TypeInv /\ LeaseInv /\ Calm /\ [Next]_vars => Calm'
    <2>1. TypeInv /\ LeaseInv /\ Calm /\ Next => Calm'
      BY CalmLease, CalmHolder, CalmReconcilers DEF Calm
    <2>2. Calm /\ UNCHANGED vars => Calm'  BY DEF Calm, vars, dbVars, recVars
    <2> QED BY <2>1, <2>2
  <1>2. "pause" \notin FaultKinds  BY DEF Undisturbed
  <1> QED BY <1>1, <1>2, CalmInit, TypeInvariance, LeaseInvariance, PTL DEF Spec
-----------------------------------------------------------------------------
(* The rows, the counts and the runner's place among them.                 *)

LoopPC == {"next", "skip", "begin", "handler", "record", "after", "wait", "complete"}

(* A runner starts at the first step and goes past done steps only.        *)
Passed ==
  \A w \in Workers :
    /\ pc[w] \in {"idle", "acquire", "load"} => cur[w] = 1
    /\ pc[w] \in LoopPC => \A s \in Steps : s < cur[w] => stepStatus[s] \in StepDone
    /\ pc[w] = "complete" => cur[w] \notin Steps

(* What the runner knows of the row of its step is still so.               *)
RowAt(w) ==
  LET s == cur[w] IN
  /\ pc[w] \in {"skip", "begin"} =>
       /\ stepStatus[s] \in {"PENDING", "RETRYING", "FAILED"}
       /\ seen[w] = attemptCount[s] /\ attemptCount[s] < MaxAttempts[s]
  /\ pc[w] = "handler" => stepStatus[s] = "RUNNING" /\ attemptCount[s] = seen[w] + 1
  /\ pc[w] = "record" => stepStatus[s] = "COMPLETED"
  /\ pc[w] = "after" => stepStatus[s] = "COMPLETED" \/ wake[w] # 0

Handled ==
  \A s \in Steps :
    stepStatus[s] = "RUNNING" => \E w \in Workers : pc[w] = "handler" /\ cur[w] = s

(* Every call of a handler was counted, and a step that may still run has  *)
(* an attempt left.                                                        *)
Counted(s) ==
  /\ calls[s] = attemptCount[s] /\ attemptCount[s] <= MaxAttempts[s]
  /\ stepStatus[s] \in {"ABSENT", "PENDING", "RETRYING"} => attemptCount[s] < MaxAttempts[s]

KeepInv ==
  /\ Passed /\ (\A w \in Workers : RowAt(w)) /\ Handled
  /\ (\A s \in Steps : Counted(s)) /\ StepsInOrder /\ CompletedIsComplete

LEMMA KeepInit == Init => KeepInv
  BY EngineAssumption DEF Init, KeepInv, Passed, RowAt, Handled, Counted, StepsInOrder,
     CompletedIsComplete, LoopPC, Steps

(* A step row is written by the one runner that is at it, and an error     *)
(* reaches the executor from its handler only.                             *)
RowWriter(w) ==
  \/ PrepareStep(w) \/ SkipStep(w) \/ BeginStep(w) \/ StepSucceeds(w)
  \/ pc[w] = "handler" /\ (StepRetries(w) \/ StepFails(w))

LEMMA CalmWriters ==
  ASSUME Undisturbed, Calm, Next
  PROVE  UNCHANGED <<stepVars, calls>> \/ \E w \in Workers : RowWriter(w)
  <1>1. ASSUME NEW r \in Reconcilers, NEW s \in Steps PROVE ~AbandonStep(r, s)
    BY DEF Calm, AbandonStep
  <1>2. ASSUME NEW w \in Workers, StepRetries(w) \/ StepFails(w) PROVE pc[w] = "handler"
    BY <1>2 DEF StepRetries, StepFails, Throws, Fault, Undisturbed
  <1> QED BY <1>1, <1>2, StepWriters DEF RowWriter

(* What the writer leaves of the other rows, and of its own.               *)
LEMMA WriterRows ==
  ASSUME TypeInv, KeepInv, NEW w \in Workers, RowWriter(w)
  PROVE  /\ cur[w] \in Steps /\ stepStatus[cur[w]] \notin StepDone
         /\ \A s \in Steps \ {cur[w]} :
              /\ stepStatus'[s] = stepStatus[s]
              /\ attemptCount'[s] = attemptCount[s] /\ calls'[s] = calls[s]
  <1> USE DEF TypeInv, TypeOK, StepTypes, InStep, RowAt, KeepInv, StepDone, histVars
  <1>1. CASE PrepareStep(w)  BY <1>1 DEF PrepareStep, AtStep, Reusable
  <1>2. CASE SkipStep(w)  BY <1>2 DEF SkipStep
  <1>3. CASE BeginStep(w)  BY <1>3 DEF BeginStep
  <1>4. CASE StepSucceeds(w)  BY <1>4 DEF StepSucceeds
  <1>5. CASE pc[w] = "handler" /\ (StepRetries(w) \/ StepFails(w))
    BY <1>5 DEF StepRetries, StepFails
  <1> HIDE DEF TypeInv, KeepInv
  <1> QED BY <1>1, <1>2, <1>3, <1>4, <1>5 DEF RowWriter

LEMMA DoneStays ==
  ASSUME Undisturbed, TypeInv, Calm, KeepInv, Next,
         NEW s \in Steps, stepStatus[s] \in StepDone
  PROVE  stepStatus'[s] = stepStatus[s]
  BY CalmWriters, WriterRows DEF stepVars

LEMMA OrderNext ==
  ASSUME Undisturbed, TypeInv, Calm, KeepInv, Next PROVE StepsInOrder'
  <1> SUFFICES ASSUME NEW s \in Steps, NEW u \in Steps, s < u, stepStatus'[u] # "ABSENT"
               PROVE  stepStatus[s] \in StepDone
    BY DoneStays DEF StepsInOrder
  <1>1. CASE stepStatus[u] # "ABSENT"  BY <1>1 DEF KeepInv, StepsInOrder
  <1>2. CASE stepStatus[u] = "ABSENT"
    <2>1. PICK w \in Workers : RowWriter(w) /\ u = cur[w]
      BY <1>2, CalmWriters, WriterRows DEF stepVars
    <2>2. pc[w] \in LoopPC
      BY <2>1 DEF RowWriter, PrepareStep, AtStep, SkipStep, BeginStep, StepSucceeds, LoopPC
    <2> QED BY <2>1, <2>2 DEF KeepInv, Passed
  <1> QED BY <1>1, <1>2

LEMMA CompleteNext ==
  ASSUME Undisturbed, TypeInv, Calm, KeepInv, Next PROVE CompletedIsComplete'
  <1> SUFFICES ASSUME status' = "COMPLETED", NEW s \in Steps PROVE stepStatus[s] \in StepDone
    BY DoneStays DEF CompletedIsComplete
  <1>1. CASE status = "COMPLETED"  BY <1>1 DEF KeepInv, CompletedIsComplete
  <1>2. CASE status # "COMPLETED"
    <2>1. PICK w \in Workers : CompleteExecution(w)
      BY <1>2, RowWriters DEF dbVars, Cancel, LeaseExpires, Acquire, Release, MarkWaiting,
         RetryingIfActive, FailExecution, TransitionTerminal, CreateDeadLetter, RequeueExpired,
         RequeueDue
    <2>2. pc[w] = "complete" /\ cur[w] \in 1..(StepCount + 1) /\ cur[w] \notin Steps
      BY <2>1 DEF CompleteExecution, KeepInv, Passed, TypeInv, TypeOK, RunnerTypes
    <2>3. s < cur[w]  BY <2>2, EngineAssumption DEF Steps
    <2> QED BY <2>2, <2>3 DEF KeepInv, Passed, LoopPC
  <1> QED BY <1>1, <1>2

LEMMA HandledNext ==
  ASSUME Undisturbed, TypeInv, Calm, KeepInv, Next PROVE Handled'
  <1> SUFFICES ASSUME NEW s \in Steps, stepStatus'[s] = "RUNNING"
               PROVE  \E w \in Workers : pc'[w] = "handler" /\ cur'[w] = s
    BY DEF Handled
  <1>1. CASE stepStatus[s] = "RUNNING"
    <2>1. PICK w \in Workers : pc[w] = "handler" /\ cur[w] = s
      BY <1>1 DEF KeepInv, Handled
    <2>2. CASE Rests(w)  BY <2>1, <2>2 DEF Rests
    <2>3. CASE RunnerStep(w)
      <3>1. StepSucceeds(w) \/ StepRetries(w) \/ StepFails(w)
        BY <2>1, <2>3 DEF RunnerStep, Acquire, RejectLease, LoadExecution, LoseLease, ReuseStep,
           AtStep, AwaitRetryTime, FindStepExhausted, PrepareStep, SkipStep, BeginStep,
           RecordAttempt, AfterStep, MarkWaiting, AssertNoFailedSteps, CompleteExecution,
           FailExecution, CreateDeadLetter, Release, ReleasePC, ScheduleRetry, Finish, CloseWorker
      <3> QED
        BY <2>1, <3>1 DEF StepSucceeds, StepRetries, StepFails, TypeInv, TypeOK, StepTypes
    <2>4. ~(\E j \in waiting : TakeJob(w, j))  BY <2>1 DEF TakeJob
    <2> QED BY <2>2, <2>3, <2>4, CalmArrives
  <1>2. CASE stepStatus[s] # "RUNNING"
    <2>1. PICK w \in Workers : RowWriter(w)
      BY <1>2, CalmWriters DEF stepVars
    <2>2. BeginStep(w) /\ cur[w] = s
      BY <1>2, <2>1 DEF RowWriter, PrepareStep, SkipStep, StepSucceeds, StepRetries, StepFails,
         BeginStep, TypeInv, TypeOK, StepTypes
    <2> QED BY <2>2 DEF BeginStep, Goto, localVars, TypeInv, TypeOK, RunnerTypes
  <1> QED BY <1>1, <1>2

(* While the runner at a step rests, nobody writes its row.                *)
LEMMA RowsKept ==
  ASSUME TypeInv, LeaseInv, Calm, Next, NEW w \in Workers, pc[w] \in HoldingPC, Rests(w)
  PROVE  UNCHANGED <<stepVars, calls>>
  BY RowsRest DEF Calm, AbandonStep

LEMMA PassedNext ==
  ASSUME Undisturbed, TypeInv, Calm, KeepInv, Next PROVE Passed'
  <1> SUFFICES ASSUME NEW w \in Workers
               PROVE  /\ pc'[w] \in {"idle", "acquire", "load"} => cur'[w] = 1
                      /\ pc'[w] \in LoopPC =>
                           \A s \in Steps : s < cur'[w] => stepStatus'[s] \in StepDone
                      /\ pc'[w] = "complete" => cur'[w] \notin Steps
    BY DEF Passed
  <1> USE DEF LoopPC
  <1>1. CASE Rests(w)  BY <1>1, DoneStays DEF Rests, KeepInv, Passed
  <1>2. ASSUME NEW j \in waiting, TakeJob(w, j) PROVE pc'[w] = "acquire" /\ cur'[w] = 1
    BY <1>2 DEF TakeJob, Goto, KeepInv, Passed, TypeInv, TypeOK, RunnerTypes
  <1>3. CASE RunnerStep(w) /\ Arrival(w)
    <2>1. ASSUME pc'[w] \in {"idle", "acquire", "load"} PROVE cur'[w] = 1
      BY <1>3, <2>1 DEF Arrival, Acquire, Finish, ForgetRun, KeepInv, Passed, TypeInv, TypeOK,
         RunnerTypes
    <2>2. ASSUME pc'[w] = "complete" PROVE cur'[w] \notin Steps
      BY <1>3, <2>2 DEF Arrival, AssertNoFailedSteps, LoopDone
    <2>3. ASSUME pc'[w] \in LoopPC, NEW s \in Steps, s < cur'[w]
          PROVE  stepStatus'[s] \in StepDone
      <3> USE DEF TypeInv, TypeOK, RunnerTypes, StepTypes, localVars
      <3>1. CASE LoadExecution(w)
        BY <2>3, <3>1 DEF LoadExecution, KeepInv, Passed, Steps
      <3>2. CASE pc[w] \in LoopPC /\ s < cur[w]
        BY <3>2, DoneStays DEF KeepInv, Passed
      <3>3. CASE s = cur[w] /\ (ReuseStep(w) \/ SkipStep(w) \/ AfterStep(w))
        <4>1. CASE ReuseStep(w)
          BY <3>3, <4>1, DoneStays DEF ReuseStep, Reusable
        <4>2. CASE SkipStep(w)  BY <3>3, <4>2 DEF SkipStep, StepDone
        <4>3. CASE AfterStep(w)
          <5>1. wake[w] = 0
            BY <2>3, <3>3, <4>3 DEF AfterStep, OutcomeIsRetrying, Goto, Steps
          <5> QED
            BY <3>3, <4>3, <5>1, DoneStays DEF AfterStep, KeepInv, RowAt, StepDone
        <4> QED BY <3>3, <4>1, <4>2, <4>3
      <3>4. \/ LoadExecution(w)
            \/ pc[w] \in LoopPC /\ cur'[w] = cur[w]
            \/ /\ pc[w] \in LoopPC /\ cur'[w] = cur[w] + 1
               /\ ReuseStep(w) \/ SkipStep(w) \/ AfterStep(w)
        BY <1>3, <2>3 DEF Arrival, ReuseStep, AtStep, SkipStep, AfterStep, Advance, PrepareStep,
           BeginStep, StepSucceeds, RecordAttempt, StepRetries, Throws, AwaitRetryTime,
           AssertNoFailedSteps
      <3>5. cur'[w] = cur[w] + 1 => s < cur[w] \/ s = cur[w]
        <4>1. s \in Nat /\ cur[w] \in Nat  BY DEF Steps
        <4> HIDE DEF TypeInv
        <4> QED BY <2>3, <4>1
      <3> HIDE DEF TypeInv, LoopPC
      <3> QED BY <2>3, <3>1, <3>2, <3>3, <3>4, <3>5
    <2> HIDE DEF LoopPC
    <2> QED BY <2>1, <2>2, <2>3
  <1> QED BY <1>1, <1>2, <1>3, CalmArrives

LEMMA RowAtNext ==
  ASSUME Undisturbed, TypeInv, LeaseInv, Calm, KeepInv, Next, NEW w \in Workers
  PROVE  RowAt(w)'
  <1>1. CASE Rests(w) /\ pc[w] \in HoldingPC
    BY <1>1, RowsKept DEF Rests, KeepInv, RowAt, stepVars
  <1>2. CASE Rests(w) /\ pc[w] \notin HoldingPC
    BY <1>2 DEF Rests, RowAt, HoldingPC, RunningPC
  <1>3. ASSUME NEW j \in waiting, TakeJob(w, j) PROVE RowAt(w)'
    BY <1>3 DEF TakeJob, Goto, RowAt, TypeInv, TypeOK, RunnerTypes
  <1>4. CASE RunnerStep(w) /\ Arrival(w)
    <2> USE DEF TypeInv, TypeOK, RunnerTypes, StepTypes, InStep, localVars, stepVars
    <2>1. ASSUME PrepareStep(w)
          PROVE  /\ pc'[w] \in {"skip", "begin"} /\ cur'[w] = cur[w] /\ cur[w] \in Steps
                 /\ stepStatus'[cur[w]] \in {"PENDING", "RETRYING", "FAILED"}
                 /\ seen'[w] = attemptCount'[cur[w]]
                 /\ attemptCount'[cur[w]] < MaxAttempts[cur[w]]
      <3>1. pc[w] = "next" /\ cur[w] \in Steps  BY <2>1 DEF PrepareStep, AtStep
      <3>2. stepStatus[cur[w]] # "RUNNING"
        BY <3>1 DEF KeepInv, Handled, LeaseInv, Alone, HoldingPC, RunningPC
      <3>3. /\ stepStatus[cur[w]] \in {"ABSENT", "PENDING", "RETRYING", "FAILED"}
            /\ stepStatus[cur[w]] = "FAILED" => ~(attemptCount[cur[w]] >= MaxAttempts[cur[w]])
        BY <2>1, <3>1, <3>2 DEF PrepareStep, Reusable, Exhausted, StepDone, StepStatuses
      <3>4. attemptCount[cur[w]] \in Nat /\ MaxAttempts[cur[w]] \in Nat
        BY <3>1, EngineAssumption DEF Steps
      <3>5. attemptCount[cur[w]] < MaxAttempts[cur[w]]
        BY <3>1, <3>3, <3>4 DEF KeepInv, Counted
      <3> QED BY <2>1, <3>1, <3>3, <3>5 DEF PrepareStep, Goto
    <2>2. CASE PrepareStep(w)  BY <2>1, <2>2 DEF RowAt
    <2>3. CASE BeginStep(w)  BY <2>3 DEF BeginStep, NextAttempt, Goto, RowAt
    <2>4. CASE StepSucceeds(w)  BY <2>4 DEF StepSucceeds, Goto, RowAt
    <2>5. CASE RecordAttempt(w)  BY <2>5 DEF RecordAttempt, Goto, RowAt, KeepInv
    <2>6. CASE StepRetries(w)
      <3>1. pc'[w] = "after" /\ wake'[w] = timers + 1  BY <2>6 DEF StepRetries, Goto
      <3>2. timers + 1 # 0  BY DEF TimeTypes
      <3> QED BY <3>1, <3>2 DEF RowAt
    <2>7. CASE pc'[w] \notin {"skip", "begin", "handler", "record", "after"}
      BY <2>7 DEF RowAt
    <2> HIDE DEF TypeInv
    <2> QED BY <1>4, <2>2, <2>3, <2>4, <2>5, <2>6, <2>7 DEF Arrival
  <1> QED BY <1>1, <1>2, <1>3, <1>4, CalmArrives

LEMMA CountedNext ==
  ASSUME Undisturbed, TypeInv, Calm, KeepInv, Next, NEW s \in Steps
  PROVE  Counted(s)'
  <1>1. CASE UNCHANGED <<stepVars, calls>>
    BY <1>1 DEF KeepInv, Counted, stepVars
  <1>2. ASSUME NEW w \in Workers, RowWriter(w), cur[w] # s PROVE Counted(s)'
    BY <1>2, WriterRows DEF KeepInv, Counted
  <1>3. ASSUME NEW w \in Workers, RowWriter(w), cur[w] = s PROVE Counted(s)'
    <2> USE DEF TypeInv, TypeOK, StepTypes, RunnerTypes, histVars
    <2>1. MaxAttempts[s] \in Nat  BY EngineAssumption DEF Steps
    <2>2. Counted(s) /\ RowAt(w)  BY DEF KeepInv
    <2>3. CASE PrepareStep(w)  BY <1>3, <2>2, <2>3 DEF PrepareStep, Counted
    <2>4. CASE SkipStep(w)  BY <1>3, <2>2, <2>4 DEF SkipStep, Counted
    <2>5. CASE BeginStep(w)
      <3>1. /\ calls'[s] = calls[s] + 1 /\ attemptCount'[s] = seen[w] + 1
            /\ stepStatus'[s] = "RUNNING"
        BY <1>3, <2>5 DEF BeginStep, NextAttempt
      <3>2. seen[w] = attemptCount[s] /\ attemptCount[s] < MaxAttempts[s]
        BY <1>3, <2>2, <2>5 DEF BeginStep, RowAt
      <3>3. attemptCount[s] \in Nat /\ calls[s] = attemptCount[s]  BY <2>2 DEF Counted
      <3> HIDE DEF TypeInv
      <3>4. attemptCount[s] + 1 <= MaxAttempts[s]  BY <2>1, <3>2, <3>3
      <3> QED BY <3>1, <3>2, <3>3, <3>4 DEF Counted
    <2>6. CASE StepSucceeds(w)  BY <1>3, <2>2, <2>6 DEF StepSucceeds, Counted
    <2>7. CASE pc[w] = "handler" /\ StepRetries(w)
      BY <1>3, <2>1, <2>2, <2>7 DEF StepRetries, CanRetry, NextAttempt, RowAt, Counted
    <2>8. CASE StepFails(w)  BY <1>3, <2>2, <2>8 DEF StepFails, Counted
    <2> HIDE DEF TypeInv
    <2> QED BY <1>3, <2>3, <2>4, <2>5, <2>6, <2>7, <2>8 DEF RowWriter
  <1> QED BY <1>1, <1>2, <1>3, CalmWriters

LEMMA KeepStutter == ASSUME KeepInv, UNCHANGED vars PROVE KeepInv'
  BY DEF KeepInv, Passed, RowAt, Handled, Counted, StepsInOrder, CompletedIsComplete,
     vars, dbVars, stepVars, localVars, histVars

LEMMA KeepInvariance == ASSUME Undisturbed PROVE Spec => []KeepInv
  <1>1. TypeInv /\ LeaseInv /\ Calm /\ KeepInv /\ [Next]_vars => KeepInv'
    BY PassedNext, RowAtNext, HandledNext, CountedNext, OrderNext, CompleteNext, KeepStutter
    DEF KeepInv
  <1>2. "pause" \notin FaultKinds  BY DEF Undisturbed
  <1> QED BY <1>1, <1>2, KeepInit, TypeInvariance, LeaseInvariance, CalmInvariance, PTL DEF Spec
-----------------------------------------------------------------------------
(* Steps run in position order, however many jobs wake the execution and   *)
(* however many runs it takes: run() prepares a step only when every step  *)
(* before it is completed or skipped.                                      *)
THEOREM StepsRunInOrder == ASSUME Undisturbed PROVE Spec => []StepsInOrder
  BY KeepInvariance, PTL DEF KeepInv

(* retryPolicy.maxAttempts bounds the calls of a handler over all runs of  *)
(* the execution, not only over the attempts of one job.                   *)
THEOREM HandlersCalledWithinPolicy == ASSUME Undisturbed PROVE Spec => []CallsBounded
  <1>1. KeepInv => CallsBounded
    BY DEF KeepInv, Counted, CallsBounded
  <1> QED BY <1>1, KeepInvariance, PTL

(* completeExecution is reached, and takes effect, only when each step is  *)
(* completed or skipped; and it stays so.                                  *)
THEOREM CompletionMeansAllDone == ASSUME Undisturbed PROVE Spec => []CompletedIsComplete
  BY KeepInvariance, PTL DEF KeepInv

(* No statement of a runner or a reconciler sets back the row of a step    *)
(* that is completed or skipped.                                           *)
THEOREM DoneStepStaysDone == ASSUME Undisturbed PROVE Spec => DoneStepsAreKept
  <1>1. TypeInv /\ Calm /\ KeepInv /\ [Next]_vars
          => [\A s \in Steps : stepStatus[s] \in StepDone => stepStatus'[s] = stepStatus[s]]_stepVars
    BY DoneStays DEF vars, stepVars
  <1> QED BY <1>1, TypeInvariance, CalmInvariance, KeepInvariance, PTL DEF Spec, DoneStepsAreKept
=============================================================================
