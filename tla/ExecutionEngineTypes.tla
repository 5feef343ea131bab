------------------------ MODULE ExecutionEngineTypes ------------------------
(***************************************************************************)
(* Type correctness of ExecutionEngine, for every set of workers and       *)
(* reconcilers and every number of steps, attempts and faults; and first   *)
(* which actions write which rows, so that the proof of an invariant has a *)
(* case for each writer and one for everything else.                       *)
(***************************************************************************)
EXTENDS ExecutionEngine, TLAPS

(* Only the step executor and the abandonment of a lease write step rows.  *)
LEMMA StepWriters ==
  ASSUME Next
  PROVE  \/ UNCHANGED <<stepVars, calls>>
         \/ \E w \in Workers : \/ PrepareStep(w) \/ SkipStep(w) \/ BeginStep(w)
                               \/ StepSucceeds(w) \/ StepRetries(w) \/ StepFails(w)
         \/ \E r \in Reconcilers, s \in Steps : AbandonStep(r, s)
  <1> USE DEF histVars
  <1>1. ASSUME NEW w \in Workers, RunnerStep(w)
        PROVE  \/ UNCHANGED <<stepVars, calls>>
               \/ PrepareStep(w) \/ SkipStep(w) \/ BeginStep(w)
               \/ StepSucceeds(w) \/ StepRetries(w) \/ StepFails(w)
     BY <1>1 DEF RunnerStep, Acquire, RejectLease, LoadExecution, LoseLease, ReuseStep,
       AwaitRetryTime, FindStepExhausted, RecordAttempt, AfterStep, MarkWaiting, AssertNoFailedSteps,
       CompleteExecution, FailExecution, CreateDeadLetter, Release, ScheduleRetry,
       Finish, CloseWorker
  <1>2. ASSUME NEW w \in Workers, RunnerFault(w) PROVE UNCHANGED <<stepVars, calls>>
     BY <1>2 DEF RunnerFault, LoadFails, StatementFails, Crash, BeginShutdown
  <1>3. ASSUME NEW r \in Reconcilers, ReconcilerStep(r)
        PROVE  UNCHANGED <<stepVars, calls>> \/ \E s \in Steps : AbandonStep(r, s)
     BY <1>3 DEF ReconcilerStep, FindExpired, RequeueExpired, EnqueueExpired,
       EnqueueRecovery, FindDue, RequeueDue, EnqueueDue, RecoverPendingDispatch,
       RequeueQueued
  <1> QED
     BY <1>1, <1>2, <1>3 DEF Next, SystemStep, Dispatch, Cancel, LeaseExpires, Consume, TakeJob,
       TakeJobWhileDraining, StallJob, RetryTimePasses, AbortReconcile

(* The statements that write the execution row, its terminal event or its  *)
(* dead letter.                                                            *)
LEMMA RowWriters ==
  ASSUME Next
  PROVE  \/ UNCHANGED <<dbVars, endVars>>
         \/ Cancel \/ LeaseExpires
         \/ \E w \in Workers : \/ Acquire(w) \/ Release(w) \/ MarkWaiting(w)
                               \/ CompleteExecution(w) \/ FailExecution(w)
                               \/ CreateDeadLetter(w)
         \/ \E r \in Reconcilers : RequeueExpired(r) \/ RequeueDue(r)
  <1>1. ASSUME NEW w \in Workers, RunnerStep(w)
        PROVE  \/ UNCHANGED <<dbVars, endVars>>
               \/ Acquire(w) \/ Release(w) \/ MarkWaiting(w)
               \/ CompleteExecution(w) \/ FailExecution(w) \/ CreateDeadLetter(w)
     BY <1>1 DEF RunnerStep, RejectLease, LoadExecution, LoseLease, ReuseStep,
       AwaitRetryTime, FindStepExhausted, PrepareStep, SkipStep, BeginStep,
       StepSucceeds, RecordAttempt, StepRetries, StepFails, AfterStep, AssertNoFailedSteps,
       ScheduleRetry, Finish, CloseWorker
  <1>2. ASSUME NEW w \in Workers, RunnerFault(w) PROVE UNCHANGED <<dbVars, endVars>>
     BY <1>2 DEF RunnerFault, LoadFails, StatementFails, Crash, BeginShutdown
  <1>3. ASSUME NEW r \in Reconcilers, ReconcilerStep(r)
        PROVE  UNCHANGED <<dbVars, endVars>> \/ RequeueExpired(r) \/ RequeueDue(r)
     BY <1>3 DEF ReconcilerStep, FindExpired, AbandonStep, EnqueueExpired,
       EnqueueRecovery, FindDue, EnqueueDue, RecoverPendingDispatch, RequeueQueued
  <1> QED
     BY <1>1, <1>2, <1>3 DEF Next, SystemStep, Dispatch, Consume, TakeJob,
       TakeJobWhileDraining, StallJob, RetryTimePasses, AbortReconcile

(* The calls that change what BullMQ holds, or the job of a consumer.      *)
LEMMA QueueWriters ==
  ASSUME Next
  PROVE  \/ UNCHANGED <<queueVars, job>>
         \/ Dispatch
         \/ \E w \in Workers : Finish(w) \/ ScheduleRetry(w) \/ Crash(w)
         \/ \E w \in Workers, j \in waiting : Consume(w, j)
         \/ \E j \in active : StallJob(j)
         \/ \E k \in 1..timers : RetryTimePasses(k)
         \/ \E r \in Reconcilers : \/ EnqueueExpired(r) \/ EnqueueDue(r)
                                   \/ RecoverPendingDispatch(r) \/ RequeueQueued(r)
  <1> USE DEF localVars
  <1>1. ASSUME NEW w \in Workers, RunnerStep(w)
        PROVE  UNCHANGED <<queueVars, job>> \/ Finish(w) \/ ScheduleRetry(w)
     BY <1>1 DEF RunnerStep, Acquire, RejectLease, LoadExecution, LoseLease, ReuseStep,
       AwaitRetryTime, FindStepExhausted, PrepareStep, SkipStep, BeginStep,
       StepSucceeds, RecordAttempt, StepRetries, StepFails, AfterStep, MarkWaiting,
       AssertNoFailedSteps, CompleteExecution, FailExecution, CreateDeadLetter,
       Release, CloseWorker
  <1>2. ASSUME NEW w \in Workers, RunnerFault(w)
        PROVE  UNCHANGED <<queueVars, job>> \/ Crash(w)
     BY <1>2 DEF RunnerFault, LoadFails, StatementFails, BeginShutdown
  <1>3. ASSUME NEW r \in Reconcilers, ReconcilerStep(r)
        PROVE  \/ UNCHANGED <<queueVars, job>> \/ EnqueueExpired(r) \/ EnqueueDue(r)
               \/ RecoverPendingDispatch(r) \/ RequeueQueued(r)
     BY <1>3 DEF ReconcilerStep, FindExpired, RequeueExpired, AbandonStep, FindDue,
       RequeueDue
  <1> QED
     BY <1>1, <1>2, <1>3 DEF Next, SystemStep, Cancel, LeaseExpires, AbortReconcile

(* The clock and the fault budget.                                         *)
LEMMA TimeWriters ==
  ASSUME Next
  PROVE  /\ \/ UNCHANGED timeVars
            \/ \E w \in Workers : StepRetries(w)
            \/ \E r \in Reconcilers, s \in Steps : AbandonStep(r, s)
            \/ \E k \in 1..timers : RetryTimePasses(k)
         /\ faults' = faults \/ faults' = faults + 1
  <1> USE DEF histVars
  <1>1. ASSUME NEW w \in Workers, RunnerStep(w)
        PROVE  /\ UNCHANGED timeVars \/ StepRetries(w)
               /\ faults' = faults \/ faults' = faults + 1
     BY <1>1 DEF RunnerStep, Acquire, RejectLease, LoadExecution, LoseLease, ReuseStep,
       AwaitRetryTime, FindStepExhausted, PrepareStep, SkipStep, BeginStep,
       StepSucceeds, RecordAttempt, StepRetries, StepFails, AfterStep, MarkWaiting,
       AssertNoFailedSteps, CompleteExecution, FailExecution, CreateDeadLetter,
       Release, ScheduleRetry, Finish, CloseWorker, Throws, Fault
  <1>2. ASSUME NEW w \in Workers, RunnerFault(w)
        PROVE  UNCHANGED timeVars /\ faults' = faults + 1
     BY <1>2 DEF RunnerFault, LoadFails, StatementFails, Crash, BeginShutdown, Fault
  <1>3. ASSUME NEW r \in Reconcilers, ReconcilerStep(r)
        PROVE  /\ UNCHANGED timeVars \/ \E s \in Steps : AbandonStep(r, s)
               /\ faults' = faults
     BY <1>3 DEF ReconcilerStep, FindExpired, RequeueExpired, AbandonStep,
       EnqueueExpired, EnqueueRecovery, FindDue, RequeueDue, EnqueueDue,
       RecoverPendingDispatch, RequeueQueued
  <1> QED
     BY <1>1, <1>2, <1>3 DEF Next, SystemStep, Dispatch, Cancel, LeaseExpires, Consume, TakeJob,
       TakeJobWhileDraining, StallJob, RetryTimePasses, AbortReconcile, Fault

(* Nobody but a runner, or a fault of its process, moves the runner.       *)
LEMMA RunnerWriters ==
  ASSUME Next
  PROVE  \/ UNCHANGED <<pc, cur, seen, wake, heartbeat, leaked, skipNext, draining>>
         \/ \E w \in Workers : RunnerStep(w) \/ RunnerFault(w)
         \/ \E w \in Workers, j \in waiting : TakeJob(w, j)
  <1> USE DEF localVars
  <1>1. ASSUME NEW r \in Reconcilers, ReconcilerStep(r)
        PROVE  UNCHANGED <<pc, cur, seen, wake, heartbeat, leaked, skipNext, draining>>
     BY <1>1 DEF ReconcilerStep, FindExpired, RequeueExpired, AbandonStep,
       EnqueueExpired, EnqueueRecovery, FindDue, RequeueDue, EnqueueDue,
       RecoverPendingDispatch, RequeueQueued
  <1> QED
     BY <1>1 DEF Next, SystemStep, Dispatch, Cancel, LeaseExpires, Consume,
       TakeJobWhileDraining, StallJob, RetryTimePasses, AbortReconcile

(* Only the reconciler moves its own sweep.                                *)
LEMMA ReconcilerWriters ==
  ASSUME Next
  PROVE  \/ UNCHANGED recVars
         \/ \E r \in Reconcilers : ReconcilerStep(r) \/ AbortReconcile(r)
  <1> USE DEF recVars
  <1>1. ASSUME NEW w \in Workers, RunnerStep(w) PROVE UNCHANGED recVars
    BY <1>1 DEF RunnerStep, Acquire, RejectLease, LoadExecution, LoseLease, ReuseStep,
       AwaitRetryTime, FindStepExhausted, PrepareStep, SkipStep, BeginStep,
       StepSucceeds, RecordAttempt, StepRetries, StepFails, AfterStep, MarkWaiting,
       AssertNoFailedSteps, CompleteExecution, FailExecution, CreateDeadLetter,
       Release, ScheduleRetry, Finish, CloseWorker
  <1>2. ASSUME NEW w \in Workers, RunnerFault(w) PROVE UNCHANGED recVars
    BY <1>2 DEF RunnerFault, LoadFails, StatementFails, Crash, BeginShutdown
  <1> QED
    BY <1>1, <1>2 DEF Next, SystemStep, Dispatch, Cancel, LeaseExpires, Consume,
       TakeJob, TakeJobWhileDraining, StallJob, RetryTimePasses

-----------------------------------------------------------------------------
(* Type correctness. A runner that is at a step has that step in cur,      *)
(* which is what keeps cur inside the workflow when it advances.           *)
InStep ==
  \A w \in Workers :
    pc[w] \in {"skip", "begin", "handler", "record", "after"} => cur[w] \in Steps

TypeInv == TypeOK /\ InStep

LEMMA JobTypes ==
  ASSUME NEW n \in Nat
  PROVE  /\ CanonicalJob \in JobIds /\ RetryJob(n) \in JobIds
         /\ RecoveryJob("expired_lease_recovered", n) \in JobIds
         /\ RecoveryJob("retry_recovered", n) \in JobIds
         /\ RecoveryJob("queued_job_recovered", n) \in JobIds
  BY DEF CanonicalJob, RetryJob, RecoveryJob, JobIds, JobKinds

LEMMA TypeInit == Init => TypeInv
  BY EngineAssumption DEF Init, TypeInv, TypeOK, ExecutionTypes, StepTypes, QueueTypes,
     TimeTypes, RunnerTypes, ReconcilerTypes, InStep, Active, Steps, StepStatuses,
     RunnerPC, RunningPC, ReleasePC, ReconcilerPC

LEMMA ExecutionTypesNext ==
  ASSUME TypeInv, Next PROVE ExecutionTypes'
  <1> USE EngineAssumption DEF TypeInv, TypeOK, ExecutionTypes, Active, Terminal
  <1>1. CASE UNCHANGED <<dbVars, endVars>>  BY <1>1 DEF dbVars, endVars
  <1>2. CASE Cancel  BY <1>2 DEF Cancel, Unlock, endVars
  <1>3. CASE LeaseExpires  BY <1>3 DEF LeaseExpires, endVars
  <1>4. ASSUME NEW w \in Workers,
               \/ Acquire(w) \/ Release(w) \/ MarkWaiting(w)
               \/ CompleteExecution(w) \/ FailExecution(w) \/ CreateDeadLetter(w)
        PROVE  ExecutionTypes'
    <2>1. CASE Acquire(w)  BY <2>1 DEF Acquire, endVars
    <2>2. CASE Release(w)  BY <2>2 DEF Release, Unlock, endVars
    <2>3. CASE MarkWaiting(w)  BY <2>3 DEF MarkWaiting, RetryingIfActive, endVars
    <2>4. CASE CompleteExecution(w)  BY <2>4 DEF CompleteExecution, TransitionTerminal
    <2>5. CASE FailExecution(w)  BY <2>5 DEF FailExecution, TransitionTerminal
    <2>6. CASE CreateDeadLetter(w)  BY <2>6 DEF CreateDeadLetter, dbVars
    <2> QED BY <1>4, <2>1, <2>2, <2>3, <2>4, <2>5, <2>6
  <1>5. ASSUME NEW r \in Reconcilers, RequeueExpired(r) \/ RequeueDue(r)
        PROVE  ExecutionTypes'
    BY <1>5 DEF RequeueExpired, RequeueDue, Unlock, endVars
  <1> QED BY <1>1, <1>2, <1>3, <1>4, <1>5, RowWriters

LEMMA StepTypesNext ==
  ASSUME TypeInv, Next PROVE StepTypes'
  <1> USE DEF TypeInv, TypeOK, StepTypes, StepStatuses, stepVars, histVars
  <1>1. CASE UNCHANGED <<stepVars, calls>>  BY <1>1
  <1>2. ASSUME NEW w \in Workers,
               \/ PrepareStep(w) \/ SkipStep(w) \/ BeginStep(w)
               \/ StepSucceeds(w) \/ StepRetries(w) \/ StepFails(w)
        PROVE  StepTypes'
    <2> USE DEF InStep
    <2>1. CASE PrepareStep(w)  BY <2>1 DEF PrepareStep, AtStep
    <2>2. CASE SkipStep(w)  BY <2>2 DEF SkipStep
    <2>3. CASE BeginStep(w)  BY <2>3 DEF BeginStep, NextAttempt, RunnerTypes
    <2>4. CASE StepSucceeds(w)  BY <2>4 DEF StepSucceeds
    <2>5. CASE StepRetries(w)  BY <2>5 DEF StepRetries, Throws, RetryTime, TimeTypes
    <2>6. CASE StepFails(w)  BY <2>6 DEF StepFails, Throws
    <2> QED BY <1>2, <2>1, <2>2, <2>3, <2>4, <2>5, <2>6
  <1>3. ASSUME NEW r \in Reconcilers, NEW s \in Steps, AbandonStep(r, s)
        PROVE  StepTypes'
    BY <1>3 DEF AbandonStep, TimeTypes
  <1> QED BY <1>1, <1>2, <1>3, StepWriters

LEMMA TimeTypesNext ==
  ASSUME TypeInv, Next PROVE TimeTypes'
  <1> USE DEF TypeInv, TypeOK, TimeTypes
  <1>1. CASE UNCHANGED timeVars  BY <1>1, TimeWriters DEF timeVars
  <1>2. ASSUME NEW w \in Workers, StepRetries(w) PROVE TimeTypes'
    BY <1>2, TimeWriters DEF StepRetries, Throws
  <1>3. ASSUME NEW r \in Reconcilers, NEW s \in Steps, AbandonStep(r, s)
        PROVE  TimeTypes'
    <2>1. \/ timers' = timers /\ due' = due
          \/ timers' = timers + 1 /\ due' = due \cup {timers + 1}
      BY <1>3 DEF AbandonStep, timeVars
    <2>2. faults' \in Nat  BY TimeWriters
    <2>3. CASE timers' = timers /\ due' = due  BY <2>2, <2>3
    <2>4. CASE timers' = timers + 1 /\ due' = due \cup {timers + 1}  BY <2>2, <2>4
    <2> QED BY <2>1, <2>3, <2>4
  <1>4. ASSUME NEW k \in 1..timers, RetryTimePasses(k) PROVE TimeTypes'
    BY <1>4, TimeWriters DEF RetryTimePasses
  <1> QED BY <1>1, <1>2, <1>3, <1>4, TimeWriters

LEMMA QueueTypesNext ==
  ASSUME TypeInv, Next PROVE QueueTypes'
  <1> USE JobTypes DEF TypeInv, TypeOK, QueueTypes, queueVars, localVars
  <1>1. CASE UNCHANGED <<queueVars, job>>  BY <1>1
  <1>2. CASE Dispatch  BY <1>2 DEF Dispatch, Enqueue
  <1>3. ASSUME NEW w \in Workers, Finish(w) PROVE QueueTypes'
    BY <1>3 DEF Finish, ForgetRun
  <1>4. ASSUME NEW w \in Workers, ScheduleRetry(w) PROVE QueueTypes'
    BY <1>4 DEF ScheduleRetry, RunnerTypes
  <1>5. ASSUME NEW w \in Workers, Crash(w) PROVE QueueTypes'
    BY <1>5 DEF Crash, ForgetRun
  <1>6. ASSUME NEW w \in Workers, NEW j \in waiting, Consume(w, j) PROVE QueueTypes'
    BY <1>6 DEF Consume, TakeJob, TakeJobWhileDraining
  <1>7. ASSUME NEW j \in active, StallJob(j) PROVE QueueTypes'
    BY <1>7 DEF StallJob
  <1>8. ASSUME NEW k \in 1..timers, RetryTimePasses(k) PROVE QueueTypes'
    BY <1>8 DEF RetryTimePasses
  <1>9. ASSUME NEW r \in Reconcilers,
               \/ EnqueueExpired(r) \/ EnqueueDue(r)
               \/ RecoverPendingDispatch(r) \/ RequeueQueued(r)
        PROVE  QueueTypes'
    BY <1>9 DEF EnqueueExpired, EnqueueDue, EnqueueRecovery, RecoverPendingDispatch,
       RequeueQueued, Enqueue, ReconcilerTypes, ExecutionTypes
  <1> QED
    BY <1>1, <1>2, <1>3, <1>4, <1>5, <1>6, <1>7, <1>8, <1>9, QueueWriters

RunnerInv == RunnerTypes /\ InStep

LEMMA RunnerTypesStep ==
  ASSUME TypeInv, NEW w \in Workers, RunnerStep(w) PROVE RunnerInv'
  <1> USE EngineAssumption
      DEF TypeInv, TypeOK, RunnerInv, RunnerTypes, InStep, Goto, RunnerPC, RunningPC, ReleasePC,
          localVars
  <1>1. CASE Acquire(w)  BY <1>1 DEF Acquire
  <1>2. CASE RejectLease(w)  BY <1>2 DEF RejectLease
  <1>3. CASE LoadExecution(w)  BY <1>3 DEF LoadExecution
  <1>4. CASE LoseLease(w)  BY <1>4 DEF LoseLease
  <1>5. CASE ReuseStep(w)  BY <1>5 DEF ReuseStep, AtStep, Advance, SetSkip, Steps
  <1>6. CASE AwaitRetryTime(w)  BY <1>6 DEF AwaitRetryTime, AtStep, StepTypes
  <1>7. CASE FindStepExhausted(w)  BY <1>7 DEF FindStepExhausted, EnterCatch
  <1>8. CASE PrepareStep(w)  BY <1>8 DEF PrepareStep, AtStep, StepTypes
  <1>9. CASE SkipStep(w)  BY <1>9 DEF SkipStep, Advance, SetSkip, Steps
  <1>10. CASE BeginStep(w)  BY <1>10 DEF BeginStep
  <1>11. CASE StepSucceeds(w)  BY <1>11 DEF StepSucceeds
  <1>12. CASE StepRetries(w)  BY <1>12 DEF StepRetries, Throws, TimeTypes
  <1>13. CASE StepFails(w)  BY <1>13 DEF StepFails, Throws, EnterCatch
  <1>14. CASE AfterStep(w)
    <2>1. CASE OutcomeIsRetrying(w)  BY <1>14, <2>1 DEF AfterStep
    <2>2. CASE ~OutcomeIsRetrying(w)
      <3>1. /\ skipNext' \subseteq Workers
            /\ cur' = [cur EXCEPT ![w] = cur[w] + 1]
            /\ pc' = [pc EXCEPT ![w] = "next"]
            /\ UNCHANGED <<seen, wake, heartbeat, leaked, draining>>
        BY <1>14, <2>2 DEF AfterStep, Advance, SetSkip
      <3>2. cur[w] \in Steps  BY <1>14 DEF AfterStep
      <3> QED BY <3>1, <3>2 DEF Steps
    <2> QED BY <2>1, <2>2
  <1>15. CASE MarkWaiting(w)  BY <1>15 DEF MarkWaiting
  <1>16. CASE AssertNoFailedSteps(w)
    <2>1. CASE EnterCatch(w)  BY <1>16, <2>1 DEF AssertNoFailedSteps, EnterCatch
    <2>2. CASE Goto(w, "complete") /\ UNCHANGED <<wake, heartbeat>>
      BY <1>16, <2>2 DEF AssertNoFailedSteps
    <2> QED BY <1>16, <2>1, <2>2 DEF AssertNoFailedSteps
  <1>17. CASE CompleteExecution(w)  BY <1>17 DEF CompleteExecution
  <1>18. CASE FailExecution(w)  BY <1>18 DEF FailExecution, AfterFail
  <1>19. CASE CreateDeadLetter(w)  BY <1>19 DEF CreateDeadLetter
  <1>20. CASE Release(w)  BY <1>20 DEF Release
  <1>21. CASE ScheduleRetry(w)  BY <1>21 DEF ScheduleRetry
  <1>22. CASE Finish(w)  BY <1>22 DEF Finish, ForgetRun
  <1>23. CASE CloseWorker(w)  BY <1>23 DEF CloseWorker
  <1>24. CASE RecordAttempt(w)  BY <1>24 DEF RecordAttempt
  <1> HIDE DEF TypeInv, RunnerInv
  <1> QED
    BY <1>1, <1>2, <1>3, <1>4, <1>5, <1>6, <1>7, <1>8, <1>9, <1>10, <1>11, <1>12,
       <1>13, <1>14, <1>15, <1>16, <1>17, <1>18, <1>19, <1>20, <1>21, <1>22, <1>23,
       <1>24
    DEF RunnerStep

LEMMA RunnerTypesNext ==
  ASSUME TypeInv, Next PROVE RunnerInv'
  <1> USE EngineAssumption
      DEF TypeInv, TypeOK, RunnerInv, RunnerTypes, InStep, Goto, RunnerPC, RunningPC, ReleasePC
  <1>1. CASE UNCHANGED <<pc, cur, seen, wake, heartbeat, leaked, skipNext, draining>>
    BY <1>1
  <1>2. ASSUME NEW w \in Workers, RunnerFault(w) PROVE RunnerInv'
    <2>1. CASE LoadFails(w)  BY <2>1 DEF LoadFails
    <2>2. CASE StatementFails(w)
      <3>1. CASE EnterCatch(w)  BY <2>2, <3>1 DEF StatementFails, InTryPC, EnterCatch
      <3>2. CASE Goto(w, "finish") /\ UNCHANGED <<wake, heartbeat>>
        BY <2>2, <3>2 DEF StatementFails
      <3> QED BY <2>2, <3>1, <3>2 DEF StatementFails
    <2>3. CASE Crash(w)  BY <2>3 DEF Crash, ForgetRun
    <2>4. CASE BeginShutdown(w)  BY <2>4 DEF BeginShutdown
    <2> QED BY <1>2, <2>1, <2>2, <2>3, <2>4 DEF RunnerFault
  <1>3. ASSUME NEW w \in Workers, NEW j \in waiting, TakeJob(w, j) PROVE RunnerInv'
    BY <1>3 DEF TakeJob
  <1> HIDE DEF TypeInv, RunnerInv
  <1> QED BY <1>1, <1>2, <1>3, RunnerWriters, RunnerTypesStep

LEMMA ReconcilerTypesNext ==
  ASSUME TypeInv, Next PROVE ReconcilerTypes'
  <1> USE DEF TypeInv, TypeOK, ReconcilerTypes, ReconcilerPC, Step, recVars
  <1>1. CASE UNCHANGED recVars  BY <1>1
  <1>2. ASSUME NEW r \in Reconcilers, ReconcilerStep(r) PROVE ReconcilerTypes'
    <2>1. CASE FindExpired(r)  BY <2>1 DEF FindExpired, ExecutionTypes
    <2>2. CASE RequeueExpired(r)  BY <2>2 DEF RequeueExpired
    <2>3. ASSUME NEW s \in Steps, AbandonStep(r, s) PROVE ReconcilerTypes'
      BY <2>3 DEF AbandonStep
    <2>4. CASE EnqueueExpired(r)  BY <2>4 DEF EnqueueExpired, EnqueueRecovery
    <2>5. CASE FindDue(r)  BY <2>5 DEF FindDue, ExecutionTypes
    <2>6. CASE RequeueDue(r)  BY <2>6 DEF RequeueDue
    <2>7. CASE EnqueueDue(r)  BY <2>7 DEF EnqueueDue, EnqueueRecovery
    <2>8. CASE RecoverPendingDispatch(r)  BY <2>8 DEF RecoverPendingDispatch
    <2>9. CASE RequeueQueued(r)  BY <2>9 DEF RequeueQueued
    <2> QED
      BY <1>2, <2>1, <2>2, <2>3, <2>4, <2>5, <2>6, <2>7, <2>8, <2>9 DEF ReconcilerStep
  <1>3. ASSUME NEW r \in Reconcilers, AbortReconcile(r) PROVE ReconcilerTypes'
    BY <1>3 DEF AbortReconcile
  <1> HIDE DEF ReconcilerTypes
  <1> QED BY <1>1, <1>2, <1>3, ReconcilerWriters

LEMMA TypeStutter == ASSUME TypeInv, UNCHANGED vars PROVE TypeInv'
  BY DEF TypeInv, TypeOK, ExecutionTypes, StepTypes, QueueTypes, TimeTypes,
     RunnerTypes, ReconcilerTypes, InStep, vars, dbVars, stepVars, endVars,
     queueVars, timeVars, localVars, recVars, histVars

LEMMA TypeInvariance == Spec => []TypeInv
  <1>1. ASSUME TypeInv, [Next]_vars PROVE TypeInv'
    <2>1. CASE Next
      BY <1>1, <2>1, ExecutionTypesNext, StepTypesNext, QueueTypesNext, TimeTypesNext,
         RunnerTypesNext, ReconcilerTypesNext DEF TypeInv, TypeOK, RunnerInv
    <2>2. CASE UNCHANGED vars  BY <1>1, <2>2, TypeStutter
    <2> QED BY <1>1, <2>1, <2>2
  <1> QED BY <1>1, TypeInit, PTL DEF Spec

(* Every row, queue entry and process local keeps its type, whatever the   *)
(* workers, the reconcilers and the faults do.                             *)
THEOREM TypeCorrect == Spec => []TypeOK
  BY TypeInvariance, PTL DEF TypeInv
=============================================================================
