--------------------------- MODULE ExecutionEngine ---------------------------
(***************************************************************************)
(* One workflow execution, as the worker processes run it: the PostgreSQL  *)
(* execution row with its lease, the step rows of a linear workflow        *)
(* version, the BullMQ queue that delivers jobs for it, the runners that   *)
(* process those jobs, and the reconcilers that rebuild lost work.         *)
(*                                                                         *)
(* Each action is one database statement or queue call of the code, with   *)
(* the local decisions that follow it: two statements separated by an      *)
(* await are two actions, so that every other process may act in between.  *)
(*                                                                         *)
(* Time is abstract. A lease is live or expired; a retry time is a number  *)
(* that is fresh when it is computed and later becomes due.                *)
(***************************************************************************)
EXTENDS Naturals, FiniteSets

CONSTANTS
  Workers,         \* worker processes; a restarted process is another element
  NoWorker,        \* lockedBy = null
  Reconcilers,     \* the reconciliation timers of the worker processes
  StepCount,       \* the version's steps are 1..StepCount, in position order
  MaxAttempts,     \* retryPolicy.maxAttempts, by step
  AmbiguousSteps,  \* http_request and email_notification steps
  SkipSteps,       \* conditional steps that tell the runner to skip the next
  FaultKinds,      \* the faults this instance may suffer
  MaxFaults        \* how many of them

AllFaults == {"crash", "pause", "stall", "redis", "db", "shutdown", "api"}

ASSUME EngineAssumption ==
  /\ NoWorker \notin Workers
  /\ StepCount \in Nat \ {0}
  /\ MaxAttempts \in [1..StepCount -> Nat \ {0}]
  /\ AmbiguousSteps \subseteq 1..StepCount
  /\ SkipSteps \subseteq 1..StepCount
  /\ FaultKinds \subseteq AllFaults
  /\ MaxFaults \in Nat

Steps == 1..StepCount

Active == {"PENDING", "QUEUED", "RUNNING", "RETRYING"}
Terminal == {"COMPLETED", "FAILED", "CANCELLED"}
StepStatuses ==
  {"ABSENT", "PENDING", "RUNNING", "RETRYING", "COMPLETED", "SKIPPED", "FAILED"}
StepDone == {"COMPLETED", "SKIPPED"}

(***************************************************************************)
(* BullMQ job ids. Every producer derives the id of its job from the       *)
(* execution and, for recovery jobs, from the run number it read, so that  *)
(* a repeated add is recognised.                                           *)
(***************************************************************************)
JobKinds == {"canonical", "retry", "expired_lease_recovered",
             "retry_recovered", "queued_job_recovered"}
JobIds == JobKinds \X Nat
NoJob == <<"none", 0>>
CanonicalJob == <<"canonical", 0>>
RetryJob(k) == <<"retry", k>>
RecoveryJobOnce(reason, run) == <<reason, 0>>  \* a variant: the run is left out
RecoveryJob(reason, run) == <<reason, run>>

VARIABLES
  status, lockedBy, lease, runAttempt,             \* Execution row
  stepStatus, attemptCount, nextRetryAt,           \* StepExecution rows
  deadLetters, terminalEvents,                     \* rows written at the end
  delayed, waiting, active, finished, stalledOnce, \* BullMQ
  timers, due,                                     \* retry times
  pc, cur, seen, wake, job, heartbeat, leaked, skipNext, draining, \* runners
  rpc, rrun, rsteps,                               \* reconcilers
  calls, faults                                    \* history

dbVars == <<status, lockedBy, lease, runAttempt>>
stepVars == <<stepStatus, attemptCount, nextRetryAt>>
endVars == <<deadLetters, terminalEvents>>
queueVars == <<delayed, waiting, active, finished, stalledOnce>>
timeVars == <<timers, due>>
localVars == <<cur, seen, wake, job, heartbeat, leaked, skipNext, draining>>
recVars == <<rpc, rrun, rsteps>>
histVars == <<calls, faults>>
vars == <<dbVars, stepVars, endVars, queueVars, timeVars, pc, localVars,
          recVars, histVars>>

RunningPC == {"load", "next", "skip", "begin", "handler", "record", "after",
              "wait", "complete", "fail"}
ReleasePC == {"release", "releaseInTry"}
RunnerPC == RunningPC \cup ReleasePC
            \cup {"idle", "acquire", "deadLetter", "schedule", "finish", "dead"}
ReconcilerPC == {"idle", "expiredUpdate", "expiredSteps", "dueUpdate",
                 "dueEnqueue"}

ExecutionTypes ==
  /\ status \in Active \cup Terminal
  /\ lockedBy \in Workers \cup {NoWorker}
  /\ lease \in {"none", "live", "expired"}
  /\ (lockedBy = NoWorker) <=> (lease = "none")
  /\ runAttempt \in Nat
  /\ deadLetters \in Nat /\ terminalEvents \in Nat

StepTypes ==
  /\ stepStatus \in [Steps -> StepStatuses]
  /\ attemptCount \in [Steps -> Nat]
  /\ nextRetryAt \in [Steps -> Nat]
  /\ calls \in [Steps -> Nat]

QueueTypes ==
  /\ delayed \subseteq JobIds /\ waiting \subseteq JobIds
  /\ active \subseteq JobIds /\ finished \subseteq JobIds
  /\ stalledOnce \subseteq JobIds
  /\ job \in [Workers -> JobIds \cup {NoJob}]

TimeTypes == timers \in Nat /\ due \subseteq 1..timers /\ faults \in Nat

RunnerTypes ==
  /\ pc \in [Workers -> RunnerPC]
  /\ cur \in [Workers -> 1..(StepCount + 1)]
  /\ seen \in [Workers -> Nat]
  /\ wake \in [Workers -> Nat]
  /\ heartbeat \subseteq Workers /\ leaked \subseteq Workers
  /\ skipNext \subseteq Workers /\ draining \subseteq Workers

ReconcilerTypes ==
  /\ rpc \in [Reconcilers -> ReconcilerPC]
  /\ rrun \in [Reconcilers -> Nat]
  /\ rsteps \in [Reconcilers -> SUBSET Steps]

(* Every row, queue entry and process local keeps its type, and a lock     *)
(* owner comes with an expiry time and never without.                      *)
TypeOK ==
  /\ ExecutionTypes /\ StepTypes /\ QueueTypes
  /\ TimeTypes /\ RunnerTypes /\ ReconcilerTypes
-----------------------------------------------------------------------------
(***************************************************************************)
(* Initial states: the API has committed the execution row, QUEUED from    *)
(* the manual, scheduled, replay and event paths, and has not yet called   *)
(* the queue. A webhook's row is PENDING; here its API process stops with  *)
(* the queue call at the latest, and WebhookIngress adds what it does to   *)
(* the row when it does not stop.                                          *)
(***************************************************************************)
Init ==
  /\ status \in {"PENDING", "QUEUED"}
  /\ lockedBy = NoWorker /\ lease = "none" /\ runAttempt = 0
  /\ stepStatus = [s \in Steps |-> "ABSENT"]
  /\ attemptCount = [s \in Steps |-> 0]
  /\ nextRetryAt = [s \in Steps |-> 0]
  /\ deadLetters = 0 /\ terminalEvents = 0
  /\ delayed = {} /\ waiting = {} /\ active = {} /\ finished = {}
  /\ stalledOnce = {}
  /\ timers = 0 /\ due = {}
  /\ pc = [w \in Workers |-> "idle"]
  /\ cur = [w \in Workers |-> 1]
  /\ seen = [w \in Workers |-> 0]
  /\ wake = [w \in Workers |-> 0]
  /\ job = [w \in Workers |-> NoJob]
  /\ heartbeat = {} /\ leaked = {} /\ skipNext = {} /\ draining = {}
  /\ rpc = [r \in Reconcilers |-> "idle"]
  /\ rrun = [r \in Reconcilers |-> 0]
  /\ rsteps = [r \in Reconcilers |-> {}]
  /\ calls = [s \in Steps |-> 0]
  /\ faults = 0

Goto(w, label) == pc' = [pc EXCEPT ![w] = label]

(* lockedBy and lockedUntil are cleared together.                          *)
UnlockKeepsExpiry == lockedBy' = NoWorker /\ UNCHANGED lease  \* a variant
Unlock == lockedBy' = NoWorker /\ lease' = "none"

(* queue.add: an id BullMQ still knows, in any state, is left alone.       *)
Known == delayed \cup waiting \cup active \cup finished
Enqueue(j) == waiting' = IF j \in Known THEN waiting ELSE waiting \cup {j}

(* A fault of the given kind may happen, and uses up one of the budget.    *)
Fault(kind) ==
  /\ kind \in FaultKinds /\ faults < MaxFaults
  /\ faults' = faults + 1
-----------------------------------------------------------------------------
(* API side: publishing the canonical job, and a user's cancellation.      *)

Dispatch ==
  /\ CanonicalJob \notin Known
  /\ Enqueue(CanonicalJob)
  /\ UNCHANGED <<dbVars, stepVars, endVars, delayed, active, finished,
                 stalledOnce, timeVars, pc, localVars, recVars, histVars>>

Cancel ==
  /\ status \in Active
  /\ status' = "CANCELLED" /\ Unlock
  /\ UNCHANGED <<runAttempt, stepVars, endVars, queueVars, timeVars, pc,
                 localVars, recVars, histVars>>
-----------------------------------------------------------------------------
(* The BullMQ consumer of a worker process (concurrency 1).                *)

TakeJob(w, j) ==
  /\ pc[w] = "idle" /\ w \notin draining /\ j \in waiting
  /\ waiting' = waiting \ {j} /\ active' = active \cup {j}
  /\ job' = [job EXCEPT ![w] = j]
  /\ Goto(w, "acquire")
  /\ UNCHANGED <<dbVars, stepVars, endVars, delayed, finished, stalledOnce,
                 timeVars, cur, seen, wake, heartbeat, leaked, skipNext,
                 draining, recVars, histVars>>

(* process() returns at once during shutdown, so the job counts as done.   *)
TakeJobWhileDraining(w, j) ==
  /\ pc[w] = "idle" /\ w \in draining /\ j \in waiting
  /\ waiting' = waiting \ {j} /\ finished' = finished \cup {j}
  /\ UNCHANGED <<dbVars, stepVars, endVars, delayed, active, stalledOnce,
                 timeVars, pc, localVars, recVars, histVars>>

(* The locals of run() and process() go out of scope.                      *)
ForgetRun(w) ==
  /\ job' = [job EXCEPT ![w] = NoJob]
  /\ cur' = [cur EXCEPT ![w] = 1]
  /\ seen' = [seen EXCEPT ![w] = 0]
  /\ wake' = [wake EXCEPT ![w] = 0]
  /\ skipNext' = skipNext \ {w}

(* The handler promise settles. BullMQ keeps the id of a finished job. A   *)
(* worker that lost the job to a stall has nothing to settle.              *)
Finish(w) ==
  /\ pc[w] = "finish"
  /\ active' = active \ {job[w]}
  /\ finished' = finished \cup ({job[w]} \cap active)
  /\ Goto(w, "idle") /\ ForgetRun(w)
  /\ UNCHANGED <<dbVars, stepVars, endVars, delayed, waiting, stalledOnce,
                 timeVars, heartbeat, leaked, draining, recVars, histVars>>
-----------------------------------------------------------------------------
(* ExecutionLeaseService.                                                  *)

AcquirableIfActive(w) == status \in Active  \* a variant: nobody's lease counts
Acquirable(w) ==
  /\ status \in Active
  /\ lockedBy = NoWorker \/ lease = "expired" \/ lockedBy = w

Acquire(w) ==
  /\ pc[w] = "acquire" /\ Acquirable(w)
  /\ lockedBy' = w /\ lease' = "live" /\ status' = "RUNNING"
  /\ runAttempt' = runAttempt + 1
  /\ heartbeat' = heartbeat \cup {w}
  /\ Goto(w, "load")
  /\ UNCHANGED <<stepVars, endVars, queueVars, timeVars, cur, seen, wake, job,
                 leaked, skipNext, draining, recVars, histVars>>

RejectLease(w) ==
  /\ pc[w] = "acquire" /\ ~Acquirable(w)
  /\ Goto(w, "finish")
  /\ UNCHANGED <<dbVars, stepVars, endVars, queueVars, timeVars, localVars,
                 recVars, histVars>>

(* assertOwned                                                             *)
Owns(w) == lockedBy = w /\ lease = "live"

Release(w) ==
  /\ pc[w] \in ReleasePC
  /\ IF lockedBy = w THEN Unlock ELSE UNCHANGED <<lockedBy, lease>>
  /\ heartbeat' = heartbeat \ {w}
  /\ Goto(w, IF wake[w] = 0 THEN "finish" ELSE "schedule")
  /\ UNCHANGED <<status, runAttempt, stepVars, endVars, queueVars, timeVars,
                 cur, seen, wake, job, leaked, skipNext, draining, recVars,
                 histVars>>

(* A lease that nobody renews runs out. One whose heartbeat timer runs, or *)
(* whose holder is only statements away from its release, runs out when    *)
(* the process or its database connection pauses for longer than a lease.  *)
Attended(w) ==
  w \in heartbeat \cup leaked \/ pc[w] \in {"fail", "deadLetter"} \cup ReleasePC

LeaseExpires ==
  /\ lease = "live" /\ lease' = "expired"
  /\ IF Attended(lockedBy) THEN Fault("pause") ELSE UNCHANGED faults
  /\ UNCHANGED <<status, lockedBy, runAttempt, stepVars, endVars, queueVars,
                 timeVars, pc, localVars, recVars, calls>>
-----------------------------------------------------------------------------
(* WorkflowRunner.run: loading, and the loop over the steps.               *)

LoadExecution(w) ==
  /\ pc[w] = "load"
  /\ Goto(w, IF status \in Terminal THEN "release" ELSE "next")
  /\ UNCHANGED <<dbVars, stepVars, endVars, queueVars, timeVars, localVars,
                 recVars, histVars>>

(* A database error before the try block: the job fails and the heartbeat  *)
(* timer that was already started is never cleared.                        *)
LoadFails(w) ==
  /\ pc[w] = "load" /\ Fault("db")
  /\ leaked' = leaked \cup {w} /\ heartbeat' = heartbeat \ {w}
  /\ Goto(w, "finish")
  /\ UNCHANGED <<dbVars, stepVars, endVars, queueVars, timeVars, cur, seen,
                 wake, job, skipNext, draining, recVars, calls>>

SwallowError(w) ==  \* a variant: the error ends the step and not the run
  /\ UNCHANGED heartbeat
  /\ wake' = [wake EXCEPT ![w] = 0]
  /\ Goto(w, "after")

(* run()'s catch block starts by clearing the heartbeat timer.             *)
EnterCatch(w) ==
  /\ heartbeat' = heartbeat \ {w}
  /\ wake' = [wake EXCEPT ![w] = 0]
  /\ Goto(w, "fail")

(* Any other statement of run() may fail with a database error: inside the *)
(* try block the execution is then failed, outside it the job ends, with   *)
(* the lease still held when there is one.                                 *)
InTryPC == (RunningPC \ {"load", "fail"}) \cup {"releaseInTry"}

StatementFails(w) ==
  /\ Fault("db")
  /\ \/ pc[w] \in InTryPC /\ EnterCatch(w)
     \/ /\ pc[w] \in {"acquire", "fail", "deadLetter", "release"}
        /\ Goto(w, "finish")
        /\ UNCHANGED <<wake, heartbeat>>
  /\ UNCHANGED <<dbVars, stepVars, endVars, queueVars, timeVars, cur, seen, job,
                 leaked, skipNext, draining, recVars, calls>>

(* LeaseLostError from assertOwned: the run ends without a release.        *)
LoseLease(w) ==
  /\ pc[w] \in {"next", "after"} /\ ~Owns(w)
  /\ heartbeat' = heartbeat \ {w}
  /\ Goto(w, "finish")
  /\ UNCHANGED <<dbVars, stepVars, endVars, queueVars, timeVars, cur, seen,
                 wake, job, leaked, skipNext, draining, recVars, histVars>>

AtStep(w) == pc[w] = "next" /\ cur[w] \in Steps /\ Owns(w)
Advance(w) == cur' = [cur EXCEPT ![w] = @ + 1] /\ Goto(w, "next")
SetSkip(w, on) == skipNext' = IF on THEN skipNext \cup {w} ELSE skipNext \ {w}

(* nextRetryAt is set and still ahead.                                     *)
NeverAhead(s) == FALSE  \* a variant: the retry time is not looked at
NotYetDue(s) == nextRetryAt[s] # 0 /\ nextRetryAt[s] \notin due

(* The row's status says that its output is reused.                        *)
ReusableIfSkipped(s) == stepStatus[s] = "SKIPPED"  \* a variant
Reusable(s) == stepStatus[s] \in StepDone

(* shouldSkipNext of a reused output.                                      *)
ForgetSkip(s) == FALSE  \* a variant: only a fresh outcome can skip
ShouldSkipNext(s) == stepStatus[s] = "COMPLETED" /\ s \in SkipSteps

(* A COMPLETED or SKIPPED row is reused, with the skip it decided.         *)
ReuseStep(w) ==
  /\ AtStep(w) /\ Reusable(cur[w])
  /\ SetSkip(w, ShouldSkipNext(cur[w]))
  /\ Advance(w)
  /\ UNCHANGED <<dbVars, stepVars, endVars, queueVars, timeVars, seen, wake,
                 job, heartbeat, leaked, draining, recVars, histVars>>

AwaitRetryTime(w) ==
  /\ AtStep(w) /\ stepStatus[cur[w]] = "RETRYING" /\ NotYetDue(cur[w])
  /\ wake' = [wake EXCEPT ![w] = nextRetryAt[cur[w]]]
  /\ Goto(w, "wait")
  /\ UNCHANGED <<dbVars, stepVars, endVars, queueVars, timeVars, cur, seen,
                 job, heartbeat, leaked, skipNext, draining, recVars, histVars>>

Exhausted(s) == stepStatus[s] = "FAILED" /\ attemptCount[s] >= MaxAttempts[s]

FindStepExhausted(w) ==
  /\ AtStep(w) /\ Exhausted(cur[w])
  /\ EnterCatch(w)
  /\ UNCHANGED <<dbVars, stepVars, endVars, queueVars, timeVars, cur, seen, job,
                 leaked, skipNext, draining, recVars, histVars>>

(* ensure() returns a row to execute or skip; the runner keeps its count.  *)
PrepareStep(w) ==
  LET s == cur[w] IN
  /\ AtStep(w)
  /\ ~Reusable(s) /\ ~Exhausted(s)
  /\ ~(stepStatus[s] = "RETRYING" /\ NotYetDue(s))
  /\ stepStatus' = [stepStatus EXCEPT ![s] = IF @ = "ABSENT" THEN "PENDING" ELSE @]
  /\ seen' = [seen EXCEPT ![w] = attemptCount[s]]
  /\ Goto(w, IF w \in skipNext THEN "skip" ELSE "begin")
  /\ UNCHANGED <<dbVars, attemptCount, nextRetryAt, endVars, queueVars,
                 timeVars, cur, wake, job, heartbeat, leaked, skipNext,
                 draining, recVars, histVars>>
-----------------------------------------------------------------------------
(* StepExecutor: skip, the update to RUNNING, and how the handler ends.    *)
(* None of its updates looks at the lease or at the row it overwrites.     *)

SkipStep(w) ==
  /\ pc[w] = "skip"
  /\ stepStatus' = [stepStatus EXCEPT ![cur[w]] = "SKIPPED"]
  /\ SetSkip(w, FALSE) /\ Advance(w)
  /\ UNCHANGED <<dbVars, attemptCount, nextRetryAt, endVars, queueVars,
                 timeVars, seen, wake, job, heartbeat, leaked, draining,
                 recVars, histVars>>

(* nextAttempt, from the row that ensure() returned.                       *)
SameAttempt(w) == seen[w]  \* a variant: the attempt is not counted
NextAttempt(w) == seen[w] + 1

BeginStep(w) ==
  LET s == cur[w] IN
  /\ pc[w] = "begin"
  /\ stepStatus' = [stepStatus EXCEPT ![s] = "RUNNING"]
  /\ attemptCount' = [attemptCount EXCEPT ![s] = NextAttempt(w)]
  /\ nextRetryAt' = [nextRetryAt EXCEPT ![s] = 0]
  /\ calls' = [calls EXCEPT ![s] = @ + 1]
  /\ Goto(w, "handler")
  /\ UNCHANGED <<dbVars, endVars, queueVars, timeVars, localVars, recVars,
                 faults>>

StepSucceeds(w) ==
  /\ pc[w] = "handler"
  /\ stepStatus' = [stepStatus EXCEPT ![cur[w]] = "COMPLETED"]
  /\ Goto(w, "record")
  /\ UNCHANGED <<dbVars, attemptCount, nextRetryAt, endVars, queueVars,
                 timeVars, localVars, recVars, histVars>>

(* The StepExecutionAttempt row, written after the step row.               *)
RecordAttempt(w) ==
  /\ pc[w] = "record"
  /\ Goto(w, "after")
  /\ UNCHANGED <<dbVars, stepVars, endVars, queueVars, timeVars, localVars,
                 recVars, histVars>>

(* What reaches the catch block of execute(): an error of the handler, or  *)
(* of the attempt row that is written after the step row was COMPLETED.    *)
Throws(w) ==
  \/ pc[w] = "handler" /\ UNCHANGED faults
  \/ pc[w] = "record" /\ Fault("db")

(* A retryable error with attempts left is rescheduled.                    *)
CanRetry(w) == NextAttempt(w) < MaxAttempts[cur[w]]

(* retryPolicyResolver.nextRetryAt: a time of its own, not yet reached.    *)
NoRetryTime == 0  \* a variant: the time is not stored
RetryTime == timers + 1

StepRetries(w) ==
  /\ Throws(w) /\ CanRetry(w)
  /\ stepStatus' = [stepStatus EXCEPT ![cur[w]] = "RETRYING"]
  /\ timers' = timers + 1
  /\ nextRetryAt' = [nextRetryAt EXCEPT ![cur[w]] = RetryTime]
  /\ wake' = [wake EXCEPT ![w] = timers + 1]
  /\ Goto(w, "after")
  /\ UNCHANGED <<dbVars, attemptCount, endVars, queueVars, due, cur, seen, job,
                 heartbeat, leaked, skipNext, draining, recVars, calls>>

(* Any other error: the row is FAILED and the error reaches run()'s catch. *)
StepFails(w) ==
  /\ Throws(w)
  /\ stepStatus' = [stepStatus EXCEPT ![cur[w]] = "FAILED"]
  /\ nextRetryAt' = [nextRetryAt EXCEPT ![cur[w]] = 0]
  /\ EnterCatch(w)
  /\ UNCHANGED <<dbVars, attemptCount, endVars, queueVars, timeVars, cur, seen,
                 job, leaked, skipNext, draining, recVars, calls>>

(* Back in run() with the lease still owned.                               *)
OutcomeIsRetrying(w) == wake[w] # 0

AfterStep(w) ==
  /\ pc[w] = "after" /\ Owns(w)
  /\ IF OutcomeIsRetrying(w)
       THEN Goto(w, "wait") /\ UNCHANGED <<cur, skipNext>>
       ELSE SetSkip(w, cur[w] \in SkipSteps) /\ Advance(w)
  /\ UNCHANGED <<dbVars, stepVars, endVars, queueVars, timeVars, seen, wake,
                 job, heartbeat, leaked, draining, recVars, histVars>>

RetryingIfActive == IF status \in Active THEN "RETRYING" ELSE status

MarkWaiting(w) ==
  /\ pc[w] = "wait"
  /\ status' = RetryingIfActive
  /\ heartbeat' = heartbeat \ {w}
  /\ Goto(w, "releaseInTry")
  /\ UNCHANGED <<lockedBy, lease, runAttempt, stepVars, endVars, queueVars,
                 timeVars, cur, seen, wake, job, leaked, skipNext, draining,
                 recVars, histVars>>

(* The processor adds the delayed job; without Redis its job just fails.   *)
ScheduleRetry(w) ==
  LET j == RetryJob(wake[w]) IN
  /\ pc[w] = "schedule"
  /\ \/ /\ IF j \in Known THEN UNCHANGED <<delayed, waiting>>
           ELSE IF wake[w] \in due
           THEN waiting' = waiting \cup {j} /\ UNCHANGED delayed
           ELSE delayed' = delayed \cup {j} /\ UNCHANGED waiting
        /\ UNCHANGED faults
     \/ Fault("redis") /\ UNCHANGED <<delayed, waiting>>
  /\ Goto(w, "finish")
  /\ UNCHANGED <<dbVars, stepVars, endVars, active, finished, stalledOnce,
                 timeVars, localVars, recVars, calls>>
-----------------------------------------------------------------------------
(* The end of run(): completion, failure and the dead letter.              *)

LoopDoneEarly(w) == cur[w] >= StepCount  \* a variant: the last step is not reached
LoopDone(w) == cur[w] \notin Steps

AssertNoFailedSteps(w) ==
  /\ pc[w] = "next" /\ LoopDone(w) /\ Owns(w)
  /\ IF \E s \in Steps : stepStatus[s] = "FAILED"
       THEN EnterCatch(w)
       ELSE Goto(w, "complete") /\ UNCHANGED <<wake, heartbeat>>
  /\ UNCHANGED <<dbVars, stepVars, endVars, queueVars, timeVars, cur, seen, job,
                 leaked, skipNext, draining, recVars, histVars>>

TransitionAlways(to) ==  \* a variant: no status condition
  status' = to /\ terminalEvents' = terminalEvents + 1

EventAlways(to) ==  \* a variant: the event does not depend on the update
  /\ status' = IF status \in Active THEN to ELSE status
  /\ terminalEvents' = terminalEvents + 1

(* transitionTerminal: the conditional update and the event, atomically.   *)
TransitionTerminal(to) ==
  IF status \in Active
    THEN status' = to /\ terminalEvents' = terminalEvents + 1
    ELSE UNCHANGED <<status, terminalEvents>>

CompleteExecution(w) ==
  /\ pc[w] = "complete"
  /\ TransitionTerminal("COMPLETED")
  /\ heartbeat' = heartbeat \ {w}
  /\ Goto(w, "releaseInTry")
  /\ UNCHANGED <<lockedBy, lease, runAttempt, stepVars, deadLetters, queueVars,
                 timeVars, cur, seen, wake, job, leaked, skipNext, draining,
                 recVars, histVars>>

(* Whether this runner's own update failed the execution.                  *)
LetterAlways == "deadLetter"  \* a variant: the count is ignored
LetterNever == "release"      \* a variant: no dead letter is written
AfterFail == IF status \in Active THEN "deadLetter" ELSE "release"

FailExecution(w) ==
  /\ pc[w] = "fail"
  /\ TransitionTerminal("FAILED")
  /\ Goto(w, AfterFail)
  /\ UNCHANGED <<lockedBy, lease, runAttempt, stepVars, deadLetters, queueVars,
                 timeVars, localVars, recVars, histVars>>

(* DeadLetterService.create keeps an unresolved row that already exists.   *)
CreateDeadLetter(w) ==
  /\ pc[w] = "deadLetter"
  /\ deadLetters' = IF deadLetters = 0 THEN 1 ELSE deadLetters
  /\ Goto(w, "release")
  /\ UNCHANGED <<dbVars, stepVars, terminalEvents, queueVars, timeVars,
                 localVars, recVars, histVars>>
-----------------------------------------------------------------------------
(***************************************************************************)
(* ExecutionReconcilerService.reconcile. Its passes run one after another, *)
(* and one that finds nothing changes nothing. What they look for excludes *)
(* each other, so for one execution at most one pass can start; it then    *)
(* works from what it has read.                                            *)
(***************************************************************************)
Step(r, label) == rpc' = [rpc EXCEPT ![r] = label]

LeaseRanOut == lease = "expired"  \* a variant: whatever the status
IsExpiredRunning == status = "RUNNING" /\ lease = "expired"

FindExpired(r) ==
  /\ rpc[r] = "idle" /\ IsExpiredRunning
  /\ Step(r, "expiredUpdate")
  /\ rrun' = [rrun EXCEPT ![r] = runAttempt]
  /\ rsteps' = [rsteps EXCEPT ![r] = {s \in Steps : stepStatus[s] = "RUNNING"}]
  /\ UNCHANGED <<dbVars, stepVars, endVars, queueVars, timeVars, pc, localVars,
                 histVars>>

(* The conditional update; whether it matched is not looked at.            *)
RequeueExpired(r) ==
  /\ rpc[r] = "expiredUpdate"
  /\ IF IsExpiredRunning
       THEN status' = "QUEUED" /\ Unlock
       ELSE UNCHANGED <<status, lockedBy, lease>>
  /\ Step(r, "expiredSteps")
  /\ UNCHANGED <<runAttempt, stepVars, endVars, queueVars, timeVars, pc,
                 localVars, rrun, rsteps, histVars>>

(* Each step that was RUNNING when the rows were read is overwritten.      *)
AbandonStep(r, s) ==
  /\ rpc[r] = "expiredSteps" /\ s \in rsteps[r]
  /\ rsteps' = [rsteps EXCEPT ![r] = @ \ {s}]
  /\ IF s \in AmbiguousSteps
       THEN /\ stepStatus' = [stepStatus EXCEPT ![s] = "FAILED"]
            /\ nextRetryAt' = [nextRetryAt EXCEPT ![s] = 0]
            /\ UNCHANGED timeVars
       ELSE /\ stepStatus' = [stepStatus EXCEPT ![s] = "RETRYING"]
            /\ timers' = timers + 1
            /\ due' = due \cup {timers + 1}
            /\ nextRetryAt' = [nextRetryAt EXCEPT ![s] = timers + 1]
  /\ UNCHANGED <<dbVars, attemptCount, endVars, queueVars, pc, localVars, rpc,
                 rrun, histVars>>

(* The last statement of a pass over the execution.                        *)
EnqueueRecovery(r, reason) ==
  /\ Enqueue(RecoveryJob(reason, rrun[r]))
  /\ Step(r, "idle")
  /\ rrun' = [rrun EXCEPT ![r] = 0]
  /\ UNCHANGED <<dbVars, stepVars, endVars, delayed, active, finished,
                 stalledOnce, timeVars, pc, localVars, rsteps, histVars>>

EnqueueExpired(r) ==
  /\ rpc[r] = "expiredSteps" /\ rsteps[r] = {}
  /\ EnqueueRecovery(r, "expired_lease_recovered")

HasDueStep ==
  \E s \in Steps : stepStatus[s] = "RETRYING" /\ nextRetryAt[s] \in due

QueuedOnly == {"QUEUED"}  \* a variant: RETRYING is left to its delayed job
DueStatuses == {"RETRYING", "QUEUED"}

FindDue(r) ==
  /\ rpc[r] = "idle"
  /\ status \in DueStatuses /\ lockedBy = NoWorker /\ HasDueStep
  /\ Step(r, "dueUpdate") /\ rrun' = [rrun EXCEPT ![r] = runAttempt]
  /\ UNCHANGED <<dbVars, stepVars, endVars, queueVars, timeVars, pc, localVars,
                 rsteps, histVars>>

RequeueDue(r) ==
  /\ rpc[r] = "dueUpdate"
  /\ status' = IF status \in DueStatuses THEN "QUEUED" ELSE status
  /\ Step(r, "dueEnqueue")
  /\ UNCHANGED <<lockedBy, lease, runAttempt, stepVars, endVars, queueVars,
                 timeVars, pc, localVars, rrun, rsteps, histVars>>

EnqueueDue(r) ==
  /\ rpc[r] = "dueEnqueue"
  /\ EnqueueRecovery(r, "retry_recovered")

(* PENDING past the grace period: the canonical id again, no promotion.    *)
RecoverPendingDispatch(r) ==
  /\ rpc[r] = "idle" /\ status = "PENDING" /\ lockedBy = NoWorker
  /\ Enqueue(CanonicalJob)
  /\ UNCHANGED <<dbVars, stepVars, endVars, delayed, active, finished,
                 stalledOnce, timeVars, pc, localVars, recVars, histVars>>

RequeueQueued(r) ==
  /\ rpc[r] = "idle" /\ status = "QUEUED" /\ lockedBy = NoWorker /\ ~HasDueStep
  /\ Enqueue(RecoveryJob("queued_job_recovered", runAttempt))
  /\ UNCHANGED <<dbVars, stepVars, endVars, delayed, active, finished,
                 stalledOnce, timeVars, pc, localVars, recVars, histVars>>

(* A process that dies, or an exception, ends the pass where it is.        *)
AbortReconcile(r) ==
  /\ \/ rpc[r] # "idle" /\ (Fault("crash") \/ Fault("db"))
     \/ rpc[r] = "dueEnqueue" /\ Fault("redis")
     \/ rpc[r] = "expiredSteps" /\ rsteps[r] = {} /\ Fault("redis")
  /\ Step(r, "idle")
  /\ rsteps' = [rsteps EXCEPT ![r] = {}]
  /\ rrun' = [rrun EXCEPT ![r] = 0]
  /\ UNCHANGED <<dbVars, stepVars, endVars, queueVars, timeVars, pc, localVars,
                 calls>>
-----------------------------------------------------------------------------
(* What happens to the processes, the queue and time.                      *)

SomeoneElseUp(w) == \E v \in Workers \ {w} : pc[v] # "dead" /\ v \notin draining

Crash(w) ==
  /\ pc[w] # "dead" /\ SomeoneElseUp(w) /\ Fault("crash")
  /\ Goto(w, "dead") /\ ForgetRun(w)
  /\ heartbeat' = heartbeat \ {w} /\ leaked' = leaked \ {w}
  /\ UNCHANGED <<dbVars, stepVars, endVars, queueVars, timeVars, draining,
                 recVars, calls>>

BeginShutdown(w) ==
  /\ pc[w] # "dead" /\ w \notin draining /\ SomeoneElseUp(w)
  /\ Fault("shutdown")
  /\ draining' = draining \cup {w}
  /\ UNCHANGED <<dbVars, stepVars, endVars, queueVars, timeVars, pc, cur, seen,
                 wake, job, heartbeat, leaked, skipNext, recVars, calls>>

CloseWorker(w) ==
  /\ w \in draining /\ pc[w] = "idle"
  /\ Goto(w, "dead")
  /\ leaked' = leaked \ {w}
  /\ UNCHANGED <<dbVars, stepVars, endVars, queueVars, timeVars, cur, seen,
                 wake, job, heartbeat, skipNext, draining, recVars, histVars>>

Held(j) == \E w \in Workers : job[w] = j

(* BullMQ redelivers a job whose lock was not renewed, once; then it fails *)
(* it. A live consumer that loses its lock keeps running regardless.       *)
StallJob(j) ==
  /\ j \in active
  /\ IF Held(j) THEN Fault("stall") ELSE UNCHANGED faults
  /\ active' = active \ {j}
  /\ IF j \in stalledOnce
       THEN finished' = finished \cup {j} /\ UNCHANGED <<waiting, stalledOnce>>
       ELSE /\ waiting' = waiting \cup {j}
            /\ stalledOnce' = stalledOnce \cup {j}
            /\ UNCHANGED finished
  /\ job' = [w \in Workers |-> IF job[w] = j THEN NoJob ELSE job[w]]
  /\ UNCHANGED <<dbVars, stepVars, endVars, delayed, timeVars, pc, cur, seen,
                 wake, heartbeat, leaked, skipNext, draining, recVars, calls>>

(* A retry time passes, and with it the delay of its job.                  *)
RetryTimePasses(k) ==
  /\ k \in (1..timers) \ due
  /\ due' = due \cup {k}
  /\ delayed' = delayed \ {RetryJob(k)}
  /\ waiting' = waiting \cup ({RetryJob(k)} \cap delayed)
  /\ UNCHANGED <<dbVars, stepVars, endVars, active, finished, stalledOnce,
                 timers, pc, localVars, recVars, histVars>>
-----------------------------------------------------------------------------
RunnerStep(w) ==
  \/ Acquire(w) \/ RejectLease(w) \/ LoadExecution(w) \/ LoseLease(w)
  \/ ReuseStep(w) \/ AwaitRetryTime(w) \/ FindStepExhausted(w)
  \/ PrepareStep(w) \/ SkipStep(w) \/ BeginStep(w)
  \/ StepSucceeds(w) \/ RecordAttempt(w) \/ StepRetries(w) \/ StepFails(w) \/ AfterStep(w)
  \/ MarkWaiting(w) \/ AssertNoFailedSteps(w) \/ CompleteExecution(w)
  \/ FailExecution(w) \/ CreateDeadLetter(w) \/ Release(w)
  \/ ScheduleRetry(w) \/ Finish(w) \/ CloseWorker(w)

RunnerFault(w) ==
  LoadFails(w) \/ StatementFails(w) \/ Crash(w) \/ BeginShutdown(w)

Consume(w, j) == TakeJob(w, j) \/ TakeJobWhileDraining(w, j)

ReconcilerStep(r) ==
  \/ FindExpired(r) \/ RequeueExpired(r) \/ (\E s \in Steps : AbandonStep(r, s))
  \/ EnqueueExpired(r) \/ FindDue(r) \/ RequeueDue(r) \/ EnqueueDue(r)
  \/ RecoverPendingDispatch(r) \/ RequeueQueued(r)

(* Everything but the API request that created the execution.              *)
SystemStep ==
  \/ Cancel \/ LeaseExpires
  \/ \E w \in Workers : RunnerStep(w) \/ RunnerFault(w)
  \/ \E w \in Workers, j \in waiting : Consume(w, j)
  \/ \E j \in active : StallJob(j)
  \/ \E k \in 1..timers : RetryTimePasses(k)
  \/ \E r \in Reconcilers : ReconcilerStep(r) \/ AbortReconcile(r)

Next == Dispatch \/ SystemStep

Spec == Init /\ [][Next]_vars

(***************************************************************************)
(* What the scheduling guarantees: a live process goes on (a handler ends  *)
(* at its timeout at the latest), BullMQ delivers waiting jobs and finds   *)
(* stalled ones, time passes, and the reconciliation timer keeps firing.   *)
(* The API call, the user and the faults are free not to happen.           *)
(***************************************************************************)
Fairness ==
  /\ \A w \in Workers : WF_vars(RunnerStep(w))
  /\ WF_vars(\E w \in Workers, j \in waiting : Consume(w, j))
  /\ WF_vars(LeaseExpires /\ UNCHANGED faults)
  /\ WF_vars(\E j \in active : StallJob(j) /\ UNCHANGED faults)
  /\ WF_vars(\E k \in 1..timers : RetryTimePasses(k))
  /\ \A r \in Reconcilers : WF_vars(ReconcilerStep(r))

FairSpec == Spec /\ Fairness
-----------------------------------------------------------------------------
(***************************************************************************)
(* Properties that hold whatever faults happen.                            *)
(***************************************************************************)

(* transitionTerminal emits EXECUTION_COMPLETED or EXECUTION_FAILED in the *)
(* transaction that ends the execution: exactly one event for an execution *)
(* that ended so, none for one that is still going or was cancelled.       *)
TerminalEventOnce ==
  terminalEvents = IF status \in {"COMPLETED", "FAILED"} THEN 1 ELSE 0

(* Only the runner whose own update failed the execution writes its dead   *)
(* letter: an execution that completed, was cancelled, or is still active  *)
(* has none, and a failed one has at most one.                             *)
DeadLetterOnlyForFailed ==
  deadLetters <= IF status = "FAILED" THEN 1 ELSE 0

(* No late statement of a runner or a reconciler revives an execution that *)
(* has ended, or changes how it ended.                                     *)
TerminalIsFinal == [][(status \in Terminal) => (status' = status)]_status

(* The step after a conditional step that said skipNext is not executed,   *)
(* also when the runner that evaluated the condition died in between.      *)
SkippedIsNotCalled ==
  \A s \in SkipSteps :
    s + 1 \in Steps /\ stepStatus[s] = "COMPLETED" => calls[s + 1] = 0

(***************************************************************************)
(* Properties that need the lease to be kept.                              *)
(***************************************************************************)

(* The lease allows one active logical runner.                             *)
OneActiveRunner ==
  \A v, w \in Workers : pc[v] \in RunningPC /\ pc[w] \in RunningPC => v = w

(* An unlocked execution is never in a state the reconciler does not look  *)
(* for: it is not RUNNING, and when it is RETRYING some step has a time.   *)
(* An ambiguous step must have at most two attempts: with a third, the     *)
(* late update for an expired lease can overwrite the row of a runner      *)
(* that is already waiting, and leave RETRYING without a time.             *)
RestingIsRecoverable ==
  lockedBy = NoWorker =>
    /\ status # "RUNNING"
    /\ status = "RETRYING" =>
         \E s \in Steps : stepStatus[s] = "RETRYING" /\ nextRetryAt[s] # 0

(* Steps run in position order: nothing is prepared before everything in   *)
(* front of it is completed or skipped.                                    *)
StepsInOrder ==
  \A s, u \in Steps : s < u /\ stepStatus[u] # "ABSENT" => stepStatus[s] \in StepDone

(* A step waiting for its retry time is not executed earlier, whatever job *)
(* happens to wake the execution.                                          *)
BackoffRespected ==
  [][\A s \in Steps :
       stepStatus[s] = "RETRYING" /\ stepStatus'[s] = "RUNNING"
         => nextRetryAt[s] \in due \cup {0}]_stepVars

(* A handler is never invoked more often than its retry policy allows,     *)
(* however many jobs and runs it takes to get through the step.            *)
CallsBounded == \A s \in Steps : calls[s] <= MaxAttempts[s]

(* An execution completes only when each of its steps is done.             *)
CompletedIsComplete ==
  status = "COMPLETED" => \A s \in Steps : stepStatus[s] \in StepDone

(* What a step has done is kept: the row of a completed or skipped step is *)
(* never set back.                                                         *)
DoneStepsAreKept ==
  [][\A s \in Steps : stepStatus[s] \in StepDone => stepStatus'[s] = stepStatus[s]]_stepVars

(* The execution row moves along VALID_TRANSITIONS, its terminal event is  *)
(* emitted with the transition that ends it, and a dead letter follows     *)
(* only a failure: the engine implements ExecutionLifecycle.               *)
Lifecycle == INSTANCE ExecutionLifecycle
               WITH events <- terminalEvents, letters <- deadLetters
ImplementsLifecycle == Lifecycle!Spec

(***************************************************************************)
(* Liveness, under FairSpec.                                               *)
(***************************************************************************)

(* Every execution that was committed ends, even when no job for it ever   *)
(* reached the queue.                                                      *)
EventuallyTerminal == <>(status \in Terminal)

(* Executions that fail definitively are preserved as dead letters.        *)
FailedIsDeadLettered == status = "FAILED" ~> deadLetters = 1
=============================================================================
