----------------------- MODULE ExecutionEngineProofs ------------------------
(***************************************************************************)
(* How the runners of ExecutionEngine move, what happens once at the end   *)
(* of an execution, and which of its steps are skipped.                    *)
(***************************************************************************)
EXTENDS ExecutionEngineTypes, WellFoundedInduction

(* How a runner moves. HoldingPC are the places between acquire and        *)
(* release, BeatingPC those among them where the heartbeat timer runs.     *)
HoldingPC == RunningPC \cup ReleasePC \cup {"deadLetter"}
BeatingPC == RunningPC \ {"fail"}

Moves(w) ==
  /\ \A v \in Workers \ {w} : pc'[v] = pc[v] /\ (v \in heartbeat => v \in heartbeat')
  /\ pc'[w] \in HoldingPC => pc[w] \in HoldingPC
  /\ pc'[w] \in BeatingPC => pc[w] \in BeatingPC /\ (w \in heartbeat => w \in heartbeat')
  /\ pc'[w] = "deadLetter" =>
       pc[w] = "deadLetter" \/ (FailExecution(w) /\ status \in Active)

LEMMA RunnerMoves ==
  ASSUME TypeInv, NEW w \in Workers, RunnerStep(w), ~Acquire(w) PROVE Moves(w)
  <1> USE DEF TypeInv, TypeOK, RunnerTypes, Moves, HoldingPC, BeatingPC, RunningPC, ReleasePC,
              Goto, localVars
  <1>1. CASE RejectLease(w)  BY <1>1 DEF RejectLease
  <1>2. CASE LoadExecution(w)  BY <1>2 DEF LoadExecution
  <1>3. CASE LoseLease(w)  BY <1>3 DEF LoseLease
  <1>4. CASE ReuseStep(w)  BY <1>4 DEF ReuseStep, AtStep, Advance
  <1>5. CASE AwaitRetryTime(w)  BY <1>5 DEF AwaitRetryTime, AtStep
  <1>6. CASE FindStepExhausted(w)  BY <1>6 DEF FindStepExhausted, EnterCatch, AtStep
  <1>7. CASE PrepareStep(w)  BY <1>7 DEF PrepareStep, AtStep
  <1>8. CASE SkipStep(w)  BY <1>8 DEF SkipStep, Advance
  <1>9. CASE BeginStep(w)  BY <1>9 DEF BeginStep
  <1>10. CASE StepSucceeds(w)  BY <1>10 DEF StepSucceeds
  <1>11. CASE StepRetries(w)  BY <1>11 DEF StepRetries, Throws
  <1>12. CASE StepFails(w)  BY <1>12 DEF StepFails, Throws, EnterCatch
  <1>13. CASE AfterStep(w)  BY <1>13 DEF AfterStep, Advance
  <1>14. CASE MarkWaiting(w)  BY <1>14 DEF MarkWaiting
  <1>15. CASE AssertNoFailedSteps(w)  BY <1>15 DEF AssertNoFailedSteps, EnterCatch
  <1>16. CASE CompleteExecution(w)  BY <1>16 DEF CompleteExecution
  <1>17. CASE FailExecution(w)  BY <1>17 DEF FailExecution, AfterFail
  <1>18. CASE CreateDeadLetter(w)  BY <1>18 DEF CreateDeadLetter
  <1>19. CASE Release(w)  BY <1>19 DEF Release
  <1>20. CASE ScheduleRetry(w)  BY <1>20 DEF ScheduleRetry
  <1>21. CASE Finish(w)  BY <1>21 DEF Finish
  <1>22. CASE CloseWorker(w)  BY <1>22 DEF CloseWorker
  <1>23. CASE RecordAttempt(w)  BY <1>23 DEF RecordAttempt
  <1> QED
    BY <1>1, <1>2, <1>3, <1>4, <1>5, <1>6, <1>7, <1>8, <1>9, <1>10, <1>11, <1>12,
       <1>13, <1>14, <1>15, <1>16, <1>17, <1>18, <1>19, <1>20, <1>21, <1>22,
       <1>23
    DEF RunnerStep

LEMMA FaultMoves ==
  ASSUME TypeInv, NEW w \in Workers, RunnerFault(w) PROVE Moves(w)
  <1> USE DEF TypeInv, TypeOK, RunnerTypes, Moves, HoldingPC, BeatingPC, RunningPC, ReleasePC, Goto
  <1>1. CASE LoadFails(w)  BY <1>1 DEF LoadFails
  <1>2. CASE StatementFails(w)
    <2>1. /\ \A v \in Workers \ {w} : pc'[v] = pc[v] /\ (v \in heartbeat => v \in heartbeat')
          /\ \/ pc'[w] = "fail" /\ pc[w] \in HoldingPC
             \/ pc'[w] = "finish"
      BY <1>2 DEF StatementFails, InTryPC, EnterCatch
    <2> QED BY <2>1
  <1>3. CASE Crash(w)  BY <1>3 DEF Crash
  <1>4. CASE BeginShutdown(w)
    BY <1>4 DEF BeginShutdown
  <1> QED BY <1>1, <1>2, <1>3, <1>4, RunnerFault(w) DEF RunnerFault

LEMMA TakeMoves ==
  ASSUME TypeInv, NEW w \in Workers, NEW j, TakeJob(w, j) PROVE Moves(w)
  BY DEF TypeInv, TypeOK, RunnerTypes, Moves, HoldingPC, BeatingPC, RunningPC, ReleasePC, Goto,
     TakeJob

(* Every step of the system leaves the runners alone, is an acquisition,   *)
(* or moves one runner.                                                    *)
LEMMA NextMoves ==
  ASSUME TypeInv, Next
  PROVE  \/ UNCHANGED <<pc, heartbeat>>
         \/ \E w \in Workers : Acquire(w) \/ Moves(w)
  BY RunnerWriters, RunnerMoves, FaultMoves, TakeMoves
-----------------------------------------------------------------------------
(* A runner comes to a place by one of the statements in front of it.      *)
Arrival(w) ==
  /\ pc'[w] = "load" => Acquire(w)
  /\ pc'[w] = "next" => LoadExecution(w) \/ ReuseStep(w) \/ SkipStep(w) \/ AfterStep(w)
  /\ pc'[w] \in {"skip", "begin"} => PrepareStep(w)
  /\ pc'[w] = "handler" => BeginStep(w)
  /\ pc'[w] = "record" => StepSucceeds(w)
  /\ pc'[w] = "after" => RecordAttempt(w) \/ StepRetries(w)
  /\ pc'[w] = "wait" => AwaitRetryTime(w) \/ AfterStep(w)
  /\ pc'[w] = "complete" => AssertNoFailedSteps(w)
  /\ pc'[w] = "deadLetter" => FailExecution(w)
  /\ pc'[w] = "release" => LoadExecution(w) \/ FailExecution(w) \/ CreateDeadLetter(w)
  /\ pc'[w] = "releaseInTry" => MarkWaiting(w) \/ CompleteExecution(w)
  /\ pc'[w] = "idle" => Finish(w)
  /\ pc'[w] # "acquire"

Rests(w) == pc'[w] = pc[w] /\ cur'[w] = cur[w] /\ seen'[w] = seen[w] /\ wake'[w] = wake[w]

LEMMA RunnerArrives ==
  ASSUME TypeInv, NEW w \in Workers, RunnerStep(w)
  PROVE  Arrival(w) /\ \A v \in Workers \ {w} : Rests(v)
  <1> USE DEF TypeInv, TypeOK, RunnerTypes, Arrival, Rests, Goto, localVars
  <1>1. CASE Acquire(w)  BY <1>1 DEF Acquire
  <1>2. CASE RejectLease(w)  BY <1>2 DEF RejectLease
  <1>3. CASE LoadExecution(w)  BY <1>3 DEF LoadExecution
  <1>4. CASE LoseLease(w)  BY <1>4 DEF LoseLease
  <1>5. CASE ReuseStep(w)  BY <1>5 DEF ReuseStep, Advance
  <1>6. CASE AwaitRetryTime(w)  BY <1>6 DEF AwaitRetryTime
  <1>7. CASE FindStepExhausted(w)  BY <1>7 DEF FindStepExhausted, EnterCatch
  <1>8. CASE PrepareStep(w)  BY <1>8 DEF PrepareStep
  <1>9. CASE SkipStep(w)  BY <1>9 DEF SkipStep, Advance
  <1>10. CASE BeginStep(w)  BY <1>10 DEF BeginStep
  <1>11. CASE StepSucceeds(w)  BY <1>11 DEF StepSucceeds
  <1>12. CASE StepRetries(w)  BY <1>12 DEF StepRetries
  <1>13. CASE StepFails(w)  BY <1>13 DEF StepFails, EnterCatch
  <1>14. CASE AfterStep(w)  BY <1>14 DEF AfterStep, Advance
  <1>15. CASE MarkWaiting(w)  BY <1>15 DEF MarkWaiting
  <1>16. CASE AssertNoFailedSteps(w)  BY <1>16 DEF AssertNoFailedSteps, EnterCatch
  <1>17. CASE CompleteExecution(w)  BY <1>17 DEF CompleteExecution
  <1>18. CASE FailExecution(w)  BY <1>18 DEF FailExecution, AfterFail
  <1>19. CASE CreateDeadLetter(w)  BY <1>19 DEF CreateDeadLetter
  <1>20. CASE Release(w)  BY <1>20 DEF Release
  <1>21. CASE ScheduleRetry(w)  BY <1>21 DEF ScheduleRetry
  <1>22. CASE Finish(w)  BY <1>22 DEF Finish, ForgetRun
  <1>23. CASE CloseWorker(w)  BY <1>23 DEF CloseWorker
  <1>24. CASE RecordAttempt(w)  BY <1>24 DEF RecordAttempt
  <1> HIDE DEF TypeInv, Arrival, Rests
  <1> QED
    BY <1>1, <1>2, <1>3, <1>4, <1>5, <1>6, <1>7, <1>8, <1>9, <1>10, <1>11, <1>12,
       <1>13, <1>14, <1>15, <1>16, <1>17, <1>18, <1>19, <1>20, <1>21, <1>22, <1>23,
       <1>24
    DEF RunnerStep

(* A step of the system leaves a runner where it is, takes a job for it,   *)
(* moves it on, or is a fault that sends it to the end of its run.         *)
LEMMA Arrives ==
  ASSUME TypeInv, Next, NEW w \in Workers
  PROVE  \/ Rests(w)
         \/ RunnerStep(w) /\ Arrival(w)
         \/ \E j \in waiting : TakeJob(w, j)
         \/ RunnerFault(w) /\ pc'[w] \in {"finish", "fail", "dead"}
  <1> USE DEF TypeInv, TypeOK, RunnerTypes, Goto
  <1>1. CASE UNCHANGED <<pc, cur, seen, wake, heartbeat, leaked, skipNext, draining>>
    BY <1>1 DEF Rests
  <1>2. ASSUME NEW v \in Workers, RunnerStep(v)
        PROVE  Rests(w) \/ (RunnerStep(w) /\ Arrival(w))
    BY <1>2, RunnerArrives
  <1>3. ASSUME NEW v \in Workers, RunnerFault(v)
        PROVE  Rests(w) \/ (RunnerFault(w) /\ pc'[w] \in {"finish", "fail", "dead"})
    <2>1. CASE LoadFails(v)  BY <1>3, <2>1 DEF LoadFails, Rests
    <2>2. CASE StatementFails(v)  BY <1>3, <2>2 DEF StatementFails, EnterCatch, Rests
    <2>3. CASE Crash(v)  BY <1>3, <2>3 DEF Crash, ForgetRun, Rests
    <2>4. CASE BeginShutdown(v)  BY <2>4 DEF BeginShutdown, Rests
    <2> QED BY <1>3, <2>1, <2>2, <2>3, <2>4 DEF RunnerFault
  <1>4. ASSUME NEW v \in Workers, NEW j \in waiting, TakeJob(v, j)
        PROVE  Rests(w) \/ TakeJob(w, j)
    BY <1>4 DEF TakeJob, Rests
  <1> HIDE DEF TypeInv
  <1> QED BY <1>1, <1>2, <1>3, <1>4, RunnerWriters
-----------------------------------------------------------------------------
(* The end of an execution.                                                *)

LEMMA FinalNext == ASSUME TypeInv, Next, status \in Terminal PROVE status' = status
  <1> USE DEF Active, Terminal
  <1>1. CASE UNCHANGED <<dbVars, endVars>>  BY <1>1 DEF dbVars
  <1>2. CASE Cancel  BY <1>2 DEF Cancel
  <1>3. CASE LeaseExpires  BY <1>3 DEF LeaseExpires
  <1>4. ASSUME NEW w \in Workers,
               \/ Acquire(w) \/ Release(w) \/ MarkWaiting(w)
               \/ CompleteExecution(w) \/ FailExecution(w) \/ CreateDeadLetter(w)
        PROVE  status' = status
    BY <1>4 DEF Acquire, Acquirable, Release, MarkWaiting, RetryingIfActive,
       CompleteExecution, FailExecution, TransitionTerminal, CreateDeadLetter, dbVars
  <1>5. ASSUME NEW r \in Reconcilers, RequeueExpired(r) \/ RequeueDue(r)
        PROVE  status' = status
    BY <1>5 DEF RequeueExpired, IsExpiredRunning, RequeueDue, DueStatuses
  <1> QED BY <1>1, <1>2, <1>3, <1>4, <1>5, RowWriters

(* No runner, reconciler or fault changes the status of an execution that  *)
(* has completed, failed or been cancelled.                                *)
THEOREM TerminalNeverChanges == Spec => TerminalIsFinal
  <1>1. ASSUME TypeInv, [Next]_vars
        PROVE  [(status \in Terminal) => (status' = status)]_status
    BY <1>1, FinalNext DEF vars, dbVars
  <1> QED BY <1>1, TypeInvariance, PTL DEF Spec, TerminalIsFinal

(* A runner about to write a dead letter has failed the execution itself.  *)
LetterPending == \A w \in Workers : pc[w] = "deadLetter" => status = "FAILED"

EndInv == TerminalEventOnce /\ DeadLetterOnlyForFailed /\ LetterPending

LEMMA EndInit == Init => EndInv
  BY DEF Init, EndInv, TerminalEventOnce, DeadLetterOnlyForFailed, LetterPending

LEMMA EventsNext == ASSUME TypeInv, EndInv, Next PROVE TerminalEventOnce'
  <1> USE DEF TypeInv, TypeOK, ExecutionTypes, EndInv, TerminalEventOnce, Active, Terminal
  <1>1. CASE UNCHANGED <<dbVars, endVars>>  BY <1>1 DEF dbVars, endVars
  <1>2. CASE Cancel  BY <1>2 DEF Cancel, endVars
  <1>3. CASE LeaseExpires  BY <1>3 DEF LeaseExpires, endVars
  <1>4. ASSUME NEW w \in Workers,
               \/ Acquire(w) \/ Release(w) \/ MarkWaiting(w)
               \/ CompleteExecution(w) \/ FailExecution(w) \/ CreateDeadLetter(w)
        PROVE  TerminalEventOnce'
    <2>1. CASE Acquire(w)  BY <2>1 DEF Acquire, Acquirable, endVars
    <2>2. CASE Release(w)  BY <2>2 DEF Release, endVars
    <2>3. CASE MarkWaiting(w)  BY <2>3 DEF MarkWaiting, RetryingIfActive, endVars
    <2>4. CASE CompleteExecution(w)  BY <2>4 DEF CompleteExecution, TransitionTerminal
    <2>5. CASE FailExecution(w)  BY <2>5 DEF FailExecution, TransitionTerminal
    <2>6. CASE CreateDeadLetter(w)  BY <2>6 DEF CreateDeadLetter, dbVars
    <2> QED BY <1>4, <2>1, <2>2, <2>3, <2>4, <2>5, <2>6
  <1>5. ASSUME NEW r \in Reconcilers, RequeueExpired(r) \/ RequeueDue(r)
        PROVE  TerminalEventOnce'
    BY <1>5 DEF RequeueExpired, IsExpiredRunning, RequeueDue, DueStatuses, endVars
  <1> QED BY <1>1, <1>2, <1>3, <1>4, <1>5, RowWriters

LEMMA LettersNext == ASSUME TypeInv, EndInv, Next PROVE DeadLetterOnlyForFailed'
  <1> USE DEF TypeInv, TypeOK, ExecutionTypes, EndInv, DeadLetterOnlyForFailed, Terminal
  <1>1. ASSUME deadLetters' = deadLetters PROVE DeadLetterOnlyForFailed'
    BY <1>1, FinalNext
  <1>2. ASSUME NEW w \in Workers, CreateDeadLetter(w) PROVE DeadLetterOnlyForFailed'
    BY <1>2 DEF CreateDeadLetter, LetterPending, dbVars
  <1>3. deadLetters' = deadLetters \/ \E w \in Workers : CreateDeadLetter(w)
    BY RowWriters DEF endVars, Cancel, LeaseExpires, Acquire, Release, MarkWaiting,
       CompleteExecution, FailExecution, RequeueExpired, RequeueDue
  <1> QED BY <1>1, <1>2, <1>3

LEMMA PendingNext == ASSUME TypeInv, EndInv, Next PROVE LetterPending'
  <1> SUFFICES ASSUME NEW v \in Workers, pc'[v] = "deadLetter" PROVE status' = "FAILED"
    BY DEF LetterPending
  <1>1. CASE pc[v] = "deadLetter"
    BY <1>1, FinalNext DEF EndInv, LetterPending, Terminal
  <1>2. CASE pc[v] # "deadLetter"
    <2>1. \E w \in Workers : Acquire(w) \/ Moves(w)  BY <1>2, NextMoves
    <2>2. PICK w \in Workers : Acquire(w) \/ Moves(w)  BY <2>1
    <2>3. ~Acquire(w)
      BY <1>2 DEF Acquire, Goto, TypeInv, TypeOK, RunnerTypes
    <2>4. FailExecution(w) /\ status \in Active  BY <1>2, <2>2, <2>3 DEF Moves
    <2> QED BY <2>4 DEF FailExecution, TransitionTerminal
  <1> QED BY <1>1, <1>2

LEMMA EndInvariance == Spec => []EndInv
  <1>1. ASSUME TypeInv, EndInv, [Next]_vars PROVE EndInv'
    <2>1. CASE Next  BY <1>1, <2>1, EventsNext, LettersNext, PendingNext DEF EndInv
    <2>2. CASE UNCHANGED vars
      BY <1>1, <2>2 DEF EndInv, TerminalEventOnce, DeadLetterOnlyForFailed, LetterPending,
         vars, dbVars, endVars
    <2> QED BY <1>1, <2>1, <2>2
  <1> QED BY <1>1, EndInit, TypeInvariance, PTL DEF Spec

(* transitionTerminal emits the terminal event of an execution exactly     *)
(* once, under every fault.                                                *)
THEOREM TerminalEventEmittedOnce == Spec => []TerminalEventOnce
  BY EndInvariance, PTL DEF EndInv

(* Only a failed execution has a dead letter, and at most one.             *)
THEOREM DeadLetterMeansFailed == Spec => []DeadLetterOnlyForFailed
  BY EndInvariance, PTL DEF EndInv

-----------------------------------------------------------------------------
(***************************************************************************)
(* Which steps are skipped is decided by the workflow alone, whatever      *)
(* crashes, pauses and stale writes happen on the way.                     *)
(***************************************************************************)

(* A step is skipped when it follows an odd number of conditional steps in *)
(* a row: the first of them skips the second, which then skips nothing.    *)
Skips(s) ==
  \E k \in 1..s : /\ \A i \in k..(s - 1) : i \in SkipSteps
                  /\ k - 1 \notin SkipSteps
                  /\ (s - k) % 2 = 1

Less == {pair \in Nat \X Nat : pair[1] < pair[2]}

LEMMA LessIsWellFounded == IsWellFoundedOn(Less, Nat)
  BY NatLessThanWellFounded DEF OpToRel, Less

LEMMA LeastNatural ==
  ASSUME NEW T, T \subseteq Nat, T # {}
  PROVE  \E m \in T : \A n \in T : m <= n
  <1>1. PICK m \in T : \A n \in T : <<n, m>> \notin Less
    BY LessIsWellFounded, WFMin
  <1>2. \A n \in T : ~(n < m)
    BY <1>1 DEF Less
  <1> QED BY <1>2

LEMMA FirstIsNotSkipped == ~Skips(1)
  BY DEF Skips

(* A run of conditional steps that ends with s has a first step.           *)
LEMMA RunHasStart ==
  ASSUME NEW s \in Steps, s \in SkipSteps
  PROVE  \E k \in 1..s : (\A i \in k..s : i \in SkipSteps) /\ k - 1 \notin SkipSteps
  <1> DEFINE T == {k \in 1..s : \A i \in k..s : i \in SkipSteps}
  <1>1. s \in T /\ T \subseteq Nat
    BY EngineAssumption DEF Steps
  <1>2. PICK m \in T : \A n \in T : m <= n
    BY <1>1, LeastNatural
  <1>3. m - 1 \notin SkipSteps
    <2> SUFFICES ASSUME m - 1 \in SkipSteps PROVE FALSE
      OBVIOUS
    <2>1. m - 1 \in 1..s  BY <1>2, EngineAssumption DEF Steps
    <2>2. \A i \in (m - 1)..s : i \in SkipSteps
      BY <1>2, <2>1
    <2>3. m - 1 \in T  BY <2>1, <2>2
    <2> QED BY <1>2, <2>1, <2>3
  <1> QED BY <1>2, <1>3

(* A step is skipped exactly when the one before it is a conditional step  *)
(* that is not skipped itself.                                             *)
LEMMA SkipsNext ==
  ASSUME NEW s \in Steps
  PROVE  Skips(s + 1) <=> s \in SkipSteps /\ ~Skips(s)
  <1> USE EngineAssumption DEF Steps
  <1>1. ASSUME Skips(s + 1) PROVE s \in SkipSteps /\ ~Skips(s)
    <2>1. PICK k \in 1..(s + 1) : /\ \A i \in k..s : i \in SkipSteps
                                  /\ k - 1 \notin SkipSteps
                                  /\ (s + 1 - k) % 2 = 1
      BY <1>1 DEF Skips
    <2>2. k \in 1..s /\ s \in SkipSteps
      BY <2>1
    <2>3. ASSUME NEW l \in 1..s, \A i \in l..(s - 1) : i \in SkipSteps, l - 1 \notin SkipSteps
          PROVE  l = k
      <3>1. ~(l < k)
        <4> SUFFICES ASSUME l < k PROVE FALSE
          OBVIOUS
        <4>1. k - 1 \in l..(s - 1)  BY <2>2
        <4> QED BY <2>1, <2>3, <4>1
      <3>2. ~(k < l)
        <4> SUFFICES ASSUME k < l PROVE FALSE
          OBVIOUS
        <4>1. l - 1 \in k..s  BY <2>2
        <4> QED BY <2>1, <2>3, <4>1
      <3> QED BY <3>1, <3>2, <2>2
    <2>4. (s - k) % 2 # 1
      BY <2>1, <2>2
    <2> QED BY <2>2, <2>3, <2>4 DEF Skips
  <1>2. ASSUME s \in SkipSteps, ~Skips(s) PROVE Skips(s + 1)
    <2>1. PICK k \in 1..s : (\A i \in k..s : i \in SkipSteps) /\ k - 1 \notin SkipSteps
      BY <1>2, RunHasStart
    <2>2. (s - k) % 2 # 1
      BY <1>2, <2>1 DEF Skips
    <2>3. (s + 1 - k) % 2 = 1
      BY <2>1, <2>2
    <2>4. k \in 1..(s + 1) /\ \A i \in k..(s + 1 - 1) : i \in SkipSteps
      BY <2>1
    <2> QED BY <2>1, <2>3, <2>4 DEF Skips
  <1> QED BY <1>1, <1>2
-----------------------------------------------------------------------------
(* The rows and the runners follow the plan. What a runner remembers of    *)
(* the last outcome says whether its step is to be skipped, wherever it    *)
(* is; so two runners that disagree on nothing else agree on that.         *)
RowsFollowPlan ==
  \A s \in Steps :
    /\ stepStatus[s] = "SKIPPED" => Skips(s)
    /\ stepStatus[s] = "COMPLETED" \/ calls[s] # 0 => ~Skips(s)

RunnersFollowPlan ==
  \A w \in Workers :
    /\ w \in skipNext <=> Skips(cur[w])
    /\ pc[w] = "skip" => w \in skipNext
    /\ pc[w] \in {"begin", "handler", "record", "after"} => w \notin skipNext

SkipInv == RowsFollowPlan /\ RunnersFollowPlan

LEMMA SkipInit == Init => SkipInv
  BY FirstIsNotSkipped
  DEF Init, SkipInv, RowsFollowPlan, RunnersFollowPlan

LEMMA RowsFollowNext == ASSUME TypeInv, SkipInv, Next PROVE RowsFollowPlan'
  <1> USE DEF TypeInv, TypeOK, StepTypes, RunnerTypes, InStep, SkipInv, RowsFollowPlan,
              RunnersFollowPlan, stepVars, histVars
  <1>1. CASE UNCHANGED <<stepVars, calls>>  BY <1>1
  <1>2. ASSUME NEW w \in Workers,
               \/ PrepareStep(w) \/ SkipStep(w) \/ BeginStep(w)
               \/ StepSucceeds(w) \/ StepRetries(w) \/ StepFails(w)
        PROVE  RowsFollowPlan'
    <2>1. CASE PrepareStep(w)  BY <2>1 DEF PrepareStep, AtStep
    <2>2. CASE SkipStep(w)  BY <2>2 DEF SkipStep
    <2>3. CASE BeginStep(w)  BY <2>3 DEF BeginStep
    <2>4. CASE StepSucceeds(w)  BY <2>4 DEF StepSucceeds
    <2>5. CASE StepRetries(w)  BY <2>5 DEF StepRetries, Throws
    <2>6. CASE StepFails(w)  BY <2>6 DEF StepFails, Throws
    <2> QED BY <1>2, <2>1, <2>2, <2>3, <2>4, <2>5, <2>6
  <1>3. ASSUME NEW r \in Reconcilers, NEW s \in Steps, AbandonStep(r, s)
        PROVE  RowsFollowPlan'
    BY <1>3 DEF AbandonStep
  <1> QED BY <1>1, <1>2, <1>3, StepWriters

LEMMA RunnersFollowStep ==
  ASSUME TypeInv, SkipInv, NEW w \in Workers, RunnerStep(w) PROVE RunnersFollowPlan'
  <1> USE DEF TypeInv, TypeOK, RunnerTypes, InStep, SkipInv, RunnersFollowPlan, Goto, localVars
  <1>1. CASE Acquire(w)  BY <1>1 DEF Acquire
  <1>2. CASE RejectLease(w)  BY <1>2 DEF RejectLease
  <1>3. CASE LoadExecution(w)  BY <1>3 DEF LoadExecution
  <1>4. CASE LoseLease(w)  BY <1>4 DEF LoseLease
  <1>5. CASE ReuseStep(w)
    <2>1. /\ cur[w] \in Steps /\ stepStatus[cur[w]] \in {"COMPLETED", "SKIPPED"}
          /\ skipNext' = IF stepStatus[cur[w]] = "COMPLETED" /\ cur[w] \in SkipSteps
                           THEN skipNext \cup {w} ELSE skipNext \ {w}
          /\ cur' = [cur EXCEPT ![w] = cur[w] + 1] /\ pc' = [pc EXCEPT ![w] = "next"]
      BY <1>5 DEF ReuseStep, AtStep, Reusable, StepDone, SetSkip, ShouldSkipNext, Advance
    <2>2. w \in skipNext' <=> Skips(cur[w] + 1)
      BY <2>1, SkipsNext DEF RowsFollowPlan
    <2> QED BY <2>1, <2>2
  <1>6. CASE AwaitRetryTime(w)  BY <1>6 DEF AwaitRetryTime
  <1>7. CASE FindStepExhausted(w)  BY <1>7 DEF FindStepExhausted, EnterCatch
  <1>8. CASE PrepareStep(w)  BY <1>8 DEF PrepareStep
  <1>9. CASE SkipStep(w)
    <2>1. /\ cur[w] \in Steps /\ Skips(cur[w]) /\ skipNext' = skipNext \ {w}
          /\ cur' = [cur EXCEPT ![w] = cur[w] + 1] /\ pc' = [pc EXCEPT ![w] = "next"]
      BY <1>9 DEF SkipStep, SetSkip, Advance
    <2>2. ~Skips(cur[w] + 1)  BY <2>1, SkipsNext
    <2> QED BY <2>1, <2>2
  <1>10. CASE BeginStep(w)  BY <1>10 DEF BeginStep
  <1>11. CASE StepSucceeds(w)  BY <1>11 DEF StepSucceeds
  <1>12. CASE StepRetries(w)  BY <1>12 DEF StepRetries, Throws
  <1>13. CASE StepFails(w)  BY <1>13 DEF StepFails, Throws, EnterCatch
  <1>14. CASE AfterStep(w)
    <2>1. CASE OutcomeIsRetrying(w)  BY <1>14, <2>1 DEF AfterStep
    <2>2. CASE ~OutcomeIsRetrying(w)
      <3>1. /\ cur[w] \in Steps /\ ~Skips(cur[w])
            /\ skipNext' = IF cur[w] \in SkipSteps THEN skipNext \cup {w} ELSE skipNext \ {w}
            /\ cur' = [cur EXCEPT ![w] = cur[w] + 1] /\ pc' = [pc EXCEPT ![w] = "next"]
        BY <1>14, <2>2 DEF AfterStep, SetSkip, Advance
      <3>2. w \in skipNext' <=> Skips(cur[w] + 1)  BY <3>1, SkipsNext
      <3> QED BY <3>1, <3>2
    <2> QED BY <2>1, <2>2
  <1>15. CASE MarkWaiting(w)  BY <1>15 DEF MarkWaiting
  <1>16. CASE AssertNoFailedSteps(w)  BY <1>16 DEF AssertNoFailedSteps, EnterCatch
  <1>17. CASE CompleteExecution(w)  BY <1>17 DEF CompleteExecution
  <1>18. CASE FailExecution(w)  BY <1>18 DEF FailExecution, AfterFail
  <1>19. CASE CreateDeadLetter(w)  BY <1>19 DEF CreateDeadLetter
  <1>20. CASE Release(w)  BY <1>20 DEF Release
  <1>21. CASE ScheduleRetry(w)  BY <1>21 DEF ScheduleRetry
  <1>22. CASE Finish(w)  BY <1>22, FirstIsNotSkipped DEF Finish, ForgetRun
  <1>23. CASE CloseWorker(w)  BY <1>23 DEF CloseWorker
  <1>24. CASE RecordAttempt(w)  BY <1>24 DEF RecordAttempt
  <1> HIDE DEF TypeInv, SkipInv, RunnersFollowPlan
  <1> QED
    BY <1>1, <1>2, <1>3, <1>4, <1>5, <1>6, <1>7, <1>8, <1>9, <1>10, <1>11, <1>12,
       <1>13, <1>14, <1>15, <1>16, <1>17, <1>18, <1>19, <1>20, <1>21, <1>22, <1>23,
       <1>24
    DEF RunnerStep

LEMMA RunnersFollowNext == ASSUME TypeInv, SkipInv, Next PROVE RunnersFollowPlan'
  <1> USE DEF TypeInv, TypeOK, RunnerTypes, SkipInv, RunnersFollowPlan, Goto
  <1>1. CASE UNCHANGED <<pc, cur, seen, wake, heartbeat, leaked, skipNext, draining>>
    BY <1>1
  <1>2. ASSUME NEW w \in Workers, RunnerFault(w) PROVE RunnersFollowPlan'
    <2>1. CASE LoadFails(w)  BY <2>1 DEF LoadFails
    <2>2. CASE StatementFails(w)  BY <2>2 DEF StatementFails, EnterCatch
    <2>3. CASE Crash(w)  BY <2>3, FirstIsNotSkipped DEF Crash, ForgetRun
    <2>4. CASE BeginShutdown(w)  BY <2>4 DEF BeginShutdown
    <2> QED BY <1>2, <2>1, <2>2, <2>3, <2>4 DEF RunnerFault
  <1>3. ASSUME NEW w \in Workers, NEW j \in waiting, TakeJob(w, j) PROVE RunnersFollowPlan'
    BY <1>3 DEF TakeJob
  <1> HIDE DEF TypeInv, SkipInv, RunnersFollowPlan
  <1> QED BY <1>1, <1>2, <1>3, RunnerWriters, RunnersFollowStep

LEMMA SkipInvariance == Spec => []SkipInv
  <1>1. ASSUME TypeInv, SkipInv, [Next]_vars PROVE SkipInv'
    <2>1. CASE Next  BY <1>1, <2>1, RowsFollowNext, RunnersFollowNext DEF SkipInv
    <2>2. CASE UNCHANGED vars
      BY <1>1, <2>2 DEF SkipInv, RowsFollowPlan, RunnersFollowPlan, vars, stepVars,
         localVars, histVars
    <2> QED BY <1>1, <2>1, <2>2
  <1> QED BY <1>1, SkipInit, TypeInvariance, PTL DEF Spec

(* The step after a completed conditional step that said skipNext is never *)
(* executed, under every fault: a crash of the runner that evaluated the   *)
(* condition, a second runner, and a recovery that repeats the condition.  *)
THEOREM SkippedStepNeverRuns == Spec => []SkippedIsNotCalled
  <1>1. SkipInv => SkippedIsNotCalled
    <2> SUFFICES ASSUME SkipInv, NEW s \in SkipSteps, s + 1 \in Steps,
                        stepStatus[s] = "COMPLETED"
                 PROVE  calls[s + 1] = 0
      BY DEF SkippedIsNotCalled
    <2>1. s \in Steps  BY EngineAssumption DEF Steps
    <2>2. Skips(s + 1)  BY <2>1, SkipsNext DEF SkipInv, RowsFollowPlan
    <2> QED BY <2>2 DEF SkipInv, RowsFollowPlan
  <1> QED BY <1>1, SkipInvariance, PTL
=============================================================================
