------------------------ MODULE ExecutionEngineWaits ------------------------
(***************************************************************************)
(* The lease of ExecutionEngine and what it is for: under the lease the    *)
(* engine implements ExecutionLifecycle, nobody executes a step before its *)
(* retry time, and an execution at rest is one the reconciler can find.    *)
(***************************************************************************)
EXTENDS ExecutionEngineProofs

(* The lease, in a system that does not pause for longer than a lease.     *)
(* OneActiveRunner is not inductive: that a runner is alone rests on its   *)
(* lease being live, that on its heartbeat, and the heartbeat on where it  *)
(* is in run().                                                            *)
Alone == \A v, w \in Workers : pc[v] \in HoldingPC /\ pc[w] \in HoldingPC => v = w
Leased == \A w \in Workers : pc[w] \in HoldingPC => status \in Terminal \/ Owns(w)
Beating == \A w \in Workers : pc[w] \in BeatingPC => w \in heartbeat
Running == \A w \in Workers : pc[w] \in BeatingPC => status \in Terminal \cup {"RUNNING"}

LeaseInv == Alone /\ Leased /\ Beating /\ Running

LEMMA LeaseInit == Init => LeaseInv
  BY DEF Init, LeaseInv, Alone, Leased, Beating, Running, HoldingPC, BeatingPC, RunningPC, ReleasePC

(* Only a worker that may acquire takes the lease, and then no runner      *)
(* holds it.                                                               *)
LEMMA NobodyHolds ==
  ASSUME TypeInv, LeaseInv, NEW w \in Workers, Acquire(w), NEW v \in Workers
  PROVE  pc[v] \notin HoldingPC
  <1> SUFFICES ASSUME pc[v] \in HoldingPC PROVE FALSE
    OBVIOUS
  <1>1. status \notin Terminal
    BY DEF Acquire, Acquirable, Active, Terminal
  <1>2. Owns(v)  BY <1>1 DEF LeaseInv, Leased
  <1>3. v # w  BY DEF Acquire, HoldingPC, RunningPC, ReleasePC
  <1> QED BY <1>2, <1>3, EngineAssumption DEF Acquire, Acquirable, Owns

LEMMA AloneNext == ASSUME TypeInv, LeaseInv, Next PROVE Alone'
  <1> USE DEF LeaseInv, Alone
  <1>1. CASE UNCHANGED <<pc, heartbeat>>  BY <1>1
  <1>2. ASSUME NEW w \in Workers, Acquire(w) PROVE Alone'
    <2>1. \A v \in Workers : pc'[v] \in HoldingPC => v = w
      BY <1>2, NobodyHolds DEF Acquire, Goto, TypeInv, TypeOK, RunnerTypes
    <2> QED BY <2>1
  <1>3. ASSUME NEW w \in Workers, Moves(w) PROVE Alone'
    BY <1>3 DEF Moves
  <1> QED BY <1>1, <1>2, <1>3, NextMoves

LEMMA BeatingNext == ASSUME TypeInv, LeaseInv, Next PROVE Beating'
  <1> USE DEF LeaseInv, Beating
  <1>1. CASE UNCHANGED <<pc, heartbeat>>  BY <1>1
  <1>2. ASSUME NEW w \in Workers, Acquire(w) PROVE Beating'
    BY <1>2 DEF Acquire, Goto, TypeInv, TypeOK, RunnerTypes
  <1>3. ASSUME NEW w \in Workers, Moves(w) PROVE Beating'
    BY <1>3 DEF Moves
  <1> QED BY <1>1, <1>2, <1>3, NextMoves

(* While a runner holds the lease of an execution that has not ended,      *)
(* nothing but that runner, or the end of the execution, takes it away.    *)
LEMMA LeaseKept ==
  ASSUME "pause" \notin FaultKinds, TypeInv, LeaseInv, Next,
         NEW v \in Workers, pc[v] \in HoldingPC, status \notin Terminal
  PROVE  status' \in Terminal \/ Owns(v)' \/ pc'[v] \notin HoldingPC
  <1> USE DEF Terminal
  <1>1. Owns(v)  BY DEF LeaseInv, Leased
  <1>2. CASE UNCHANGED <<dbVars, endVars>>  BY <1>1, <1>2 DEF dbVars, Owns
  <1>3. CASE Cancel  BY <1>3 DEF Cancel
  <1>4. CASE LeaseExpires
    <2>1. Attended(lockedBy)
      BY <1>1 DEF Owns, Attended, LeaseInv, Beating, HoldingPC, BeatingPC
    <2> QED BY <1>4, <2>1 DEF LeaseExpires, Fault
  <1>5. ASSUME NEW w \in Workers, Acquire(w) PROVE FALSE
    BY <1>5, NobodyHolds
  <1>6. ASSUME NEW w \in Workers, Release(w)
        PROVE  Owns(v)' \/ pc'[v] \notin HoldingPC
    <2>1. v = w  BY <1>6 DEF LeaseInv, Alone, Release, HoldingPC
    <2>2. pc'[v] \in {"finish", "schedule"}
      BY <1>6, <2>1 DEF Release, Goto, TypeInv, TypeOK, RunnerTypes
    <2> QED BY <2>2 DEF HoldingPC, RunningPC, ReleasePC
  <1>7. ASSUME NEW w \in Workers,
               MarkWaiting(w) \/ CompleteExecution(w) \/ FailExecution(w)
        PROVE  Owns(v)'
    BY <1>1, <1>7 DEF MarkWaiting, CompleteExecution, FailExecution, Owns
  <1>8. ASSUME NEW w \in Workers, CreateDeadLetter(w) PROVE Owns(v)'
    BY <1>1, <1>8 DEF CreateDeadLetter, dbVars, Owns
  <1>9. ASSUME NEW r \in Reconcilers, RequeueExpired(r) \/ RequeueDue(r) PROVE Owns(v)'
    BY <1>1, <1>9 DEF RequeueExpired, IsExpiredRunning, RequeueDue, Owns
  <1> QED BY <1>2, <1>3, <1>4, <1>5, <1>6, <1>7, <1>8, <1>9, RowWriters

LEMMA LeasedNext ==
  ASSUME "pause" \notin FaultKinds, TypeInv, LeaseInv, Next PROVE Leased'
  <1> SUFFICES ASSUME NEW v \in Workers, pc'[v] \in HoldingPC
               PROVE  status' \in Terminal \/ Owns(v)'
    BY DEF Leased
  <1>1. CASE pc[v] \in HoldingPC
    BY <1>1, LeaseKept, FinalNext
  <1>2. CASE pc[v] \notin HoldingPC
    <2>1. PICK w \in Workers : Acquire(w) \/ Moves(w)  BY <1>2, NextMoves
    <2>2. Acquire(v)
      BY <1>2, <2>1 DEF Moves, Acquire, Goto, TypeInv, TypeOK, RunnerTypes
    <2> QED BY <2>2 DEF Acquire, Owns
  <1> QED BY <1>1, <1>2

LEMMA RunningNext ==
  ASSUME "pause" \notin FaultKinds, TypeInv, LeaseInv, Next PROVE Running'
  <1> SUFFICES ASSUME NEW v \in Workers, pc'[v] \in BeatingPC
               PROVE  status' \in Terminal \cup {"RUNNING"}
    BY DEF Running
  <1>1. CASE pc[v] \in BeatingPC /\ status \in Terminal
    BY <1>1, FinalNext
  <1>2. CASE pc[v] \in BeatingPC /\ status \notin Terminal
    <2> USE DEF Terminal
    <2>1. status = "RUNNING" /\ Owns(v)
      BY <1>2 DEF LeaseInv, Running, Leased, BeatingPC, HoldingPC
    <2>2. CASE UNCHANGED <<dbVars, endVars>>  BY <2>1, <2>2 DEF dbVars
    <2>3. CASE Cancel  BY <2>3 DEF Cancel
    <2>4. CASE LeaseExpires  BY <2>1, <2>4 DEF LeaseExpires
    <2>5. ASSUME NEW w \in Workers, Acquire(w) PROVE status' = "RUNNING"
      BY <2>5 DEF Acquire
    <2>6. ASSUME NEW w \in Workers, Release(w) PROVE status' = "RUNNING"
      BY <2>1, <2>6 DEF Release
    <2>7. ASSUME NEW w \in Workers, MarkWaiting(w) PROVE FALSE
      <3>1. v = w
        BY <1>2, <2>7 DEF MarkWaiting, LeaseInv, Alone, BeatingPC, HoldingPC, RunningPC, ReleasePC
      <3>2. pc'[v] = "releaseInTry"
        BY <2>7, <3>1 DEF MarkWaiting, Goto, TypeInv, TypeOK, RunnerTypes
      <3> QED BY <3>2 DEF BeatingPC, RunningPC, ReleasePC
    <2>8. ASSUME NEW w \in Workers, CompleteExecution(w) \/ FailExecution(w)
          PROVE  status' \in Terminal
      BY <2>1, <2>8 DEF CompleteExecution, FailExecution, TransitionTerminal, Active
    <2>9. ASSUME NEW w \in Workers, CreateDeadLetter(w) PROVE status' = "RUNNING"
      BY <2>1, <2>9 DEF CreateDeadLetter, dbVars
    <2>10. ASSUME NEW r \in Reconcilers, RequeueExpired(r) \/ RequeueDue(r)
           PROVE  status' = "RUNNING"
      BY <2>1, <2>10
      DEF RequeueExpired, IsExpiredRunning, RequeueDue, DueStatuses, Owns
    <2> QED BY <2>2, <2>3, <2>4, <2>5, <2>6, <2>7, <2>8, <2>9, <2>10, RowWriters
  <1>3. CASE pc[v] \notin BeatingPC
    <2>1. PICK w \in Workers : Acquire(w) \/ Moves(w)  BY <1>3, NextMoves
    <2>2. Acquire(v)
      BY <1>3, <2>1 DEF Moves, Acquire, Goto, TypeInv, TypeOK, RunnerTypes
    <2> QED BY <2>2 DEF Acquire
  <1> QED BY <1>1, <1>2, <1>3

LEMMA LeaseStutter == ASSUME LeaseInv, UNCHANGED vars PROVE LeaseInv'
  BY DEF LeaseInv, Alone, Leased, Beating, Running, Owns, vars, dbVars, localVars

LEMMA LeaseInvariance ==
  ASSUME "pause" \notin FaultKinds PROVE Spec => []LeaseInv
  <1>1. LeaseInv /\ TypeInv /\ [Next]_vars => LeaseInv'
    BY AloneNext, LeasedNext, BeatingNext, RunningNext, LeaseStutter DEF LeaseInv
  <1> QED BY <1>1, LeaseInit, TypeInvariance, PTL DEF Spec

(* Unless a process pauses for longer than its lease, the lease keeps      *)
(* every other worker out of run(): for any number of workers,             *)
(* reconcilers and steps, and whatever other faults happen, acquire()      *)
(* admits one runner at a time.                                            *)
THEOREM LeaseAdmitsOneRunner ==
  ASSUME "pause" \notin FaultKinds PROVE Spec => []OneActiveRunner
  <1>1. LeaseInv => OneActiveRunner
    BY DEF LeaseInv, Alone, OneActiveRunner, HoldingPC
  <1> QED BY <1>1, LeaseInvariance, PTL
-----------------------------------------------------------------------------
(* The engine implements ExecutionLifecycle.                               *)

LEMMA LifecycleInit == Init => Lifecycle!Init
  BY DEF Init, Lifecycle!Init

(* A step of the engine that only moves the status along                   *)
(* VALID_TRANSITIONS, with its event when it ends the execution.           *)
LEMMA LifecycleMove ==
  ASSUME NEW to \in DOMAIN Lifecycle!VALID_TRANSITIONS,
         to \in Lifecycle!VALID_TRANSITIONS[status],
         status' = to, deadLetters' = deadLetters,
         terminalEvents' = IF to \in {"COMPLETED", "FAILED"}
                             THEN terminalEvents + 1 ELSE terminalEvents
  PROVE  Lifecycle!Next
  BY DEF Lifecycle!Next, Lifecycle!Transition, Lifecycle!CanTransitionExecution

(* What the table allows from the statuses that each update starts from.   *)
LEMMA TableAllows ==
  /\ {"QUEUED", "RUNNING", "RETRYING", "COMPLETED", "FAILED", "CANCELLED"}
       \subseteq DOMAIN Lifecycle!VALID_TRANSITIONS
  /\ \A from \in Active : {"FAILED", "CANCELLED"} \subseteq Lifecycle!VALID_TRANSITIONS[from]
  /\ \A from \in Active \ {"RUNNING"} : "RUNNING" \in Lifecycle!VALID_TRANSITIONS[from]
  /\ {"RETRYING", "COMPLETED", "QUEUED"} \subseteq Lifecycle!VALID_TRANSITIONS["RUNNING"]
  /\ "QUEUED" \in Lifecycle!VALID_TRANSITIONS["RETRYING"]
  <1> DEFINE table == Lifecycle!VALID_TRANSITIONS
  <1>1. DOMAIN table = {"PENDING", "QUEUED", "RUNNING", "RETRYING",
                        "COMPLETED", "FAILED", "CANCELLED"}
    BY DEF Lifecycle!VALID_TRANSITIONS
  <1>2. table["PENDING"] = {"QUEUED", "RUNNING", "FAILED", "CANCELLED"}
    BY DEF Lifecycle!VALID_TRANSITIONS
  <1>3. table["QUEUED"] = {"RUNNING", "RETRYING", "FAILED", "CANCELLED"}
    BY DEF Lifecycle!VALID_TRANSITIONS
  <1>4. table["RUNNING"] = {"RETRYING", "COMPLETED", "FAILED", "CANCELLED", "QUEUED"}
    BY DEF Lifecycle!VALID_TRANSITIONS
  <1>5. table["RETRYING"] = {"QUEUED", "RUNNING", "FAILED", "CANCELLED"}
    BY DEF Lifecycle!VALID_TRANSITIONS
  <1> HIDE DEF table
  <1>6. {"QUEUED", "RUNNING", "RETRYING", "COMPLETED", "FAILED", "CANCELLED"}
          \subseteq DOMAIN table
    BY <1>1
  <1>7. \A from \in Active : {"FAILED", "CANCELLED"} \subseteq table[from]
    BY <1>2, <1>3, <1>4, <1>5 DEF Active
  <1>8. \A from \in Active \ {"RUNNING"} : "RUNNING" \in table[from]
    BY <1>2, <1>3, <1>5 DEF Active
  <1> QED BY <1>4, <1>5, <1>6, <1>7, <1>8 DEF table

LEMMA LifecycleStep ==
  ASSUME "pause" \notin FaultKinds, TypeInv, LeaseInv, EndInv, Next
  PROVE  Lifecycle!Next \/ UNCHANGED Lifecycle!lifecycleVars
  <1> USE DEF Lifecycle!lifecycleVars
  <1>1. CASE UNCHANGED <<dbVars, endVars>>  BY <1>1 DEF dbVars, endVars
  <1>2. CASE Cancel
    <2>1. status \in Active /\ status' = "CANCELLED" /\ UNCHANGED endVars
      BY <1>2 DEF Cancel
    <2> QED BY <2>1, LifecycleMove, TableAllows DEF endVars
  <1>3. CASE LeaseExpires  BY <1>3 DEF LeaseExpires, endVars
  <1>4. ASSUME NEW w \in Workers, Acquire(w)
        PROVE  Lifecycle!Next \/ UNCHANGED Lifecycle!lifecycleVars
    <2>1. status \in Active /\ status' = "RUNNING" /\ UNCHANGED endVars
      BY <1>4 DEF Acquire, Acquirable
    <2>2. CASE status = "RUNNING"  BY <2>1, <2>2 DEF endVars
    <2>3. CASE status # "RUNNING"  BY <2>1, <2>3, LifecycleMove, TableAllows DEF endVars
    <2> QED BY <2>2, <2>3
  <1>5. ASSUME NEW w \in Workers, Release(w)
        PROVE  UNCHANGED Lifecycle!lifecycleVars
    BY <1>5 DEF Release, endVars
  <1>6. ASSUME NEW w \in Workers, MarkWaiting(w)
        PROVE  Lifecycle!Next \/ UNCHANGED Lifecycle!lifecycleVars
    <2>1. status \in Terminal \cup {"RUNNING"}
      BY <1>6 DEF MarkWaiting, LeaseInv, Running, BeatingPC, RunningPC, ReleasePC
    <2>2. CASE status \in Terminal
      BY <1>6, <2>2 DEF MarkWaiting, RetryingIfActive, endVars, Active, Terminal
    <2>3. CASE status = "RUNNING"
      <3>1. status' = "RETRYING" /\ UNCHANGED endVars
        BY <1>6, <2>3 DEF MarkWaiting, RetryingIfActive, Active
      <3> QED BY <2>3, <3>1, LifecycleMove, TableAllows DEF endVars
    <2> QED BY <2>1, <2>2, <2>3
  <1>7. ASSUME NEW w \in Workers, CompleteExecution(w)
        PROVE  Lifecycle!Next \/ UNCHANGED Lifecycle!lifecycleVars
    <2>1. status \in Terminal \cup {"RUNNING"}
      BY <1>7 DEF CompleteExecution, LeaseInv, Running, BeatingPC, RunningPC, ReleasePC
    <2>2. CASE status \in Terminal
      BY <1>7, <2>2 DEF CompleteExecution, TransitionTerminal, Active, Terminal
    <2>3. CASE status = "RUNNING"
      <3>1. /\ status' = "COMPLETED" /\ terminalEvents' = terminalEvents + 1
            /\ UNCHANGED deadLetters
        BY <1>7, <2>3 DEF CompleteExecution, TransitionTerminal, Active
      <3> QED BY <2>3, <3>1, LifecycleMove, TableAllows
    <2> QED BY <2>1, <2>2, <2>3
  <1>8. ASSUME NEW w \in Workers, FailExecution(w)
        PROVE  Lifecycle!Next \/ UNCHANGED Lifecycle!lifecycleVars
    <2>1. CASE status \in Active
      <3>1. /\ status' = "FAILED" /\ terminalEvents' = terminalEvents + 1
            /\ UNCHANGED deadLetters
        BY <1>8, <2>1 DEF FailExecution, TransitionTerminal
      <3> QED BY <2>1, <3>1, LifecycleMove, TableAllows
    <2>2. CASE status \notin Active
      BY <1>8, <2>2 DEF FailExecution, TransitionTerminal
    <2> QED BY <2>1, <2>2
  <1>9. ASSUME NEW w \in Workers, CreateDeadLetter(w)
        PROVE  Lifecycle!Next \/ UNCHANGED Lifecycle!lifecycleVars
    <2>1. status = "FAILED"
      BY <1>9 DEF CreateDeadLetter, EndInv, LetterPending
    <2>2. CASE deadLetters = 0
      BY <1>9, <2>1, <2>2
      DEF CreateDeadLetter, dbVars, Lifecycle!Next, Lifecycle!DeadLetter
    <2>3. CASE deadLetters # 0
      BY <1>9, <2>3 DEF CreateDeadLetter, dbVars
    <2> QED BY <2>2, <2>3
  <1>10. ASSUME NEW r \in Reconcilers, RequeueExpired(r)
         PROVE  Lifecycle!Next \/ UNCHANGED Lifecycle!lifecycleVars
    <2>1. CASE IsExpiredRunning
      <3>1. status = "RUNNING" /\ status' = "QUEUED" /\ UNCHANGED endVars
        BY <1>10, <2>1 DEF RequeueExpired, IsExpiredRunning
      <3> QED BY <3>1, LifecycleMove, TableAllows DEF endVars
    <2>2. CASE ~IsExpiredRunning
      BY <1>10, <2>2 DEF RequeueExpired, endVars
    <2> QED BY <2>1, <2>2
  <1>11. ASSUME NEW r \in Reconcilers, RequeueDue(r)
         PROVE  Lifecycle!Next \/ UNCHANGED Lifecycle!lifecycleVars
    <2>1. CASE status = "RETRYING"
      <3>1. status' = "QUEUED" /\ UNCHANGED endVars
        BY <1>11, <2>1 DEF RequeueDue, DueStatuses
      <3> QED BY <2>1, <3>1, LifecycleMove, TableAllows DEF endVars
    <2>2. CASE status # "RETRYING"
      BY <1>11, <2>2 DEF RequeueDue, DueStatuses, endVars
    <2> QED BY <2>1, <2>2
  <1> QED BY <1>1, <1>2, <1>3, <1>4, <1>5, <1>6, <1>7, <1>8, <1>9, <1>10, <1>11,
             RowWriters

(* Unless a process pauses for longer than its lease, whatever the runners *)
(* and the reconcilers do to an execution row is a walk along              *)
(* VALID_TRANSITIONS, with one terminal event and at most one dead letter. *)
THEOREM EngineImplementsLifecycle ==
  ASSUME "pause" \notin FaultKinds PROVE Spec => ImplementsLifecycle
  <1>1. TypeInv /\ LeaseInv /\ EndInv /\ [Next]_vars
          => [Lifecycle!Next]_(Lifecycle!lifecycleVars)
    <2>1. UNCHANGED vars => UNCHANGED Lifecycle!lifecycleVars
      BY DEF vars, dbVars, endVars, Lifecycle!lifecycleVars
    <2> QED BY <2>1, LifecycleStep
  <1> QED BY <1>1, LifecycleInit, TypeInvariance, LeaseInvariance, EndInvariance, PTL
          DEF Spec, ImplementsLifecycle, Lifecycle!Spec

-----------------------------------------------------------------------------
(***************************************************************************)
(* Waiting: nobody executes a step before its retry time, and an execution *)
(* at rest is one that the reconciler can find.                            *)
(***************************************************************************)

StepPC == {"next", "skip", "begin", "handler", "record"}

(* While the runner that holds the lease rests, only a reconciler writes   *)
(* step rows.                                                              *)
LEMMA RowsRest ==
  ASSUME TypeInv, LeaseInv, Next, NEW w \in Workers, pc[w] \in HoldingPC, Rests(w)
  PROVE  \/ UNCHANGED <<stepVars, calls>>
         \/ \E r \in Reconcilers, s \in Steps : AbandonStep(r, s)
  <1>1. ASSUME NEW v \in Workers,
               \/ PrepareStep(v) \/ SkipStep(v) \/ BeginStep(v)
               \/ StepSucceeds(v) \/ StepRetries(v) \/ StepFails(v)
        PROVE  FALSE
    <2>1. pc[v] \in StepPC /\ pc'[v] # pc[v]
      BY <1>1 DEF PrepareStep, AtStep, SkipStep, BeginStep, StepSucceeds, StepRetries,
         StepFails, Throws, Advance, EnterCatch, Goto, StepPC, TypeInv, TypeOK, RunnerTypes
    <2>2. v = w  BY <2>1 DEF LeaseInv, Alone, HoldingPC, RunningPC, StepPC
    <2> QED BY <2>1, <2>2 DEF Rests
  <1> QED BY <1>1, StepWriters

(* A runner about to execute a step has found its retry time due.          *)
Ready ==
  \A w \in Workers :
    pc[w] = "begin" /\ stepStatus[cur[w]] = "RETRYING" => nextRetryAt[cur[w]] \in due \cup {0}

(* Retry times do not become due and then undue.                           *)
LEMMA DueStays == ASSUME TypeInv, Next PROVE due \subseteq due'
  <1>1. ASSUME NEW r \in Reconcilers, NEW s \in Steps, AbandonStep(r, s)
        PROVE  due \subseteq due'
    BY <1>1 DEF AbandonStep, timeVars
  <1> QED BY <1>1, TimeWriters DEF timeVars, StepRetries, RetryTimePasses

LEMMA ReadyNext == ASSUME TypeInv, LeaseInv, Ready, Next PROVE Ready'
  <1> SUFFICES ASSUME NEW w \in Workers, pc'[w] = "begin", stepStatus'[cur'[w]] = "RETRYING"
               PROVE  nextRetryAt'[cur'[w]] \in due' \cup {0}
    BY DEF Ready
  <1>1. CASE Rests(w)
    <2>1. pc[w] = "begin" /\ cur[w] \in Steps /\ cur'[w] = cur[w]
      BY <1>1 DEF Rests, TypeInv, InStep
    <2>2. CASE UNCHANGED <<stepVars, calls>>
      BY <2>1, <2>2, DueStays DEF Ready, stepVars
    <2>3. ASSUME NEW r \in Reconcilers, NEW s \in Steps, AbandonStep(r, s)
          PROVE  nextRetryAt'[cur'[w]] \in due' \cup {0}
      <3>1. CASE s = cur[w]
        BY <2>1, <2>3, <3>1 DEF AbandonStep, TypeInv, TypeOK, StepTypes
      <3>2. CASE s # cur[w]
        BY <2>1, <2>3, <3>2, DueStays DEF AbandonStep, Ready, TypeInv, TypeOK, StepTypes
      <3> QED BY <3>1, <3>2
    <2> QED
      BY <1>1, <2>1, <2>2, <2>3, RowsRest DEF HoldingPC, RunningPC
  <1>2. CASE PrepareStep(w)
    BY <1>2 DEF PrepareStep, AtStep, NotYetDue, timeVars, TypeInv, TypeOK, StepTypes
  <1>3. ~(\E j \in waiting : TakeJob(w, j))
    BY DEF TakeJob, Goto, TypeInv, TypeOK, RunnerTypes
  <1> QED BY <1>1, <1>2, <1>3, Arrives DEF Arrival

LEMMA BeginsReady ==
  ASSUME TypeInv, Ready, Next, NEW s \in Steps,
         stepStatus[s] = "RETRYING", stepStatus'[s] = "RUNNING"
  PROVE  nextRetryAt[s] \in due \cup {0}
  <1> USE DEF TypeInv, TypeOK, StepTypes
  <1>1. ASSUME NEW w \in Workers, BeginStep(w) PROVE nextRetryAt[s] \in due \cup {0}
    BY <1>1 DEF BeginStep, Ready, InStep
  <1>2. ASSUME NEW w \in Workers,
               \/ PrepareStep(w) \/ SkipStep(w)
               \/ StepSucceeds(w) \/ StepRetries(w) \/ StepFails(w)
        PROVE  FALSE
    BY <1>2 DEF PrepareStep, SkipStep, StepSucceeds, StepRetries, StepFails
  <1>3. ASSUME NEW r \in Reconcilers, NEW u \in Steps, AbandonStep(r, u) PROVE FALSE
    BY <1>3 DEF AbandonStep
  <1> QED BY <1>1, <1>2, <1>3, StepWriters DEF stepVars

(* Unless a process pauses for longer than its lease, no runner executes a *)
(* step before its retry time, whichever job woke the execution and        *)
(* whatever the reconciler writes meanwhile.                               *)
THEOREM NoStepBeforeItsTime ==
  ASSUME "pause" \notin FaultKinds PROVE Spec => BackoffRespected
  <1>1. Init => Ready  BY DEF Init, Ready
  <1>2. TypeInv /\ LeaseInv /\ Ready /\ [Next]_vars => Ready'
    <2>1. TypeInv /\ LeaseInv /\ Ready /\ Next => Ready'  BY ReadyNext
    <2>2. Ready /\ UNCHANGED vars => Ready'
      BY DEF Ready, vars, stepVars, timeVars, localVars
    <2> QED BY <2>1, <2>2
  <1>3. TypeInv /\ Ready /\ [Next]_vars
          => [\A s \in Steps : stepStatus[s] = "RETRYING" /\ stepStatus'[s] = "RUNNING"
                => nextRetryAt[s] \in due \cup {0}]_stepVars
    BY BeginsReady DEF vars, stepVars
  <1> QED BY <1>1, <1>2, <1>3, TypeInvariance, LeaseInvariance, PTL DEF Spec, BackoffRespected
-----------------------------------------------------------------------------
(* What an execution at rest leaves behind. A runner parks an execution    *)
(* with the retry time of a step whose row it wrote before; in between, a  *)
(* reconciler that had found an earlier lease expired may still fail that  *)
(* row when its effect is ambiguous. It does so behind the back of a       *)
(* waiting runner only if the step could be attempted a third time.        *)

AmbiguousTriedTwice == \A s \in AmbiguousSteps : MaxAttempts[s] <= 2

Retried(s) == stepStatus[s] = "RETRYING" /\ nextRetryAt[s] # 0

Unwoken ==
  \A w \in Workers : pc[w] \in StepPC \cup {"idle", "acquire", "load"} => wake[w] = 0

AtWait(w) == pc[w] = "wait" \/ (pc[w] = "after" /\ wake[w] # 0)
RowWaits == \A w \in Workers : AtWait(w) => cur[w] \in Steps /\ Retried(cur[w])

Begun == \A s \in Steps : stepStatus[s] = "RUNNING" => attemptCount[s] # 0

(* What a reconciler remembers of an expired lease was attempted then, and *)
(* an ambiguous step among it is not waiting, nor will its next attempt be *)
(* counted as the first.                                                   *)
Remembered ==
  \A r \in Reconcilers : \A s \in rsteps[r] :
    /\ attemptCount[s] # 0
    /\ s \in AmbiguousSteps =>
         /\ stepStatus[s] # "RETRYING"
         /\ \A w \in Workers :
              pc[w] \in {"begin", "handler", "record"} /\ cur[w] = s => seen[w] # 0

SomeStepWaits == status = "RETRYING" => \E s \in Steps : Retried(s)

Settled == \A w \in Workers : pc[w] \in ReleasePC \cup {"deadLetter"} => status # "RUNNING"
Unlocked == lockedBy = NoWorker => status # "RUNNING"

WaitInv ==
  /\ Unwoken /\ RowWaits /\ Begun /\ Remembered /\ SomeStepWaits /\ Settled /\ Unlocked

LEMMA WaitInit == Init => WaitInv
  BY DEF Init, WaitInv, Unwoken, RowWaits, AtWait, Begun, Remembered, SomeStepWaits,
     Settled, Unlocked, StepPC, ReleasePC

LEMMA UnwokenNext == ASSUME TypeInv, Unwoken, Next PROVE Unwoken'
  <1> SUFFICES ASSUME NEW w \in Workers, pc'[w] \in StepPC \cup {"idle", "acquire", "load"}
               PROVE  wake'[w] = 0
    BY DEF Unwoken
  <1> USE DEF StepPC
  <1>1. CASE Rests(w)  BY <1>1 DEF Rests, Unwoken
  <1>2. CASE RunnerStep(w) /\ Arrival(w)
    <2> USE DEF TypeInv, TypeOK, RunnerTypes, Unwoken, localVars
    <2>1. CASE Acquire(w)  BY <2>1 DEF Acquire
    <2>2. CASE LoadExecution(w) \/ ReuseStep(w) \/ SkipStep(w)
      BY <2>2 DEF LoadExecution, ReuseStep, AtStep, SkipStep
    <2>3. CASE AfterStep(w)
      BY <2>3 DEF AfterStep, OutcomeIsRetrying, Goto
    <2>4. CASE PrepareStep(w) \/ BeginStep(w) \/ StepSucceeds(w)
      BY <2>4 DEF PrepareStep, AtStep, BeginStep, StepSucceeds
    <2>5. CASE Finish(w)  BY <2>5 DEF Finish, ForgetRun
    <2> HIDE DEF TypeInv
    <2> QED BY <1>2, <2>1, <2>2, <2>3, <2>4, <2>5 DEF Arrival
  <1>3. ASSUME NEW j \in waiting, TakeJob(w, j) PROVE wake'[w] = 0
    BY <1>3 DEF TakeJob, Unwoken
  <1> QED BY <1>1, <1>2, <1>3, Arrives

(* A reconciler that abandons a step does not touch another step, and      *)
(* leaves it RETRYING with a time unless its effect is ambiguous.          *)
LEMMA Abandons ==
  ASSUME TypeInv, NEW r \in Reconcilers, NEW s \in Steps, AbandonStep(r, s)
  PROVE  /\ \A u \in Steps \ {s} : stepStatus'[u] = stepStatus[u] /\ nextRetryAt'[u] = nextRetryAt[u]
         /\ s \notin AmbiguousSteps => Retried(s)'
         /\ s \in AmbiguousSteps => stepStatus'[s] = "FAILED"
  <1>1. stepStatus \in [Steps -> StepStatuses] /\ nextRetryAt \in [Steps -> Nat] /\ timers \in Nat
    BY DEF TypeInv, TypeOK, StepTypes, TimeTypes
  <1>2. CASE s \in AmbiguousSteps
    <2>1. stepStatus' = [stepStatus EXCEPT ![s] = "FAILED"] /\ nextRetryAt' = [nextRetryAt EXCEPT ![s] = 0]
      BY <1>2 DEF AbandonStep
    <2> QED BY <1>1, <1>2, <2>1
  <1>3. CASE s \notin AmbiguousSteps
    <2>1. stepStatus' = [stepStatus EXCEPT ![s] = "RETRYING"] /\ nextRetryAt' = [nextRetryAt EXCEPT ![s] = timers + 1]
      BY <1>3 DEF AbandonStep
    <2>2. timers + 1 # 0  BY <1>1
    <2> QED BY <1>1, <1>3, <2>1, <2>2 DEF Retried
  <1> QED BY <1>2, <1>3

LEMMA StaysRetried ==
  ASSUME TypeInv, WaitInv, NEW r \in Reconcilers, NEW s \in Steps, AbandonStep(r, s),
         NEW u \in Steps, Retried(u)
  PROVE  Retried(u)'
  <1>1. CASE u # s  BY <1>1, Abandons DEF Retried
  <1>2. CASE u = s
    <2>1. s \notin AmbiguousSteps
      BY <1>2 DEF AbandonStep, WaitInv, Remembered, Retried
    <2> QED BY <1>2, <2>1, Abandons
  <1> QED BY <1>1, <1>2

LEMMA RowWaitsNext == ASSUME TypeInv, LeaseInv, WaitInv, Next PROVE RowWaits'
  <1> SUFFICES ASSUME NEW w \in Workers, AtWait(w)'
               PROVE  cur'[w] \in Steps /\ Retried(cur[w])'
    BY DEF RowWaits
  <1>1. CASE Rests(w)
    <2>1. AtWait(w) /\ cur'[w] = cur[w]  BY <1>1 DEF Rests, AtWait
    <2>2. cur[w] \in Steps /\ Retried(cur[w])  BY <2>1 DEF WaitInv, RowWaits
    <2>3. CASE UNCHANGED <<stepVars, calls>>
      BY <2>1, <2>2, <2>3 DEF Retried, stepVars
    <2>4. ASSUME NEW r \in Reconcilers, NEW s \in Steps, AbandonStep(r, s)
          PROVE  Retried(cur[w])'
      <3>1. PICK u \in Steps : u = cur[w]  BY <2>2
      <3>2. Retried(u)'  BY <2>2, <2>4, <3>1, StaysRetried
      <3> QED BY <2>1, <3>1, <3>2 DEF Retried
    <2>5. pc[w] \in HoldingPC  BY <2>1 DEF AtWait, HoldingPC, RunningPC
    <2> QED BY <1>1, <2>1, <2>2, <2>3, <2>4, <2>5, RowsRest
  <1>2. CASE RunnerStep(w) /\ Arrival(w)
    <2> USE DEF TypeInv, TypeOK, RunnerTypes, StepTypes, TimeTypes
    <2>1. CASE RecordAttempt(w)
      BY <2>1 DEF RecordAttempt, AtWait, WaitInv, Unwoken, StepPC, Goto, localVars
    <2>2. CASE StepRetries(w)
      BY <2>2 DEF StepRetries, Throws, RetryTime, Retried, InStep
    <2>3. CASE AwaitRetryTime(w)
      BY <2>3 DEF AwaitRetryTime, AtStep, NotYetDue, Retried, stepVars
    <2>4. CASE AfterStep(w)
      <3>1. AtWait(w) /\ cur'[w] = cur[w] /\ UNCHANGED stepVars
        BY <2>4 DEF AfterStep, OutcomeIsRetrying, AtWait, Goto, Advance
      <3> QED BY <3>1 DEF WaitInv, RowWaits, Retried, stepVars
    <2> HIDE DEF TypeInv
    <2> QED BY <1>2, <2>1, <2>2, <2>3, <2>4 DEF Arrival, AtWait
  <1>3. ~(\E j \in waiting : TakeJob(w, j))
    BY DEF TakeJob, AtWait, Goto, TypeInv, TypeOK, RunnerTypes
  <1> QED BY <1>1, <1>2, <1>3, Arrives DEF AtWait

LEMMA BegunNext == ASSUME TypeInv, Begun, Next PROVE Begun'
  <1> USE DEF TypeInv, TypeOK, StepTypes, RunnerTypes, Begun
  <1>1. CASE UNCHANGED <<stepVars, calls>>  BY <1>1 DEF stepVars
  <1>2. ASSUME NEW w \in Workers, BeginStep(w) PROVE Begun'
    BY <1>2 DEF BeginStep, NextAttempt
  <1>3. ASSUME NEW w \in Workers,
               \/ PrepareStep(w) \/ SkipStep(w)
               \/ StepSucceeds(w) \/ StepRetries(w) \/ StepFails(w)
        PROVE  Begun'
    BY <1>3 DEF PrepareStep, SkipStep, StepSucceeds, StepRetries, StepFails
  <1>4. ASSUME NEW r \in Reconcilers, NEW s \in Steps, AbandonStep(r, s) PROVE Begun'
    BY <1>4 DEF AbandonStep
  <1> HIDE DEF TypeInv, Begun
  <1> QED BY <1>1, <1>2, <1>3, <1>4, StepWriters

(* A reconciler remembers a step when it finds the lease expired, and      *)
(* then no runner holds it.                                                *)
LEMMA RemembersMore ==
  ASSUME TypeInv, LeaseInv, Next, NEW r \in Reconcilers, NEW s \in rsteps'[r], s \notin rsteps[r]
  PROVE  /\ FindExpired(r) /\ s \in Steps /\ stepStatus[s] = "RUNNING"
         /\ \A w \in Workers : pc[w] \notin HoldingPC
  <1> USE DEF TypeInv, TypeOK, ReconcilerTypes
  <1>1. ASSUME NEW q \in Reconcilers, ReconcilerStep(q) PROVE FindExpired(r)
    <2>1. CASE FindExpired(q)  BY <2>1 DEF FindExpired
    <2>2. ASSUME NEW u \in Steps, AbandonStep(q, u) PROVE FALSE
      BY <2>2 DEF AbandonStep
    <2>3. CASE UNCHANGED rsteps  BY <2>3
    <2>4. \/ FindExpired(q) \/ (\E u \in Steps : AbandonStep(q, u)) \/ UNCHANGED rsteps
      BY <1>1 DEF ReconcilerStep, RequeueExpired, EnqueueExpired, FindDue, RequeueDue,
         EnqueueDue, RecoverPendingDispatch, RequeueQueued, EnqueueRecovery, recVars
    <2> QED BY <2>1, <2>2, <2>3, <2>4
  <1>2. ASSUME NEW q \in Reconcilers, AbortReconcile(q) PROVE FALSE
    BY <1>2 DEF AbortReconcile
  <1>3. FindExpired(r)  BY <1>1, <1>2, ReconcilerWriters DEF recVars
  <1>4. \A w \in Workers : pc[w] \notin HoldingPC
    BY <1>3 DEF FindExpired, IsExpiredRunning, LeaseInv, Leased, Owns, Terminal
  <1> QED BY <1>3, <1>4 DEF FindExpired

LEMMA CountStays ==
  ASSUME TypeInv, Next, NEW s \in Steps, attemptCount[s] # 0 PROVE attemptCount'[s] # 0
  <1> USE DEF TypeInv, TypeOK, StepTypes, RunnerTypes
  <1>1. ASSUME NEW w \in Workers, BeginStep(w) PROVE attemptCount'[s] # 0
    BY <1>1 DEF BeginStep, NextAttempt
  <1>2. ASSUME NEW w \in Workers,
               \/ PrepareStep(w) \/ SkipStep(w)
               \/ StepSucceeds(w) \/ StepRetries(w) \/ StepFails(w)
        PROVE  attemptCount' = attemptCount
    BY <1>2 DEF PrepareStep, SkipStep, StepSucceeds, StepRetries, StepFails
  <1>3. ASSUME NEW r \in Reconcilers, NEW u \in Steps, AbandonStep(r, u)
        PROVE  attemptCount' = attemptCount
    BY <1>3 DEF AbandonStep
  <1> HIDE DEF TypeInv
  <1> QED BY <1>1, <1>2, <1>3, StepWriters DEF stepVars

(* With two attempts at most, a remembered ambiguous step is not           *)
(* rescheduled.                                                            *)
LEMMA NotRescheduled ==
  ASSUME AmbiguousTriedTwice, TypeInv, WaitInv, Next,
         NEW r \in Reconcilers, NEW s \in rsteps[r], s \in AmbiguousSteps
  PROVE  stepStatus'[s] # "RETRYING"
  <1> USE DEF TypeInv, TypeOK, StepTypes, RunnerTypes, ReconcilerTypes
  <1>1. s \in Steps /\ stepStatus[s] # "RETRYING"  BY DEF WaitInv, Remembered
  <1>2. ASSUME NEW w \in Workers, StepRetries(w) PROVE stepStatus'[s] # "RETRYING"
    <2>1. CASE cur[w] = s
      <3>1. seen[w] # 0
        BY <1>2, <2>1 DEF StepRetries, Throws, WaitInv, Remembered
      <3>2. seen[w] + 1 < MaxAttempts[s] /\ MaxAttempts[s] <= 2
        BY <1>2, <2>1 DEF StepRetries, CanRetry, NextAttempt, AmbiguousTriedTwice
      <3>3. MaxAttempts[s] \in Nat /\ seen[w] \in Nat  BY <1>1, EngineAssumption DEF Steps
      <3> QED BY <3>1, <3>2, <3>3
    <2>2. CASE cur[w] # s  BY <1>1, <1>2, <2>2 DEF StepRetries
    <2> QED BY <2>1, <2>2
  <1>3. ASSUME NEW w \in Workers,
               \/ PrepareStep(w) \/ SkipStep(w) \/ BeginStep(w)
               \/ StepSucceeds(w) \/ StepFails(w)
        PROVE  stepStatus'[s] # "RETRYING"
    BY <1>1, <1>3 DEF PrepareStep, SkipStep, BeginStep, StepSucceeds, StepFails
  <1>4. ASSUME NEW q \in Reconcilers, NEW u \in Steps, AbandonStep(q, u)
        PROVE  stepStatus'[s] # "RETRYING"
    BY <1>1, <1>4, Abandons
  <1> HIDE DEF TypeInv
  <1> QED BY <1>1, <1>2, <1>3, <1>4, StepWriters DEF stepVars

LEMMA RememberedNext ==
  ASSUME AmbiguousTriedTwice, TypeInv, LeaseInv, WaitInv, Next PROVE Remembered'
  <1> SUFFICES ASSUME NEW r \in Reconcilers, NEW s \in rsteps'[r]
               PROVE  /\ attemptCount'[s] # 0
                      /\ s \in AmbiguousSteps =>
                           /\ stepStatus'[s] # "RETRYING"
                           /\ \A w \in Workers :
                                pc'[w] \in {"begin", "handler", "record"} /\ cur'[w] = s
                                  => seen'[w] # 0
    BY DEF Remembered
  <1>1. CASE s \notin rsteps[r]
    <2>1. /\ FindExpired(r) /\ s \in Steps /\ stepStatus[s] = "RUNNING"
          /\ \A w \in Workers : pc[w] \notin HoldingPC
      BY <1>1, RemembersMore
    <2> QED BY <2>1 DEF FindExpired, WaitInv, Begun, stepVars, HoldingPC, RunningPC
  <1>2. CASE s \in rsteps[r]
    <2>1. s \in Steps /\ attemptCount[s] # 0
      BY <1>2 DEF WaitInv, Remembered, TypeInv, TypeOK, ReconcilerTypes
    <2>2. ASSUME s \in AmbiguousSteps, NEW w \in Workers,
                 pc'[w] \in {"begin", "handler", "record"}, cur'[w] = s
          PROVE  seen'[w] # 0
      <3>1. CASE Rests(w)  BY <1>2, <2>2, <3>1 DEF Rests, WaitInv, Remembered
      <3>2. CASE PrepareStep(w)
        BY <2>1, <2>2, <3>2 DEF PrepareStep, AtStep, TypeInv, TypeOK, RunnerTypes
      <3>3. CASE BeginStep(w) \/ StepSucceeds(w)
        BY <1>2, <2>2, <3>3 DEF BeginStep, StepSucceeds, WaitInv, Remembered, localVars
      <3>4. ~(\E j \in waiting : TakeJob(w, j))
        BY <2>2 DEF TakeJob, Goto, TypeInv, TypeOK, RunnerTypes
      <3> QED BY <2>2, <3>1, <3>2, <3>3, <3>4, Arrives DEF Arrival
    <2> QED BY <1>2, <2>1, <2>2, CountStays, NotRescheduled
  <1> QED BY <1>1, <1>2

LEMMA SomeStepWaitsNext == ASSUME TypeInv, LeaseInv, WaitInv, Next PROVE SomeStepWaits'
  <1> SUFFICES ASSUME status' = "RETRYING" PROVE \E s \in Steps : Retried(s)'
    BY DEF SomeStepWaits
  <1>1. CASE status = "RETRYING"
    <2>1. PICK s \in Steps : Retried(s)  BY <1>1 DEF WaitInv, SomeStepWaits
    <2>2. CASE UNCHANGED <<stepVars, calls>>  BY <2>1, <2>2 DEF Retried, stepVars
    <2>3. ASSUME NEW w \in Workers,
                 \/ PrepareStep(w) \/ SkipStep(w) \/ BeginStep(w)
                 \/ StepSucceeds(w) \/ StepRetries(w) \/ StepFails(w)
          PROVE  FALSE
      <3>1. pc[w] \in BeatingPC
        BY <2>3 DEF PrepareStep, AtStep, SkipStep, BeginStep, StepSucceeds, StepRetries,
           StepFails, Throws, BeatingPC, RunningPC
      <3> QED BY <1>1, <3>1 DEF LeaseInv, Running, Terminal
    <2>4. ASSUME NEW r \in Reconcilers, NEW u \in Steps, AbandonStep(r, u)
          PROVE  Retried(s)'
      BY <2>1, <2>4, StaysRetried
    <2> QED BY <2>1, <2>2, <2>3, <2>4, StepWriters
  <1>2. CASE status # "RETRYING"
    <2>1. PICK w \in Workers : MarkWaiting(w)
      BY <1>2, RowWriters DEF dbVars, Cancel, LeaseExpires, Acquire, Release,
         CompleteExecution, FailExecution, TransitionTerminal, CreateDeadLetter,
         RequeueExpired, RequeueDue
    <2>2. cur[w] \in Steps /\ Retried(cur[w]) /\ UNCHANGED stepVars
      BY <2>1 DEF MarkWaiting, WaitInv, RowWaits, AtWait
    <2> QED BY <2>2 DEF Retried, stepVars
  <1> QED BY <1>1, <1>2

LEMMA SettledNext == ASSUME TypeInv, LeaseInv, WaitInv, Next PROVE Settled'
  <1> SUFFICES ASSUME NEW w \in Workers, pc'[w] \in ReleasePC \cup {"deadLetter"}
               PROVE  status' # "RUNNING"
    BY DEF Settled
  <1>1. CASE Rests(w)
    <2>1. pc[w] \in ReleasePC \cup {"deadLetter"} /\ status # "RUNNING"
      BY <1>1 DEF Rests, WaitInv, Settled
    <2>2. ASSUME NEW v \in Workers, Acquire(v) PROVE FALSE
      BY <2>1, <2>2, NobodyHolds DEF HoldingPC
    <2> QED
      BY <2>1, <2>2, RowWriters DEF dbVars, Cancel, LeaseExpires, Release, MarkWaiting,
         RetryingIfActive, CompleteExecution, FailExecution, TransitionTerminal,
         CreateDeadLetter, RequeueExpired, RequeueDue
  <1>2. CASE RunnerStep(w) /\ Arrival(w)
    <2> USE DEF ReleasePC
    <2>1. CASE FailExecution(w) \/ CompleteExecution(w)
      BY <2>1 DEF FailExecution, CompleteExecution, TransitionTerminal, Active
    <2>2. CASE LoadExecution(w)
      BY <2>2 DEF LoadExecution, Goto, Terminal, dbVars, TypeInv, TypeOK, RunnerTypes
    <2>3. CASE CreateDeadLetter(w)
      BY <2>3 DEF CreateDeadLetter, WaitInv, Settled, dbVars
    <2>4. CASE MarkWaiting(w)
      BY <2>4 DEF MarkWaiting, RetryingIfActive, Active
    <2> QED BY <1>2, <2>1, <2>2, <2>3, <2>4 DEF Arrival
  <1>3. ~(\E j \in waiting : TakeJob(w, j))
    BY DEF TakeJob, ReleasePC, Goto, TypeInv, TypeOK, RunnerTypes
  <1> QED BY <1>1, <1>2, <1>3, Arrives DEF ReleasePC

LEMMA UnlockedNext == ASSUME TypeInv, WaitInv, Next PROVE Unlocked'
  <1> USE DEF Unlocked, WaitInv
  <1>1. CASE UNCHANGED <<dbVars, endVars>>  BY <1>1 DEF dbVars
  <1>2. CASE Cancel \/ LeaseExpires  BY <1>2 DEF Cancel, LeaseExpires
  <1>3. ASSUME NEW w \in Workers, Acquire(w) PROVE Unlocked'
    BY <1>3, EngineAssumption DEF Acquire
  <1>4. ASSUME NEW w \in Workers, Release(w) PROVE Unlocked'
    BY <1>4 DEF Release, Settled
  <1>5. ASSUME NEW w \in Workers,
               MarkWaiting(w) \/ CompleteExecution(w) \/ FailExecution(w) \/ CreateDeadLetter(w)
        PROVE  Unlocked'
    BY <1>5 DEF MarkWaiting, RetryingIfActive, CompleteExecution, FailExecution,
       TransitionTerminal, CreateDeadLetter, dbVars
  <1>6. ASSUME NEW r \in Reconcilers, RequeueExpired(r) \/ RequeueDue(r) PROVE Unlocked'
    BY <1>6 DEF RequeueExpired, RequeueDue
  <1> QED BY <1>1, <1>2, <1>3, <1>4, <1>5, <1>6, RowWriters

LEMMA WaitStutter == ASSUME WaitInv, UNCHANGED vars PROVE WaitInv'
  BY DEF WaitInv, Unwoken, RowWaits, AtWait, Retried, Begun, Remembered, SomeStepWaits,
     Settled, Unlocked, vars, dbVars, stepVars, localVars, recVars

(* Unless a process pauses for longer than its lease, and as long as no    *)
(* ambiguous step is attempted more than twice, an execution nobody holds  *)
(* is one the reconciler's queries can find: not RUNNING, and RETRYING     *)
(* only with a step row that carries the time.                             *)
THEOREM RestingExecutionIsFound ==
  ASSUME "pause" \notin FaultKinds, AmbiguousTriedTwice
  PROVE  Spec => []RestingIsRecoverable
  <1>1. TypeInv /\ LeaseInv /\ WaitInv /\ [Next]_vars => WaitInv'
    BY UnwokenNext, RowWaitsNext, BegunNext, RememberedNext, SomeStepWaitsNext, SettledNext,
       UnlockedNext, WaitStutter DEF WaitInv
  <1>2. WaitInv => RestingIsRecoverable
    BY DEF WaitInv, SomeStepWaits, Unlocked, Retried, RestingIsRecoverable
  <1> QED BY <1>1, <1>2, WaitInit, TypeInvariance, LeaseInvariance, PTL DEF Spec
=============================================================================
