------------------------------ MODULE TestRuns ------------------------------
(***************************************************************************)
(* Test runs of a workflow from the builder: WorkflowTestRunsService, the  *)
(* TestRuntimePolicy that decides which steps really run, and the runner   *)
(* on the execution of a run.  The workflow is a delay followed by one     *)
(* step with an effect.  The user may cancel the run, skip the wait and    *)
(* run it again while workers process it; cancel and skip read the run,    *)
(* and later write it without a condition.  Leases do not expire here.     *)
(***************************************************************************)
EXTENDS Naturals, FiniteSets

CONSTANTS
  TrWorkers,   \* workers that may take the execution's jobs
  TrTypes,     \* types of the second step to explore
  TrMaxReruns  \* bound on runs after the first

ASSUME TrConstants == TrMaxReruns \in Nat /\ "none" \notin TrWorkers

VARIABLES
  trRun,    \* the test run: type of its second step, external mode, mock of that step, role of its creator
  trStatus, \* executions.status, "NONE" before a run is made
  trLock,   \* executions.lockedBy
  trWait,   \* the delay's row: status, whether its time has come, whether it was skipped
  trCall,   \* the second step's row
  trJobs,   \* jobs in the queue
  trUsed,   \* job ids that BullMQ knows: adding one of them again does nothing
  trPc,     \* per worker: "idle", "wait", "parks", "call", "calls", "ends"
  trUser,   \* the user's cancel and skip: "idle", "read", "written"
  trEffects,\* how often the second step has really run, outside the test
  trStarts, \* how often it has been started
  trOvertaken, \* a cancel or a skip wrote over a change it had not seen
  trRuns

trVars == <<trRun, trStatus, trLock, trWait, trCall, trJobs, trUsed, trPc, trUser, trEffects, trStarts, trOvertaken, trRuns>>

TrActive == {"QUEUED", "RUNNING", "RETRYING"}
TrOver == {"COMPLETED", "FAILED", "CANCELLED"}
TrBehaviours == {"none", "manual", "simulated_success", "simulated_error", "simulated_timeout"}
TrEffectTypes == {"http_request", "email_notification", "database_record", "data_store", "ai"}
TrJobIds == {"first", "retry", "recovered"}
TrNoWait == [status |-> "PENDING", due |-> FALSE, skipped |-> FALSE]

TrTypeOK ==
  /\ trRun \in [type : TrTypes, mode : {"mock", "real"}, mock : TrBehaviours, role : {"EDITOR", "ADMIN"}]
  /\ trStatus \in TrActive \union TrOver \union {"NONE"} /\ trLock \in TrWorkers \union {"none"}
  /\ trWait \in [status : {"PENDING", "RETRYING", "COMPLETED"}, due : BOOLEAN, skipped : BOOLEAN]
  /\ trCall \in {"PENDING", "RUNNING", "COMPLETED", "FAILED"}
  /\ trJobs \subseteq trUsed /\ trUsed \subseteq TrJobIds
  /\ trPc \in [TrWorkers -> {"idle", "wait", "parks", "call", "calls", "ends"}]
  /\ trUser \in [{"cancel", "skip"} -> {"idle", "read", "written"}]
  /\ trEffects \in 0 .. trStarts /\ trOvertaken \in BOOLEAN /\ trRuns \in 0 .. TrMaxReruns + 1
  \* a worker holds the lease only of a run it works on, and only of a running one
  /\ trLock /= "none" => trPc[trLock] /= "idle"

TrInit ==
  /\ trRun \in [type : TrTypes, mode : {"mock", "real"}, mock : TrBehaviours, role : {"EDITOR", "ADMIN"}]
  /\ trStatus = "NONE" /\ trLock = "none" /\ trWait = TrNoWait /\ trCall = "PENDING"
  /\ trJobs = {} /\ trUsed = {} /\ trPc = [w \in TrWorkers |-> "idle"]
  /\ trUser = [o \in {"cancel", "skip"} |-> "idle"]
  /\ trEffects = 0 /\ trStarts = 0 /\ trOvertaken = FALSE /\ trRuns = 0

-----------------------------------------------------------------------------
(* The policy *)

\* a variant: the mode is looked at before the mocks
TrDecideModeFirst(run) ==
  IF run.mode = "real" THEN "run_real"
  ELSE IF run.mock \in {"simulated_error", "simulated_timeout"} THEN "error"
  ELSE IF run.type \in TrEffectTypes THEN "mock" ELSE "run_real"
\* TestRuntimePolicy.decide for a step of the test run's own execution.
TrDecide(run) ==
  IF run.mock \in {"simulated_error", "simulated_timeout"} THEN "error"
  ELSE IF run.mode = "real" /\ run.type /= "database_record" /\ run.mock = "none" THEN "run_real"
  ELSE IF run.type \in TrEffectTypes THEN "mock" ELSE "run_real"

\* What really happens outside when the step is started. An execute_workflow
\* step is never asked about; its child has no test run, so its steps run.
TrReallyRuns(run) ==
  \/ run.type = "execute_workflow"
  \/ run.type \in TrEffectTypes /\ TrDecide(run) = "run_real"

\* How it ends: a mock of any kind completes, with a marked output.
TrResult(run) == IF TrDecide(run) = "error" /\ run.type /= "execute_workflow" THEN "FAILED" ELSE "COMPLETED"

-----------------------------------------------------------------------------
(* The service *)

TrAdd(id) == trJobs' = (IF id \in trUsed THEN trJobs ELSE trJobs \union {id}) /\ trUsed' = trUsed \union {id}

TrMayRunReal(role) == role = "ADMIN"

\* create, with its confirmation given: execution and test run in one
\* transaction, then the job.
TrCreate ==
  /\ trStatus = "NONE" /\ (trRun.mode = "real" => TrMayRunReal(trRun.role))
  /\ trStatus' = "QUEUED" /\ trRuns' = trRuns + 1 /\ TrAdd("first")
  /\ UNCHANGED <<trRun, trLock, trWait, trCall, trPc, trUser, trEffects, trStarts, trOvertaken>>

\* rerun: a new run of the snapshot. The first run is over and nobody works on it
\* any more; what is followed from here is the new one.
TrRerun(role) ==
  /\ trStatus \in TrOver /\ trJobs = {} /\ trRuns <= TrMaxReruns /\ \A w \in TrWorkers : trPc[w] = "idle"
  /\ \A o \in DOMAIN trUser : trUser[o] /= "read"
  /\ trRun.mode = "real" => TrMayRunReal(role)
  /\ trRun' = [trRun EXCEPT !.role = role]
  /\ trStatus' = "QUEUED" /\ trWait' = TrNoWait /\ trCall' = "PENDING" /\ trJobs' = {"first"} /\ trUsed' = {"first"}
  /\ trUser' = [o \in DOMAIN trUser |-> "idle"] /\ trEffects' = 0 /\ trStarts' = 0 /\ trOvertaken' = FALSE
  /\ trRuns' = trRuns + 1 /\ UNCHANGED <<trLock, trPc>>

\* cancel loads the run and returns at once when it is over.
TrCancelRead ==
  /\ trStatus \in TrActive /\ trUser["cancel"] = "idle" /\ trUser' = [trUser EXCEPT !["cancel"] = "read"]
  /\ UNCHANGED <<trRun, trStatus, trLock, trWait, trCall, trJobs, trUsed, trPc, trEffects, trStarts, trOvertaken, trRuns>>

TrCancel ==
  /\ trUser["cancel"] = "read" /\ trUser' = [trUser EXCEPT !["cancel"] = "written"]
  /\ trStatus' = "CANCELLED" /\ trLock' = "none"
  /\ trOvertaken' = (trOvertaken \/ trStatus \in TrOver)
  /\ UNCHANGED <<trRun, trWait, trCall, trJobs, trUsed, trPc, trEffects, trStarts, trRuns>>

\* skipWait loads the run; its step must be waiting. The status of the
\* execution is not looked at.
TrSkipRead ==
  /\ trStatus /= "NONE" /\ trWait.status = "RETRYING" /\ trUser["skip"] = "idle"
  /\ trUser' = [trUser EXCEPT !["skip"] = "read"]
  /\ UNCHANGED <<trRun, trStatus, trLock, trWait, trCall, trJobs, trUsed, trPc, trEffects, trStarts, trOvertaken, trRuns>>

\* The step and the execution in one transaction, then the job: with the id the
\* first job had.
TrSkip ==
  /\ trUser["skip"] = "read" /\ trUser' = [trUser EXCEPT !["skip"] = "written"]
  /\ trWait' = [status |-> "COMPLETED", due |-> FALSE, skipped |-> TRUE]
  /\ trStatus' = "QUEUED" /\ trLock' = "none" /\ TrAdd("first")
  /\ trOvertaken' = (trOvertaken \/ trWait.status /= "RETRYING" \/ trLock /= "none" \/ trStatus \in TrOver)
  /\ UNCHANGED <<trRun, trCall, trPc, trEffects, trStarts, trRuns>>

-----------------------------------------------------------------------------
(* The runner *)

\* a variant: whatever the status
TrClaimableAny(w) == trLock \in {"none", w}
TrClaimable(w) == trStatus \in TrActive /\ trLock \in {"none", w}

\* A job is processed: by the owner of the lease, or not at all.
TrClaim(w) ==
  /\ trPc[w] = "idle"
  /\ \E id \in trJobs :
        /\ id = "retry" => trWait.due
        /\ trJobs' = trJobs \ {id}
  /\ IF TrClaimable(w) THEN trStatus' = "RUNNING" /\ trLock' = w /\ trPc' = [trPc EXCEPT ![w] = "wait"]
     ELSE UNCHANGED <<trStatus, trLock, trPc>>
  /\ UNCHANGED <<trRun, trWait, trCall, trUsed, trUser, trEffects, trStarts, trOvertaken, trRuns>>

TrGoes(w, to) == trPc' = [trPc EXCEPT ![w] = to]
\* assertOwned: a runner without its lease stops.
TrLost(w) ==
  /\ trLock /= w /\ trPc[w] \notin {"idle", "calls"} /\ TrGoes(w, "idle")
  /\ UNCHANGED <<trRun, trStatus, trLock, trWait, trCall, trJobs, trUsed, trUser, trEffects, trStarts, trOvertaken, trRuns>>

\* The delay: done, due, or to be waited for.
TrWaits(w) ==
  /\ trPc[w] = "wait" /\ trLock = w
  /\ \/ trWait.status = "COMPLETED" /\ TrGoes(w, "call") /\ UNCHANGED trWait
     \/ trWait.status = "PENDING" /\ TrGoes(w, "parks") /\ trWait' = [trWait EXCEPT !.status = "RETRYING"]
     \/ trWait.status = "RETRYING" /\ ~trWait.due /\ TrGoes(w, "parks") /\ UNCHANGED trWait
     \/ trWait.status = "RETRYING" /\ trWait.due /\ TrGoes(w, "call") /\ trWait' = [trWait EXCEPT !.status = "COMPLETED"]
  /\ UNCHANGED <<trRun, trStatus, trLock, trCall, trJobs, trUsed, trUser, trEffects, trStarts, trOvertaken, trRuns>>

\* markWaiting, release and the delayed job.
TrParks(w) ==
  /\ trPc[w] = "parks" /\ trLock = w
  /\ trStatus' = (IF trStatus \in TrActive THEN "RETRYING" ELSE trStatus)
  /\ trLock' = "none" /\ TrGoes(w, "idle") /\ TrAdd("retry")
  /\ UNCHANGED <<trRun, trWait, trCall, trUser, trEffects, trStarts, trOvertaken, trRuns>>

\* The second step is started, unless it is done.
TrCalls(w) ==
  /\ trPc[w] = "call" /\ trLock = w
  /\ IF trCall = "COMPLETED" THEN TrGoes(w, "ends") /\ UNCHANGED <<trCall, trEffects, trStarts>>
     ELSE /\ TrGoes(w, "calls") /\ trCall' = "RUNNING" /\ trStarts' = trStarts + 1
          /\ trEffects' = trEffects + (IF TrReallyRuns(trRun) THEN 1 ELSE 0)
  /\ UNCHANGED <<trRun, trStatus, trLock, trWait, trJobs, trUsed, trUser, trOvertaken, trRuns>>

\* Its end is written without a look at the lease.
TrCalled(w) ==
  /\ trPc[w] = "calls" /\ TrGoes(w, "ends")
  /\ trCall' = TrResult(trRun)
  /\ UNCHANGED <<trRun, trStatus, trLock, trWait, trJobs, trUsed, trUser, trEffects, trStarts, trOvertaken, trRuns>>

\* transitionTerminal, if the execution is still active, and release.
TrEnds(w) ==
  /\ trPc[w] = "ends" /\ trLock = w /\ TrGoes(w, "idle") /\ trLock' = "none"
  /\ trStatus' = IF trStatus \notin TrActive THEN trStatus ELSE IF trCall = "FAILED" THEN "FAILED" ELSE "COMPLETED"
  /\ UNCHANGED <<trRun, trWait, trCall, trJobs, trUsed, trUser, trEffects, trStarts, trOvertaken, trRuns>>

\* The wait is over.
TrDue ==
  /\ trWait.status = "RETRYING" /\ ~trWait.due /\ trWait' = [trWait EXCEPT !.due = TRUE]
  /\ UNCHANGED <<trRun, trStatus, trLock, trCall, trJobs, trUsed, trPc, trUser, trEffects, trStarts, trOvertaken, trRuns>>

\* The reconciler finds an execution that nobody holds whose step is due.
TrRecoverDue ==
  /\ trStatus \in {"RETRYING", "QUEUED"} /\ trLock = "none" /\ trWait.status = "RETRYING" /\ trWait.due
  /\ trStatus' = "QUEUED" /\ trJobs' = trJobs \union {"recovered"} /\ trUsed' = trUsed \union {"recovered"}
  /\ UNCHANGED <<trRun, trLock, trWait, trCall, trPc, trUser, trEffects, trStarts, trOvertaken, trRuns>>

\* And a queued execution that nobody holds. The job's id contains the number of
\* claims, which grows with each, so that it is new.
TrRecoverQueued ==
  /\ trStatus = "QUEUED" /\ trLock = "none" /\ ~(trWait.status = "RETRYING" /\ trWait.due)
  /\ trJobs' = trJobs \union {"recovered"} /\ trUsed' = trUsed \union {"recovered"}
  /\ UNCHANGED <<trRun, trStatus, trLock, trWait, trCall, trPc, trUser, trEffects, trStarts, trOvertaken, trRuns>>

TrWorker(w) == TrClaim(w) \/ TrLost(w) \/ TrWaits(w) \/ TrParks(w) \/ TrCalls(w) \/ TrCalled(w) \/ TrEnds(w)
TrNext ==
  \/ TrCreate \/ TrCancelRead \/ TrCancel \/ TrSkipRead \/ TrSkip \/ TrDue \/ TrRecoverDue \/ TrRecoverQueued
  \/ \E role \in {"EDITOR", "ADMIN"} : TrRerun(role)
  \/ \E w \in TrWorkers : TrWorker(w)

\* Workers go on, the queue delivers, time passes, the reconciler runs.
TrFairness ==
  /\ \A w \in TrWorkers : WF_trVars(TrWorker(w))
  /\ WF_trVars(TrDue) /\ WF_trVars(TrRecoverDue) /\ WF_trVars(TrRecoverQueued)
TrSpec == TrInit /\ [][TrNext]_trVars /\ TrFairness

-----------------------------------------------------------------------------
(* What the debugger shows *)

\* graphState: a step that is running in a cancelled execution has failed.
TrNode(step, waits) ==
  CASE step = "COMPLETED" -> "completed" [] step = "FAILED" -> "failed"
    [] step = "RUNNING" -> (IF trStatus = "CANCELLED" THEN "failed" ELSE "active")
    [] step = "RETRYING" -> (IF waits THEN "waiting" ELSE "retrying") [] OTHER -> "pending"

-----------------------------------------------------------------------------
(* Properties *)

\* A step of the run itself has its effect only in real mode, never when the
\* user gave it a mock, and never on the database (test-runtime-policy.ts:42).
TrEffectsAreWanted ==
  trEffects > 0 /\ trRun.type /= "execute_workflow" => trRun.mode = "real" /\ trRun.mock = "none" /\ trRun.type /= "database_record"

\* A run in real mode was made by somebody who may: also when it is a rerun.
TrRealIsAllowed == trStatus /= "NONE" /\ trRun.mode = "real" => trRun.role = "ADMIN"

\* While no cancel or skip has written over a change it had not seen, the second
\* step is started once: whoever queues the execution, one worker at a time has
\* the lease, and a done step is not run again.
TrStartedOnce == ~trOvertaken => trStarts <= 1

\* A run that is over stays over, but for a skip of its wait and for a cancel
\* that had read it before.
TrOverStays ==
  trRuns' = trRuns /\ trStatus \in TrOver /\ trStatus' /= trStatus => (trOvertaken' /\ (trUser["skip"] = "read" \/ trUser["cancel"] = "read"))

\* A run that is over shows no active step, unless it was written over.
TrShownIsOver ==
  ~trOvertaken /\ trStatus \in TrOver => "active" \notin {TrNode(trWait.status, ~trWait.due), TrNode(trCall, FALSE)}

\* Every run ends: also after its wait was skipped, where the job has an id that
\* the queue already knows and the reconciler has to find the execution.
TrRunsEnd == []<>(trStatus \notin TrActive)

\* In mock mode nothing outside the test happens (docs/workflow-debugger.md:18):
\* does not hold, the steps of a sub-workflow really run.
TrMockHasNoEffects == trRun.mode = "mock" => trEffects = 0

\* The safety of test runs: a step has an effect only in a mode and by a role
\* that allow it, is started once, and a run that is shown as over is over.
TrInv == TrTypeOK /\ TrEffectsAreWanted /\ TrRealIsAllowed /\ TrStartedOnce /\ TrShownIsOver
=============================================================================
