---------------------------- MODULE ApprovalWait ----------------------------
(***************************************************************************)
(* An execution parked on an approval step: the worker's approval handler, *)
(* the API's decision, the expiry and the repairs of the reconciler, and   *)
(* the cancellation of the execution, all working on the same three rows   *)
(* (Execution, StepExecution, ApprovalRequest) and on the job ids of the   *)
(* BullMQ queue.  One execution with one approval step is modelled; the    *)
(* lease protocol itself is the subject of ExecutionEngine and appears     *)
(* here only as the owner of the execution.                                *)
(***************************************************************************)
EXTENDS Naturals, FiniteSets

CONSTANTS
  ApWorkers,     \* worker processes
  ApDeciders,    \* concurrent calls of ApprovalsService.decide
  ApChoice,      \* the decision each of them carries
  ApExpires,     \* BOOLEAN: the approval has an expiresAt
  ApMaxFaults    \* bound on worker crashes and on lost enqueues

ASSUME ApConstants == /\ ApChoice \in [ApDeciders -> {"APPROVED", "REJECTED"}]
                      /\ ApExpires \in BOOLEAN
                      /\ ApMaxFaults \in Nat

ApNobody == "nobody"
ASSUME ApNobodyWorks == ApNobody \notin ApWorkers
ApDecisions == {"APPROVED", "REJECTED"}
ApSettled == ApDecisions \union {"EXPIRED"}
ApActive == {"QUEUED", "RUNNING", "RETRYING"}
ApJobIds == [kind : {"start", "approval", "expired", "retry", "queued"}, n : Nat]

VARIABLES
  apExec,     \* the Execution row: status, waitReason = "approval", lockedBy, runAttempt
  apStep,     \* the StepExecution row: status, effectStatus, nextRetryAt <= now, output
  apRequest,  \* the ApprovalRequest row: status ("NONE": no row) and version
  apLapsed,   \* expiresAt has passed
  apPc,       \* where each worker is in WorkflowRunner.run and the handler
  apJobs,     \* the ids of the jobs waiting in the queue
  apKnown,    \* every id the queue has accepted: completed jobs are kept
  apDecide,   \* where each decide call is
  apRec,      \* the write a reconciler's recoverApprovals is about to make
  apCancel,   \* how far a cancellation has come
  apFaults    \* crashes and lost enqueues so far

apVars == <<apExec, apStep, apRequest, apLapsed, apPc, apJobs, apKnown, apDecide, apRec, apCancel, apFaults>>
apRows == <<apExec, apStep, apRequest, apLapsed>>

ApTypeOK ==
  /\ apExec \in [status : ApActive \union {"COMPLETED", "FAILED", "CANCELLED"}, wait : BOOLEAN,
                 owner : ApWorkers \union {ApNobody}, run : Nat]
  /\ apStep \in [status : {"PENDING", "RUNNING", "RETRYING", "COMPLETED", "FAILED"},
                 parked : BOOLEAN, due : BOOLEAN, output : ApSettled \union {"none"}]
  /\ apRequest \in [status : ApSettled \union {"NONE", "PENDING", "CANCELLED"}, version : 0 .. 1]
  /\ apLapsed \in BOOLEAN
  /\ apPc \in [ApWorkers -> {"idle", "begin", "handle", "ask", "park", "mark", "release", "answer", "finish"}]
  /\ apJobs \subseteq apKnown /\ apKnown \subseteq ApJobIds
  /\ apDecide \in [ApDeciders -> {"idle", "commit", "enqueue"}]
  /\ apRec \in {"idle", "enqueueExpired", "resume"}
  /\ apCancel \in {"none", "descendants", "done"}
  /\ apFaults \in 0 .. ApMaxFaults

ApInit ==
  /\ apExec = [status |-> "QUEUED", wait |-> FALSE, owner |-> ApNobody, run |-> 0]
  /\ apStep = [status |-> "PENDING", parked |-> FALSE, due |-> FALSE, output |-> "none"]
  /\ apRequest = [status |-> "NONE", version |-> 0]
  /\ apLapsed = FALSE
  /\ apPc = [w \in ApWorkers |-> "idle"]
  /\ apJobs = {[kind |-> "start", n |-> 0]} /\ apKnown = apJobs
  /\ apDecide = [d \in ApDeciders |-> "idle"]
  /\ apRec = "idle" /\ apCancel = "none" /\ apFaults = 0

-----------------------------------------------------------------------------
(* Shared operations. *)

\* queue.add: a job whose id the queue still holds, done or not, is ignored.
ApAdd(kind, n) == LET id == [kind |-> kind, n |-> n] IN
                  /\ apJobs' = IF id \in apKnown THEN apJobs ELSE apJobs \union {id}
                  /\ apKnown' = apKnown \union {id}

\* The lease of a worker that died in the run: nobody renews it.
ApLapsedLease == apExec.owner # ApNobody /\ apPc[apExec.owner] = "idle"

ApOwned(w) == apExec.owner = w

ApGo(w, pc) == apPc' = [apPc EXCEPT ![w] = pc]

\* LeaseLostError: the runner gives up without touching a row.
ApLost(w) == ~ApOwned(w) /\ ApGo(w, "idle") /\ UNCHANGED apRows

\* The execution leaves the approval wait when its request is settled.
ApWakeExec == IF apExec.status = "RETRYING" /\ apExec.wait
              THEN [apExec EXCEPT !.status = "QUEUED", !.wait = FALSE] ELSE apExec

-----------------------------------------------------------------------------
(* The worker. *)

\* A job is delivered and the lease acquired; a refused acquisition ends the job.
ApTake(w) ==
  /\ apPc[w] = "idle"
  /\ \E j \in apJobs :
       /\ apJobs' = apJobs \ {j}
       /\ IF apExec.status \in ApActive /\ (apExec.owner \in {ApNobody, w} \/ ApLapsedLease)
          THEN /\ apExec' = [apExec EXCEPT !.status = "RUNNING", !.owner = w, !.run = @ + 1]
               /\ ApGo(w, "begin")
          ELSE UNCHANGED <<apExec, apPc>>
  /\ UNCHANGED <<apStep, apRequest, apLapsed, apKnown, apDecide, apRec, apCancel, apFaults>>

\* The run loop reaches the step: done already, or StepExecutor.execute marks it RUNNING.
ApBegin(w) ==
  /\ apPc[w] = "begin"
  /\ \/ ApLost(w)
     \/ /\ ApOwned(w) /\ apStep.status = "COMPLETED"
        /\ ApGo(w, "finish") /\ UNCHANGED apRows
     \/ /\ ApOwned(w) /\ apStep.status # "COMPLETED"
        /\ apStep' = [apStep EXCEPT !.status = "RUNNING", !.due = FALSE]
        /\ ApGo(w, "handle") /\ UNCHANGED <<apExec, apRequest, apLapsed>>
  /\ UNCHANGED <<apJobs, apKnown, apDecide, apRec, apCancel, apFaults>>

\* ApprovalHandler.execute reads the request of this step.
ApHandle(w) ==
  /\ apPc[w] = "handle"
  /\ ApGo(w, CASE apRequest.status = "NONE" -> "ask"
               [] apRequest.status = "PENDING" -> "park"
               [] apRequest.status \in ApSettled -> "answer"
               [] apRequest.status = "CANCELLED" -> "release")
  /\ apStep' = IF apRequest.status = "CANCELLED" THEN [apStep EXCEPT !.status = "FAILED"] ELSE apStep
  /\ UNCHANGED <<apExec, apRequest, apLapsed, apJobs, apKnown, apDecide, apRec, apCancel, apFaults>>

\* The transaction that creates the request (upsert with an empty update).
ApAsk(w) ==
  /\ apPc[w] = "ask"
  /\ apRequest' = IF apRequest.status = "NONE" THEN [apRequest EXCEPT !.status = "PENDING"] ELSE apRequest
  /\ ApGo(w, "park")
  /\ UNCHANGED <<apExec, apStep, apLapsed, apJobs, apKnown, apDecide, apRec, apCancel, apFaults>>

\* The durable wait: RETRYING with no nextRetryAt and effectStatus "approval_waiting".
ApPark(w) ==
  /\ apPc[w] = "park"
  /\ apStep' = [apStep EXCEPT !.status = "RETRYING", !.parked = TRUE, !.due = FALSE]
  /\ ApGo(w, "mark")
  /\ UNCHANGED <<apExec, apRequest, apLapsed, apJobs, apKnown, apDecide, apRec, apCancel, apFaults>>

\* assertOwned, then markWaiting(waitReason "approval").
ApMark(w) ==
  /\ apPc[w] = "mark"
  /\ \/ ApLost(w)
     \/ /\ ApOwned(w)
        /\ apExec' = IF apExec.status \in ApActive THEN [apExec EXCEPT !.status = "RETRYING", !.wait = TRUE] ELSE apExec
        /\ ApGo(w, "release") /\ UNCHANGED <<apStep, apRequest, apLapsed>>
  /\ UNCHANGED <<apJobs, apKnown, apDecide, apRec, apCancel, apFaults>>

\* a variant: the resumed step answers without reading the request again
ApAnswerBlind(w) ==
  /\ apPc[w] = "answer"
  /\ apStep' = [apStep EXCEPT !.status = "COMPLETED", !.output = "APPROVED"]
  /\ ApGo(w, "finish")
  /\ UNCHANGED <<apExec, apRequest, apLapsed, apJobs, apKnown, apDecide, apRec, apCancel, apFaults>>

\* The handler found a settled request: its decision is the step's output.
ApAnswer(w) ==
  /\ apPc[w] = "answer"
  /\ apStep' = [apStep EXCEPT !.status = "COMPLETED", !.output = apRequest.status]
  /\ ApGo(w, "finish")
  /\ UNCHANGED <<apExec, apRequest, apLapsed, apJobs, apKnown, apDecide, apRec, apCancel, apFaults>>

\* The end of the run: assertOwned, transitionTerminal.
ApFinish(w) ==
  /\ apPc[w] = "finish"
  /\ \/ ApLost(w)
     \/ /\ ApOwned(w)
        /\ apExec' = IF apExec.status \in ApActive THEN [apExec EXCEPT !.status = "COMPLETED", !.wait = FALSE] ELSE apExec
        /\ ApGo(w, "release") /\ UNCHANGED <<apStep, apRequest, apLapsed>>
  /\ UNCHANGED <<apJobs, apKnown, apDecide, apRec, apCancel, apFaults>>

ApRelease(w) ==
  /\ apPc[w] = "release"
  /\ apExec' = IF ApOwned(w) THEN [apExec EXCEPT !.owner = ApNobody] ELSE apExec
  /\ ApGo(w, "idle")
  /\ UNCHANGED <<apStep, apRequest, apLapsed, apJobs, apKnown, apDecide, apRec, apCancel, apFaults>>

\* The process dies; its job is not delivered again.
ApCrash(w) ==
  /\ apPc[w] # "idle" /\ apFaults < ApMaxFaults
  /\ ApGo(w, "idle") /\ apFaults' = apFaults + 1
  /\ UNCHANGED <<apRows, apJobs, apKnown, apDecide, apRec, apCancel>>

-----------------------------------------------------------------------------
(* The API: ApprovalsService.decide and ExecutionsService.cancel. *)

\* The request is read: it must exist and be PENDING (its version is then 0).
ApDecideRead(d) ==
  /\ apDecide[d] = "idle" /\ apRequest.status = "PENDING"
  /\ apDecide' = [apDecide EXCEPT ![d] = "commit"]
  /\ UNCHANGED <<apRows, apPc, apJobs, apKnown, apRec, apCancel, apFaults>>

\* a variant: the update is not conditional on the row being PENDING
ApDecideCommitBlind(d) ==
  /\ apDecide[d] = "commit"
  /\ apRequest' = [status |-> ApChoice[d], version |-> 1]
  /\ apExec' = ApWakeExec
  /\ apDecide' = [apDecide EXCEPT ![d] = "enqueue"]
  /\ UNCHANGED <<apStep, apLapsed, apPc, apJobs, apKnown, apRec, apCancel, apFaults>>

\* The transaction: PENDING, the version that was read, not expired; the
\* execution is queued again when it is already waiting for this approval.
ApDecideCommit(d) ==
  /\ apDecide[d] = "commit"
  /\ IF apRequest = [status |-> "PENDING", version |-> 0] /\ ~apLapsed
     THEN /\ apRequest' = [status |-> ApChoice[d], version |-> 1]
          /\ apExec' = ApWakeExec
          /\ apDecide' = [apDecide EXCEPT ![d] = "enqueue"]
     ELSE apDecide' = [apDecide EXCEPT ![d] = "idle"] /\ UNCHANGED <<apRequest, apExec>>
  /\ UNCHANGED <<apStep, apLapsed, apPc, apJobs, apKnown, apRec, apCancel, apFaults>>

\* enqueueExecution after the commit; its failure, or the death of the API, is ignored.
ApDecideEnqueue(d) ==
  /\ apDecide[d] = "enqueue"
  /\ apDecide' = [apDecide EXCEPT ![d] = "idle"]
  /\ \/ ApAdd("approval", apRequest.version) /\ UNCHANGED apFaults
     \/ apFaults < ApMaxFaults /\ apFaults' = apFaults + 1 /\ UNCHANGED <<apJobs, apKnown>>
  /\ UNCHANGED <<apRows, apPc, apRec, apCancel>>

\* cancel, first update: the execution is CANCELLED and its lock removed.
ApCancelExecution ==
  /\ apCancel = "none" /\ apExec.status \in ApActive
  /\ apExec' = [apExec EXCEPT !.status = "CANCELLED", !.owner = ApNobody, !.wait = FALSE]
  /\ apCancel' = "descendants"
  /\ UNCHANGED <<apStep, apRequest, apLapsed, apPc, apJobs, apKnown, apDecide, apRec, apFaults>>

\* cancel, last update: a request that is still PENDING is CANCELLED.
ApCancelRequest ==
  /\ apCancel = "descendants"
  /\ apRequest' = IF apRequest.status = "PENDING" THEN [status |-> "CANCELLED", version |-> 1] ELSE apRequest
  /\ apCancel' = "done"
  /\ UNCHANGED <<apExec, apStep, apLapsed, apPc, apJobs, apKnown, apDecide, apRec, apFaults>>

-----------------------------------------------------------------------------
(* Time and the reconciler's passes. *)

ApLapse ==
  /\ ApExpires /\ apRequest.status = "PENDING" /\ ~apLapsed
  /\ apLapsed' = TRUE
  /\ UNCHANGED <<apExec, apStep, apRequest, apPc, apJobs, apKnown, apDecide, apRec, apCancel, apFaults>>

\* recoverApprovals, first half: the request expires and the execution is queued.
ApExpire ==
  /\ apRec = "idle" /\ apRequest.status = "PENDING" /\ apLapsed
  /\ apRequest' = [status |-> "EXPIRED", version |-> apRequest.version + 1]
  /\ apExec' = ApWakeExec
  /\ apRec' = "enqueueExpired"
  /\ UNCHANGED <<apStep, apLapsed, apPc, apJobs, apKnown, apDecide, apCancel, apFaults>>

ApEnqueueExpired ==
  /\ apRec = "enqueueExpired" /\ apRec' = "idle"
  /\ ApAdd("approval", apRequest.version)
  /\ UNCHANGED <<apRows, apPc, apDecide, apCancel, apFaults>>

\* The worker process with the reconciler dies between the two.
ApReconcilerDies ==
  /\ apRec # "idle" /\ apFaults < ApMaxFaults
  /\ apRec' = "idle" /\ apFaults' = apFaults + 1
  /\ UNCHANGED <<apRows, apPc, apJobs, apKnown, apDecide, apCancel>>

\* recoverApprovals, second half: a settled request whose step still waits.
ApStranded ==
  /\ apRec = "idle" /\ apRequest.status \in ApSettled
  /\ apStep.status = "RETRYING" /\ apStep.parked /\ apExec.status \in {"RETRYING", "QUEUED"}
  /\ apRec' = "resume"
  /\ UNCHANGED <<apRows, apPc, apJobs, apKnown, apDecide, apCancel, apFaults>>

ApResume ==
  /\ apRec = "resume" /\ apRec' = "idle"
  /\ apExec' = ApWakeExec
  /\ ApAdd("approval", apRequest.version)
  /\ UNCHANGED <<apStep, apRequest, apLapsed, apPc, apDecide, apCancel, apFaults>>

\* recoverExpiredRunning: the run of a dead worker is queued, its step retried at
\* once.  Every worker process has its reconciler, so that another one's pass
\* may fall between the two halves of a recoverApprovals.
ApRecoverRunning ==
  /\ apExec.status = "RUNNING" /\ ApLapsedLease
  /\ apExec' = [apExec EXCEPT !.status = "QUEUED", !.owner = ApNobody]
  /\ apStep' = IF apStep.status = "RUNNING"
               THEN [apStep EXCEPT !.status = "RETRYING", !.parked = FALSE, !.due = TRUE] ELSE apStep
  /\ ApAdd("expired", apExec.run)
  /\ UNCHANGED <<apRequest, apLapsed, apPc, apDecide, apRec, apCancel, apFaults>>

ApDue == apStep.status = "RETRYING" /\ apStep.due

\* requeueDueRetries and requeueQueuedExecutions.
ApRequeue ==
  /\ apExec.owner = ApNobody
  /\ \/ /\ apExec.status \in {"RETRYING", "QUEUED"} /\ ApDue
        /\ apExec' = [apExec EXCEPT !.status = "QUEUED"]
        /\ ApAdd("retry", apExec.run)
     \/ /\ apExec.status = "QUEUED" /\ ~ApDue
        /\ ApAdd("queued", apExec.run) /\ UNCHANGED apExec
  /\ UNCHANGED <<apStep, apRequest, apLapsed, apPc, apDecide, apRec, apCancel, apFaults>>

ApWorker(w) == ApTake(w) \/ ApBegin(w) \/ ApHandle(w) \/ ApAsk(w) \/ ApPark(w) \/ ApMark(w)
               \/ ApAnswer(w) \/ ApFinish(w) \/ ApRelease(w)
ApReconciler == ApExpire \/ ApEnqueueExpired \/ ApStranded \/ ApResume \/ ApRecoverRunning \/ ApRequeue

ApNext ==
  \/ \E w \in ApWorkers : ApWorker(w) \/ ApCrash(w)
  \/ \E d \in ApDeciders : ApDecideRead(d) \/ ApDecideCommit(d) \/ ApDecideEnqueue(d)
  \/ ApCancelExecution \/ ApCancelRequest
  \/ ApLapse \/ ApReconcilerDies \/ ApReconciler

\* Processes that are up keep running, jobs are delivered, the reconciler's
\* timer keeps firing; users and clocks owe nothing.
ApFairness ==
  /\ \A w \in ApWorkers : WF_apVars(ApWorker(w))
  /\ WF_apVars(ApEnqueueExpired \/ ApResume)
  /\ WF_apVars(ApExpire)
  /\ WF_apVars(ApStranded)
  /\ WF_apVars(ApRecoverRunning)
  /\ WF_apVars(ApRequeue)

ApSpec == ApInit /\ [][ApNext]_apVars /\ ApFairness

-----------------------------------------------------------------------------
(* A request is settled once.  Of two users, the expiry and a cancellation *)
(* that race for it exactly one wins, and no late transaction or upsert of *)
(* the handler changes the outcome or opens the request again.             *)
ApDecidedOnce ==
  apRequest.status \notin {"NONE", "PENDING"} => apRequest' = apRequest

(* The step never passes an approval nobody gave: what it hands to the     *)
(* rest of the workflow is the outcome stored in the request, and the      *)
(* execution completes only after it.                                      *)
ApOutputIsDecision ==
  /\ apStep.status = "COMPLETED" => apRequest.status \in ApSettled /\ apStep.output = apRequest.status
  /\ apExec.status = "COMPLETED" => apStep.status = "COMPLETED"

(* An execution that is parked for an approval has a request: nothing      *)
(* would ever wake one that had none, since its step has no retry time.    *)
ApParkedHasRequest == apExec.wait => apRequest.status # "NONE"

(* The state in which a worker died between markWaiting and release: the   *)
(* passes below look only at executions without an owner.                  *)
ApLeaseLeaked == apExec.status \in {"RETRYING", "QUEUED"} /\ ApLapsedLease

(* A settled approval resumes its execution, also when the decision falls  *)
(* between the handler's read and markWaiting, when its job finds the      *)
(* lease still held and is used up, when enqueueing it fails, and when     *)
(* the resumed worker dies: the execution ends, unless its lease leaked.   *)
ApDecisionResumes ==
  []<>(apRequest.status \in ApSettled => apExec.status \notin ApActive \/ ApLeaseLeaked)

(* The safety of a durable wait for an approval: a step that went on did   *)
(* so with the decision stored in its request, and an execution is parked  *)
(* only with a request to wait for.                                        *)
ApInv == ApTypeOK /\ ApOutputIsDecision /\ ApParkedHasRequest
=============================================================================
