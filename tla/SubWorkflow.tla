---------------------------- MODULE SubWorkflow -----------------------------
(***************************************************************************)
(* Executions that call other workflows: the execute_workflow step         *)
(* (ExecuteWorkflowExecutionService), the wake-up of the parent, the       *)
(* timeout of a child, and the cancellation of a whole tree.  Every        *)
(* workflow here has at most one execute_workflow step; a workflow without *)
(* one ends as its other steps decide.  At most one runner works on an     *)
(* execution, which is what the lease of ExecutionEngine provides.         *)
(***************************************************************************)
EXTENDS Naturals, FiniteSets

CONSTANTS
  SwCallGraphs,   \* the call graphs to explore: for each workflow the one it calls ("leaf": none)
                  \* and the maxAttempts of the retry policy of that step
  SwMaxDepth,     \* SUBWORKFLOW_LIMITS.maxDepth
  SwMaxChildren,  \* SUBWORKFLOW_LIMITS.maxChildrenPerRoot
  SwIds,          \* execution ids, 1 .. n: more than the attempts can create
  SwMaxFaults     \* bound on crashes and queue errors

ASSUME SwConstants == /\ SwMaxDepth \in Nat /\ SwMaxChildren \in Nat /\ SwMaxFaults \in Nat
                      /\ SwIds \subseteq Nat \ {0} /\ 1 \in SwIds
                      /\ \A g \in SwCallGraphs : "a" \in DOMAIN g /\ \A f \in DOMAIN g :
                           g[f].to \in DOMAIN g \union {"leaf"} /\ g[f].tries \in Nat \ {0}

VARIABLES
  swCalls,   \* the call graph of this behaviour
  sw,        \* the Execution rows with their execute_workflow StepExecution
  swPc,      \* where the runner of each execution is
  swJobs,    \* executions with a job in the queue
  swLate,    \* active children older than their timeoutSeconds
  swCancel,  \* executions whose cancellation still has to reach its tree
  swFaults

swVars == <<swCalls, sw, swPc, swJobs, swLate, swCancel, swFaults>>

SwActive == {"QUEUED", "RUNNING", "RETRYING"}
SwEnded == {"COMPLETED", "FAILED", "CANCELLED"}
SwMade == DOMAIN sw
SwRoot == 1
SwChildren(e) == {c \in SwMade : sw[c].parent = e}
SwLatest(e) == CHOOSE c \in SwChildren(e) : \A d \in SwChildren(e) : d <= c
SwTarget(e) == swCalls[sw[e].flow].to
SwTries(e) == swCalls[sw[e].flow].tries
\* ancestry: the execution and everything it was called from, to the root.
SwAncestry(e) == {f \in SwMade : \A S \in SUBSET SwMade :
                                   e \in S /\ (\A g \in S : sw[g].parent \in S \union {0}) => f \in S}

SwTypeOK ==
  /\ SwMade \subseteq SwIds
  /\ \A e \in SwMade : sw[e] \in [flow : DOMAIN swCalls, parent : SwIds \union {0}, depth : 0 .. SwMaxDepth,
                                  status : SwActive \union SwEnded, attempts : Nat,
                                  step : {"PENDING", "RETRYING", "COMPLETED", "FAILED"}]
  /\ swPc \in [SwIds -> {"none", "inspect", "create", "enqueue", "wait", "end", "fail", "wake"}]
  /\ \A e \in SwMade \ {SwRoot} : sw[e].depth = sw[sw[e].parent].depth + 1
  /\ swJobs \subseteq SwMade /\ swLate \subseteq SwMade /\ swCancel \subseteq SwMade
  /\ swFaults \in 0 .. SwMaxFaults

\* A new row.
SwQueued(flow, parent, depth) ==
  [flow |-> flow, parent |-> parent, depth |-> depth, status |-> "QUEUED", attempts |-> 0, step |-> "PENDING"]

SwInit ==
  /\ swCalls \in SwCallGraphs
  /\ sw = [e \in {SwRoot} |-> SwQueued("a", 0, 0)]
  /\ swPc = [e \in SwIds |-> "none"]
  /\ swJobs = {SwRoot} /\ swLate = {} /\ swCancel = {} /\ swFaults = 0

SwGo(e, pc) == swPc' = [swPc EXCEPT ![e] = pc]
SwSet(e, status) == sw' = [sw EXCEPT ![e].status = status]

-----------------------------------------------------------------------------
(* One run of an execution. *)

\* A job is delivered: the lease is refused while another runner works, and
\* to an execution that has ended.
SwStart(e) ==
  /\ e \in swJobs /\ swJobs' = swJobs \ {e}
  /\ IF sw[e].status \in SwActive /\ swPc[e] = "none"
     THEN SwSet(e, "RUNNING") /\ SwGo(e, "inspect")
     ELSE UNCHANGED <<sw, swPc>>
  /\ UNCHANGED <<swCalls, swLate, swCancel, swFaults>>

\* A workflow without execute_workflow ends by its own steps.
SwLeaf(e) ==
  /\ swPc[e] = "inspect" /\ SwTarget(e) = "leaf"
  /\ \E pc \in {"end", "fail"} : SwGo(e, pc)
  /\ UNCHANGED <<swCalls, sw, swJobs, swLate, swCancel, swFaults>>

SwExhausted(e) == sw[e].attempts >= SwTries(e)

\* a variant: a late child is given up without being cancelled
SwChildActiveLeft(e) ==
  /\ swPc[e] = "inspect" /\ SwTarget(e) # "leaf" /\ SwChildren(e) # {}
  /\ sw[SwLatest(e)].status \in SwActive
  /\ SwGo(e, IF SwLatest(e) \notin swLate THEN "wait" ELSE IF SwExhausted(e) THEN "fail" ELSE "create")
  /\ UNCHANGED <<swCalls, sw, swJobs, swLate, swCancel, swFaults>>

\* execute: the latest child is still active.  One older than its timeout is
\* cancelled, and fails the step when no attempt is left.
SwChildActive(e) ==
  /\ swPc[e] = "inspect" /\ SwTarget(e) # "leaf" /\ SwChildren(e) # {}
  /\ LET c == SwLatest(e) IN
     /\ sw[c].status \in SwActive
     /\ IF c \notin swLate
        THEN SwGo(e, "wait") /\ UNCHANGED <<sw, swLate>>
        ELSE /\ sw' = [sw EXCEPT ![c].status = "CANCELLED",
                                 ![e].step = IF SwExhausted(e) THEN "FAILED" ELSE @]
             /\ swLate' = swLate \ {c}
             /\ SwGo(e, IF SwExhausted(e) THEN "fail" ELSE "wait")
  /\ UNCHANGED <<swCalls, swJobs, swCancel, swFaults>>

\* The latest child has completed: its output completes the step.
SwChildCompleted(e) ==
  /\ swPc[e] = "inspect" /\ SwTarget(e) # "leaf" /\ SwChildren(e) # {}
  /\ sw[SwLatest(e)].status = "COMPLETED"
  /\ sw' = [sw EXCEPT ![e].step = "COMPLETED"]
  /\ SwGo(e, "end")
  /\ UNCHANGED <<swCalls, swJobs, swLate, swCancel, swFaults>>

\* No child, or one that failed or was cancelled: a new attempt, unless the
\* attempts, the depth, the ancestry or the number of children forbid it.
SwAttempt(e) ==
  /\ swPc[e] = "inspect" /\ SwTarget(e) # "leaf"
  /\ SwChildren(e) # {} => sw[SwLatest(e)].status \in {"FAILED", "CANCELLED"}
  /\ LET refused == \/ SwChildren(e) # {} /\ SwExhausted(e)
                    \/ sw[e].depth + 1 > SwMaxDepth
                    \/ SwTarget(e) \in {sw[f].flow : f \in SwAncestry(e)}
                    \/ Cardinality(SwMade \ {SwRoot}) >= SwMaxChildren
     IN /\ sw' = IF refused THEN [sw EXCEPT ![e].step = "FAILED"] ELSE sw
        /\ SwGo(e, IF refused THEN "fail" ELSE "create")
  /\ UNCHANGED <<swCalls, swJobs, swLate, swCancel, swFaults>>

\* resolveTarget throws for a target that is gone or unpublished; the step row stays as it was.
SwUnresolved(e) ==
  /\ swPc[e] = "create" /\ swFaults < SwMaxFaults
  /\ SwGo(e, "fail") /\ swFaults' = swFaults + 1
  /\ UNCHANGED <<swCalls, sw, swJobs, swLate, swCancel>>

\* The transaction: the attempt is counted and the child row created.
SwCreate(e) ==
  /\ swPc[e] = "create"
  /\ \E c \in SwIds \ SwMade :
       /\ \A d \in SwIds \ SwMade : c <= d
       /\ sw' = [f \in SwMade \union {c} |->
                   IF f = c THEN SwQueued(SwTarget(e), e, sw[e].depth + 1)
                   ELSE IF f = e THEN [sw[e] EXCEPT !.step = "RETRYING", !.attempts = @ + 1]
                   ELSE sw[f]]
  /\ SwGo(e, "enqueue")
  /\ UNCHANGED <<swCalls, swJobs, swLate, swCancel, swFaults>>

\* queue.add of the child's job; an error of the queue fails the parent's run.
SwEnqueueChild(e) ==
  /\ swPc[e] = "enqueue"
  /\ \/ swJobs' = swJobs \union {SwLatest(e)} /\ SwGo(e, "wait") /\ UNCHANGED swFaults
     \/ /\ swFaults < SwMaxFaults /\ swFaults' = swFaults + 1
        /\ SwGo(e, "fail") /\ UNCHANGED swJobs
  /\ UNCHANGED <<swCalls, sw, swLate, swCancel>>

\* wait, markWaiting and release: due again after recheckMilliseconds.
SwWait(e) ==
  /\ swPc[e] = "wait"
  /\ sw' = [sw EXCEPT ![e].step = "RETRYING", ![e].status = IF @ \in SwActive THEN "RETRYING" ELSE @]
  /\ SwGo(e, "none")
  /\ UNCHANGED <<swCalls, swJobs, swLate, swCancel, swFaults>>

\* transitionTerminal: whoever ended the execution first decides how it ended.
SwEnd(e) ==
  /\ swPc[e] \in {"end", "fail"}
  /\ IF sw[e].status \in SwActive
     THEN SwSet(e, IF swPc[e] = "end" THEN "COMPLETED" ELSE "FAILED") /\ SwGo(e, "wake")
     ELSE SwGo(e, "none") /\ UNCHANGED sw
  /\ swLate' = swLate \ {e}
  /\ UNCHANGED <<swCalls, swJobs, swCancel, swFaults>>

\* wakeParent: a job for the parent; a queue error is swallowed.
SwWakeParent(e) ==
  /\ swPc[e] = "wake" /\ SwGo(e, "none")
  /\ \/ swJobs' = swJobs \union ({sw[e].parent} \ {0}) /\ UNCHANGED swFaults
     \/ swFaults < SwMaxFaults /\ swFaults' = swFaults + 1 /\ UNCHANGED swJobs
  /\ UNCHANGED <<swCalls, sw, swLate, swCancel>>

\* The worker dies at any point of the run.
SwCrash(e) ==
  /\ swPc[e] # "none" /\ swFaults < SwMaxFaults
  /\ SwGo(e, "none") /\ swFaults' = swFaults + 1
  /\ UNCHANGED <<swCalls, sw, swJobs, swLate, swCancel>>

-----------------------------------------------------------------------------
(* Time, the reconciler and users. *)

SwGrowsLate(c) ==
  /\ c \in SwMade \ {SwRoot} /\ sw[c].status \in SwActive /\ c \notin swLate
  /\ swLate' = swLate \union {c}
  /\ UNCHANGED <<swCalls, sw, swPc, swJobs, swCancel, swFaults>>

\* a variant: only executions that wait for a due step are looked at
SwRecheckDue(e) ==
  /\ e \in SwMade \ swJobs /\ sw[e].status = "RETRYING" /\ swPc[e] = "none"
  /\ SwSet(e, "QUEUED") /\ swJobs' = swJobs \union {e}
  /\ UNCHANGED <<swCalls, swPc, swLate, swCancel, swFaults>>

\* The delayed retry job, requeueDueRetries, requeueQueuedExecutions and
\* recoverExpiredRunning: an active execution nobody runs gets a job again.
SwRecheck(e) ==
  /\ e \in SwMade \ swJobs /\ sw[e].status \in SwActive /\ swPc[e] = "none"
  /\ SwSet(e, "QUEUED") /\ swJobs' = swJobs \union {e}
  /\ UNCHANGED <<swCalls, swPc, swLate, swCancel, swFaults>>

\* ExecutionsService.cancel, first update.
SwCancelOne(e) ==
  /\ e \in SwMade /\ sw[e].status \in SwActive /\ swCancel = {}
  /\ SwSet(e, "CANCELLED")
  /\ swCancel' = {e} /\ swLate' = swLate \ {e}
  /\ UNCHANGED <<swCalls, swPc, swJobs, swFaults>>

\* Second update: every active execution below the root of the cancelled one.
SwCancelTree(e) ==
  /\ e \in swCancel /\ swCancel' = swCancel \ {e}
  /\ sw' = [f \in SwMade |-> IF f # SwRoot /\ sw[f].status \in SwActive
                             THEN [sw[f] EXCEPT !.status = "CANCELLED"] ELSE sw[f]]
  /\ swLate' = {}
  /\ UNCHANGED <<swCalls, swPc, swJobs, swFaults>>

SwRun(e) == e \in SwMade /\ (SwStart(e) \/ SwLeaf(e) \/ SwChildActive(e) \/ SwChildCompleted(e) \/ SwAttempt(e)
                             \/ SwCreate(e) \/ SwEnqueueChild(e) \/ SwWait(e) \/ SwEnd(e) \/ SwWakeParent(e))

SwNext ==
  \/ \E e \in SwMade : SwRun(e) \/ SwUnresolved(e) \/ SwCrash(e)
  \/ \E e \in SwMade : SwGrowsLate(e) \/ SwRecheck(e) \/ SwCancelOne(e) \/ SwCancelTree(e)

\* Workers run what they have started and take jobs, the reconciler keeps
\* looking, a child that never ends grows older than its timeout, and a
\* cancellation that was started is finished.
SwFairness ==
  \A e \in SwIds : /\ WF_swVars(e \in SwMade /\ SwRun(e))
                   /\ WF_swVars(e \in SwMade /\ SwGrowsLate(e))
                   /\ WF_swVars(e \in SwMade /\ SwRecheck(e))
                   /\ WF_swVars(SwCancelTree(e))

SwSpec == SwInit /\ [][SwNext]_swVars /\ SwFairness

-----------------------------------------------------------------------------
(* An execute_workflow step has one child at work at a time: a new attempt *)
(* starts only after the previous child has ended or was cancelled, also   *)
(* when the parent's run is repeated after a crash.                        *)
SwOneLiveChild == \A e \in SwMade : Cardinality({c \in SwChildren(e) : sw[c].status \in SwActive}) <= 1

(* The children of a step never outnumber the attempts of its policy,      *)
(* whatever crashes, lost wake-ups and repeated runs come in between.      *)
SwAttemptsBounded == \A e \in SwMade : Cardinality(SwChildren(e)) <= SwTries(e)

(* No workflow runs inside itself, at any depth: along the chain of         *)
(* callers of an execution no workflow appears twice.                      *)
SwNoRecursion == \A e \in SwMade : \A f, g \in SwAncestry(e) : sw[f].flow = sw[g].flow => f = g

(* An execution completes only with a child that completed: a timeout or   *)
(* a cancellation below never looks like a result.                         *)
SwResultFromChild ==
  \A e \in SwMade : sw[e].status = "COMPLETED" /\ SwTarget(e) # "leaf"
                      => sw[SwLatest(e)].status = "COMPLETED"

(* An ended execution never runs again.                                    *)
SwEndedStays ==
  \A e \in SwMade : sw[e].status \in SwEnded => sw'[e].status = sw[e].status

SwAllEnded == \A e \in SwMade : sw[e].status \in SwEnded

(* The safety of a tree of sub-workflows: a step never has two children    *)
(* alive, attempts, depth and ancestry stay within their limits, and a     *)
(* result is that of the child of the step.                                *)
SwInv == SwTypeOK /\ SwOneLiveChild /\ SwAttemptsBounded /\ SwNoRecursion /\ SwResultFromChild
=============================================================================
