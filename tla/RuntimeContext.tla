--------------------------- MODULE RuntimeContext ---------------------------
(***************************************************************************)
(* What the expressions and the variable steps of a running workflow see:  *)
(* the runtime context that the worker rebuilds from the step rows, the    *)
(* frames it makes for the iterations of a for_each and for the regions of *)
(* a try_catch, the execution and workflow variables that live in its      *)
(* memory, and the checkpoint (Execution.contextJson.__runtime) from which *)
(* a later runner takes them. Kills, waits and a failed write of a result  *)
(* come at every point.                                                    *)
(*                                                                         *)
(* A plan is a sequence of nodes of the main graph; a try or loop node     *)
(* holds the steps of its regions. The control flow of graphs in general   *)
(* is the subject of GraphRunner: here a region is a straight line.        *)
(***************************************************************************)
EXTENDS Naturals, Sequences, FiniteSets

CONSTANTS
  RcPlans,     \* the workflows
  RcModes,     \* definition.expressionMode: "strict", "legacy"
  RcItems,     \* the regions of a loop node: one per item, in order
  RcMaxArray,  \* WORKFLOW_VARIABLE_LIMITS.maxArrayItems
  RcMaxKills,  \* how often a runner is killed
  RcMaxReruns  \* how often the write of a result fails after the handler ran

ASSUME RcAssumption ==
  /\ RcModes \subseteq {"strict", "legacy"}
  /\ RcItems \in Seq(STRING) /\ RcItems # <<>>
  /\ {RcMaxArray, RcMaxKills, RcMaxReruns} \subseteq Nat

VARIABLES
  rcPlan,    \* the version's steps
  rcMode,    \* its expressionMode
  rcRows,    \* StepExecution.status, by <<path, key>>
  rcCtl,     \* the checkpoint of the node that is being run: its region
  rcSteps,   \* the keys of runtimeContext.context.steps
  rcFrame,   \* the frame of an iteration or of a catch region
  rcVars,    \* the variables in the runner's memory
  rcSaved,   \* contextJson.__runtime
  rcTruth,   \* the variables that an undisturbed run would have by now
  rcAt,      \* the runner's position: node, region, step of the region
  rcRun,     \* "down", "up", "saving", "parking", "over"
  rcKills, rcReruns

rcVarsAll == <<rcPlan, rcMode, rcRows, rcCtl, rcSteps, rcFrame, rcVars,
               rcSaved, rcTruth, rcAt, rcRun, rcKills, rcReruns>>

RcNames == {"x", "n", "list", "item"}
RcScopes == {"execution", "workflow"}
RcReserved == {"item", "index", "steps", "variables", "workflow", "trigger"}
RcUndefined == <<"undefined">>
RcNoVariables ==
  [scope \in RcScopes |-> [name \in RcNames |-> RcUndefined]]
RcUnsaved == <<"unsaved">>
RcNoFrame == [on |-> FALSE, steps |-> {}, aliases |-> {}]

RcNode == rcPlan[rcAt.n]
RcPath(n, region) == IF region = "root" THEN <<>> ELSE <<rcPlan[n].key, region>>
RcLeaves(n, region) ==
  CASE region = "catch"   -> rcPlan[n].catch
    [] region = "finally" -> rcPlan[n].finally
    [] OTHER              -> rcPlan[n].body
RcLeaf == RcLeaves(rcAt.n, rcAt.region)[rcAt.j]
RcRow == <<RcPath(rcAt.n, rcAt.region), RcLeaf.key>>
RcStatus(row) == IF row \in DOMAIN rcRows THEN rcRows[row] ELSE "PENDING"
RcWritten(row, status) ==
  [r \in DOMAIN rcRows \cup {row} |-> IF r = row THEN status ELSE rcRows[r]]

\* ContextReconstructor.reconstruct and the frames: the completed and the
\* skipped steps of one path.
RcDone(rows, path) ==
  {row[2] : row \in {r \in DOMAIN rows : r[1] = path /\ rows[r] = "COMPLETED"}}

-----------------------------------------------------------------------------
(* Expressions and variables *)

RcSeen == IF rcFrame.on THEN rcFrame.steps ELSE rcSteps

\* ExpressionResolver.resolveTemplate on "{{steps.<ref>.output}}".
RcFound(leaf) == leaf.ref = "" \/ leaf.ref \in RcSeen \/ rcMode = "legacy"
RcValue(leaf) ==
  <<"string", IF leaf.ref = "" THEN "literal"
              ELSE IF leaf.ref \in RcSeen THEN leaf.ref ELSE "">>

\* assertVariableName.
RcNameAllowed(leaf) == leaf.name \notin RcReserved

\* getExecutionRuntimeContext's reserved(): the names of the iteration.
RcReadOnly(leaf) == leaf.scope = "execution" /\ leaf.name \in rcFrame.aliases

RcSetValue(vars, leaf, value) == [vars EXCEPT ![leaf.scope][leaf.name] = value]

RcIncrement(vars, leaf) ==
  LET current == vars[leaf.scope][leaf.name]
  IN  RcSetValue(vars, leaf,
        <<"number", (IF current = RcUndefined THEN 0 ELSE current[2]) + 1>>)
RcIncrementable(vars, leaf) ==
  vars[leaf.scope][leaf.name][1] \in {"undefined", "number"}

RcLength(value) == IF value = RcUndefined THEN 0 ELSE value[2]
RcAppend(vars, leaf) ==
  RcSetValue(vars, leaf,
             <<"array", RcLength(vars[leaf.scope][leaf.name]) + 1>>)
RcAppendable(vars, leaf) ==
  LET current == vars[leaf.scope][leaf.name]
  IN  current[1] \in {"undefined", "array"} /\ RcLength(current) < RcMaxArray

RcWriters == {"set", "delete", "increment", "append"}

\* Whether the handler of the step succeeds on the given variables.
RcAccepts(vars, leaf) ==
  /\ leaf.op # "fail"
  /\ leaf.op \in RcWriters \cup {"get"} => RcNameAllowed(leaf)
  /\ leaf.op \in RcWriters => ~RcReadOnly(leaf)
  /\ leaf.op = "increment" => RcIncrementable(vars, leaf)
  /\ leaf.op = "append" => RcAppendable(vars, leaf)

\* The variables after the handler.
RcApplied(vars, leaf) ==
  CASE leaf.op = "set"       -> RcSetValue(vars, leaf, RcValue(leaf))
    [] leaf.op = "delete"    -> RcSetValue(vars, leaf, RcUndefined)
    [] leaf.op = "increment" -> RcIncrement(vars, leaf)
    [] leaf.op = "append"    -> RcAppend(vars, leaf)
    [] OTHER                 -> vars

-----------------------------------------------------------------------------
(* The walk *)

RcFirstRegion(n) ==
  CASE rcPlan[n].kind = "try"  -> "body"
    [] rcPlan[n].kind = "loop" -> RcItems[1]
    [] OTHER                   -> "root"

\* createIterationFrame: item and index aside, an iteration sees its own
\* steps only, and its alias is read-only.
RcIterationFrame(n, region, rows) ==
  [on      |-> TRUE,
   steps   |-> RcDone(rows, RcPath(n, region)),
   aliases |-> {rcPlan[n].alias} \ {""}]

\* createErrorFrame, and runRegion's assignment to the frame's steps.
RcErrorFrame(n, rows) ==
  [on |-> TRUE, steps |-> RcDone(rows, RcPath(n, "catch")), aliases |-> {}]

\* runRegion assigns context.steps. For a body or a finally region the
\* context is the runtime context itself, whose steps are thereby replaced.
RcRegionSteps(steps, n, region, rows) ==
  IF region \in {"body", "finally"} THEN RcDone(rows, RcPath(n, region))
  ELSE steps

\* The runner comes to the given region of node n with the given steps.
RcEnter(n, region, j, steps, rows) ==
  /\ rcAt' = [n |-> n, region |-> region, j |-> j]
  /\ rcCtl' = [rcCtl EXCEPT !.n = n, !.region = region]
  /\ rcSteps' = RcRegionSteps(steps, n, region, rows)
  /\ rcFrame' = CASE region \in {"root", "body", "finally"} -> RcNoFrame
                  [] region = "catch" -> RcErrorFrame(n, rows)
                  [] OTHER -> RcIterationFrame(n, region, rows)

\* The next node, or the end of the workflow.
RcNextNode(n, steps, rows) ==
  IF n = Len(rcPlan)
  THEN /\ rcRun' = "over"
       /\ rcSteps' = steps
       /\ rcFrame' = RcNoFrame
       /\ UNCHANGED <<rcAt, rcCtl>>
  ELSE /\ rcRun' = "up"
       /\ RcEnter(n + 1, RcFirstRegion(n + 1), 1, steps, rows)

RcInit ==
  /\ rcPlan \in RcPlans
  /\ rcMode \in RcModes
  /\ rcRows = <<>>
  /\ rcCtl = [n |-> 1, region |-> RcFirstRegion(1), failed |-> FALSE]
  /\ rcSteps = {}
  /\ rcFrame = RcNoFrame
  /\ rcVars = RcNoVariables
  /\ rcSaved = RcUnsaved
  /\ rcTruth = RcNoVariables
  /\ rcAt = [n |-> 1, region |-> RcFirstRegion(1), j |-> 1]
  /\ rcRun = "down"
  /\ rcKills = 0
  /\ rcReruns = 0

\* The first step of a region that is not completed.
RcFirstOpen(n, region, rows) ==
  LET leaves == RcLeaves(n, region)
      done == RcDone(rows, RcPath(n, region))
      open == {j \in 1..Len(leaves) : leaves[j].key \notin done}
  IN  IF open = {} THEN Len(leaves) + 1
      ELSE CHOOSE j \in open : \A k \in open : j <= k

\* ExecutionRuntimeContext's constructor: the checkpoint, or the variables of
\* the version.
RcRestored == IF rcSaved = RcUnsaved THEN RcNoVariables ELSE rcSaved

\* A job is taken: createRuntimeContext, and the walk over the steps of the
\* main graph that are completed.
RcStart ==
  /\ rcRun = "down"
  /\ LET done == RcDone(rcRows, <<>>)
         open == {n \in 1..Len(rcPlan) : rcPlan[n].key \notin done}
     IN  /\ rcVars' = RcRestored
         /\ IF open = {}
            THEN /\ rcRun' = "over"
                 /\ rcSteps' = done
                 /\ rcFrame' = RcNoFrame
                 /\ UNCHANGED <<rcAt, rcCtl>>
            ELSE LET n == CHOOSE m \in open : \A k \in open : m <= k
                     region == IF rcCtl.n = n THEN rcCtl.region
                               ELSE RcFirstRegion(n)
                 IN  /\ rcRun' = "up"
                     /\ RcEnter(n, region, RcFirstOpen(n, region, rcRows),
                                done, rcRows)
  /\ UNCHANGED <<rcPlan, rcMode, rcRows, rcSaved, rcTruth, rcKills, rcReruns>>

RcAtLeaf ==
  rcRun = "up" /\ rcAt.j <= Len(RcLeaves(rcAt.n, rcAt.region))

\* The row of the step is completed: its result goes to the steps of the
\* context at hand, and the runner goes on in the region, or checkpoints.
RcComplete(key) ==
  /\ rcRows' = RcWritten(RcRow, "COMPLETED")
  /\ IF rcAt.region = "root"
     THEN /\ rcRun' = "saving"
          /\ UNCHANGED rcAt
     ELSE /\ rcAt' = [rcAt EXCEPT !.j = @ + 1]
          /\ UNCHANGED rcRun
  /\ IF rcFrame.on
     THEN /\ rcFrame' = [rcFrame EXCEPT !.steps = @ \cup {key}]
          /\ UNCHANGED rcSteps
     ELSE /\ rcSteps' = rcSteps \cup {key}
          /\ UNCHANGED rcFrame
  /\ UNCHANGED <<rcPlan, rcMode, rcCtl, rcSaved, rcKills, rcReruns>>

RcUndisturbed == rcKills = 0 /\ rcReruns = 0

RcRuns ==
  /\ RcAtLeaf
  /\ RcStatus(RcRow) # "FAILED"
  /\ RcFound(RcLeaf)
  /\ RcAccepts(rcVars, RcLeaf)

\* StepExecutor.execute: the handler, and the row.
RcExecute ==
  /\ RcRuns
  /\ RcLeaf.op # "delay"
  /\ rcVars' = RcApplied(rcVars, RcLeaf)
  /\ rcTruth' = IF RcUndisturbed THEN RcApplied(rcTruth, RcLeaf) ELSE rcTruth
  /\ RcComplete(RcLeaf.key)

\* The handler ran, but the write of its result failed: the catch block makes
\* it a retry, and the runner checkpoints what the handler did to the
\* variables.
RcResultLost ==
  /\ rcReruns < RcMaxReruns
  /\ RcRuns
  /\ RcLeaf.op # "delay"
  /\ rcVars' = RcApplied(rcVars, RcLeaf)
  /\ rcRows' = RcWritten(RcRow, "RETRYING")
  /\ rcRun' = "parking"
  /\ rcReruns' = rcReruns + 1
  /\ UNCHANGED <<rcPlan, rcMode, rcCtl, rcSteps, rcFrame, rcSaved, rcTruth,
                 rcAt, rcKills>>

\* A delay: the row waits, and the runner leaves.
RcDelay ==
  /\ RcRuns
  /\ RcLeaf.op = "delay"
  /\ RcStatus(RcRow) = "PENDING"
  /\ rcRows' = RcWritten(RcRow, "RETRYING")
  /\ rcRun' = "parking"
  /\ UNCHANGED <<rcPlan, rcMode, rcCtl, rcSteps, rcFrame, rcVars, rcSaved,
                 rcTruth, rcAt, rcKills, rcReruns>>

\* completeWait, by the runner that finds the wait over.
RcCompleteWait ==
  /\ RcAtLeaf
  /\ RcLeaf.op = "delay"
  /\ RcStatus(RcRow) = "RETRYING"
  /\ RcComplete(RcLeaf.key)
  /\ UNCHANGED <<rcVars, rcTruth>>

\* snapshot with includeRuntime: the variables of both scopes.
RcSnapshot == rcVars

\* updateContextCache and markWaiting: the job ends.
RcPark ==
  /\ rcRun = "parking"
  /\ rcSaved' = RcSnapshot
  /\ rcRun' = "down"
  /\ UNCHANGED <<rcPlan, rcMode, rcRows, rcCtl, rcSteps, rcFrame, rcVars,
                 rcTruth, rcAt, rcKills, rcReruns>>

\* a variant: no setStepResult
RcSaveOnly ==
  /\ rcRun = "saving"
  /\ rcSaved' = RcSnapshot
  /\ RcNextNode(rcAt.n, rcSteps, rcRows)
  /\ UNCHANGED <<rcPlan, rcMode, rcRows, rcVars, rcTruth, rcKills, rcReruns>>

\* updateContextCache after a node of the main graph, and setStepResult.
RcSave ==
  /\ rcRun = "saving"
  /\ rcSaved' = RcSnapshot
  /\ RcNextNode(rcAt.n, rcSteps \cup {RcNode.key}, rcRows)
  /\ UNCHANGED <<rcPlan, rcMode, rcRows, rcVars, rcTruth, rcKills, rcReruns>>

\* A step fails, now or in an earlier run: a body goes on to its catch
\* region, a catch to its finally region, and anything else ends the run.
RcFail ==
  /\ RcAtLeaf
  /\ \/ RcStatus(RcRow) = "FAILED"
     \/ ~RcFound(RcLeaf)
     \/ ~RcAccepts(rcVars, RcLeaf)
  /\ rcRows' = RcWritten(RcRow, "FAILED")
  /\ \/ /\ rcAt.region = "body"
        /\ RcEnter(rcAt.n, "catch", 1, rcSteps, rcRows')
        /\ UNCHANGED rcRun
     \/ /\ rcAt.region = "catch" /\ RcNode.finally # <<>>
        /\ rcAt' = [rcAt EXCEPT !.region = "finally", !.j = 1]
        /\ rcCtl' = [rcCtl EXCEPT !.region = "finally", !.failed = TRUE]
        /\ rcSteps' = RcRegionSteps(rcSteps, rcAt.n, "finally", rcRows')
        /\ rcFrame' = RcNoFrame
        /\ UNCHANGED rcRun
     \/ /\ rcAt.region # "body"
        /\ rcAt.region = "catch" => RcNode.finally = <<>>
        /\ rcRun' = "over"
        /\ UNCHANGED <<rcAt, rcCtl, rcSteps, rcFrame>>
  /\ UNCHANGED <<rcPlan, rcMode, rcVars, rcSaved, rcTruth, rcKills, rcReruns>>

\* The region after one whose steps are all completed, or "" for the end of
\* the node.
RcRegionAfter(region) ==
  IF RcNode.kind = "loop"
  THEN LET i == CHOOSE k \in 1..Len(RcItems) : RcItems[k] = region
       IN  IF i = Len(RcItems) THEN "" ELSE RcItems[i + 1]
  ELSE IF region = "finally" \/ RcNode.finally = <<>> THEN "" ELSE "finally"

\* The end of a region: the next one, or the row of the try or loop itself.
RcRegionEnd ==
  /\ rcRun = "up"
  /\ rcAt.j > Len(RcLeaves(rcAt.n, rcAt.region))
  /\ LET next == RcRegionAfter(rcAt.region) IN
     \/ /\ next # ""
        /\ RcEnter(rcAt.n, next, 1, rcSteps, rcRows)
        /\ UNCHANGED <<rcRows, rcRun>>
     \/ /\ next = "" /\ ~rcCtl.failed
        /\ rcRows' = RcWritten(<<<<>>, RcNode.key>>, "COMPLETED")
        /\ rcRun' = "saving"
        /\ UNCHANGED <<rcAt, rcCtl, rcSteps, rcFrame>>
     \/ /\ next = "" /\ rcCtl.failed
        /\ rcRun' = "over"
        /\ UNCHANGED <<rcRows, rcAt, rcCtl, rcSteps, rcFrame>>
  /\ UNCHANGED <<rcPlan, rcMode, rcVars, rcSaved, rcTruth, rcKills, rcReruns>>

\* The worker dies; the job is delivered again.
RcKill ==
  /\ rcKills < RcMaxKills
  /\ rcRun \in {"up", "saving", "parking"}
  /\ rcRun' = "down"
  /\ rcKills' = rcKills + 1
  /\ UNCHANGED <<rcPlan, rcMode, rcRows, rcCtl, rcSteps, rcFrame, rcVars,
                 rcSaved, rcTruth, rcAt, rcReruns>>

RcNext ==
  \/ RcStart \/ RcExecute \/ RcResultLost \/ RcDelay \/ RcCompleteWait
  \/ RcPark \/ RcSave \/ RcFail \/ RcRegionEnd \/ RcKill

RcSpec == RcInit /\ [][RcNext]_rcVarsAll

-----------------------------------------------------------------------------
RcKeys ==
  UNION {{rcPlan[n].key} \cup {leaf.key : leaf \in
           {RcLeaves(n, r)[j] : r \in {"body"}, j \in 1..Len(rcPlan[n].body)}
           \cup {rcPlan[n].catch[j] : j \in 1..Len(rcPlan[n].catch)}
           \cup {rcPlan[n].finally[j] : j \in 1..Len(rcPlan[n].finally)}} :
         n \in 1..Len(rcPlan)}

\* The steps of the context, and of a frame, are completed steps of the
\* workflow; a runner is somewhere in the plan.
RcTypeOK ==
  /\ rcMode \in RcModes
  /\ rcRun \in {"down", "up", "saving", "parking", "over"}
  /\ \A row \in DOMAIN rcRows : row[2] \in RcKeys
  /\ rcSteps \cup rcFrame.steps \subseteq
       {row[2] : row \in {r \in DOMAIN rcRows : rcRows[r] = "COMPLETED"}}
  /\ rcAt.n \in 1..Len(rcPlan)
  /\ rcAt.j \in 1..(Len(RcLeaves(rcAt.n, rcAt.region)) + 1)
  /\ \A scope \in RcScopes, name \in RcNames :
        rcVars[scope][name][1] \in {"undefined", "string", "number", "array"}

\* A step of a loop's body or of a try region sees the completed steps of its
\* own iteration or region and no other: not those of an earlier iteration,
\* and the same ones after a kill as before it
\* (for-each-execution.service.ts:85-92, try-catch-execution.service.ts:116).
RcRegionSeesItself ==
  RcAtLeaf /\ rcAt.region # "root" =>
    RcSeen = RcDone(rcRows, RcPath(rcAt.n, rcAt.region))

\* A step of the main graph sees every earlier step of the main graph that
\* comes after the last try_catch, in the first run and after a resume alike
\* (workflow-runner.ts:568, 598).
RcRootSeesEarlier ==
  RcAtLeaf /\ rcAt.region = "root" =>
    \A m \in 1..(rcAt.n - 1) :
       (\A k \in m..(rcAt.n - 1) : rcPlan[k].kind # "try" \/ k = m) =>
          rcPlan[m].key \in RcSeen

\* Waits lose no variable: as long as no runner is killed and every result is
\* written, the variables in memory are those of an uninterrupted run, however
\* often the execution was parked, in a region or between two nodes
\* (execution-runtime-context.ts:143-159).
RcWaitsKeepVariables ==
  rcRun \in {"up", "saving", "parking"} /\ RcUndisturbed => rcVars = rcTruth

\* The number of completed rows of steps with the given operation on a name.
RcCompletedOps(op, scope, name) ==
  Cardinality({row \in DOMAIN rcRows :
    /\ rcRows[row] = "COMPLETED"
    /\ \E n \in 1..Len(rcPlan) :
         \E leaf \in {RcLeaves(n, "body")[j] : j \in 1..Len(rcPlan[n].body)}
                \cup {rcPlan[n].catch[j] : j \in 1..Len(rcPlan[n].catch)}
                \cup {rcPlan[n].finally[j] : j \in 1..Len(rcPlan[n].finally)} :
           /\ leaf.key = row[2]
           /\ leaf.op = op /\ leaf.scope = scope /\ leaf.name = name})

\* A kill may lose increments and appends (the rows are completed before the
\* variables are saved), but it never applies one twice: a counter is at most
\* the number of its completed steps, unless the write of a result failed
\* (workflow-runner.ts:434-436, 620).
RcNeverTwice ==
  rcReruns = 0 =>
    \A scope \in RcScopes :
       /\ rcVars[scope]["n"][1] = "number" =>
            rcVars[scope]["n"][2] <= RcCompletedOps("increment", scope, "n")
       /\ rcVars[scope]["list"][1] = "array" =>
            rcVars[scope]["list"][2] <= RcCompletedOps("append", scope, "list")

\* What a loop calls its item cannot be written by its body: the execution
\* variable of the same name is the one it was before the loop
\* (execution-runtime-context.ts:177-179).
RcAliasUntouched ==
  \A name \in RcNames :
    rcRun = "up" /\ rcRun' = "up" /\ name \in rcFrame.aliases =>
      rcVars'["execution"][name] = rcVars["execution"][name]

=============================================================================
