----------------------------- MODULE GraphRunner -----------------------------
(***************************************************************************)
(* One execution of a graph workflow: the worker's walk over the graph,    *)
(* with for_each loops, try_catch regions, branches, waits and retries,    *)
(* the step rows it leaves in the database, a crash and a second runner    *)
(* that resumes from those rows, cancellation, and the API's retry from    *)
(* failure, which starts another execution of the same version.            *)
(*                                                                         *)
(* A step row is named <<path, key>>. The path of a row of the main graph  *)
(* is empty; a loop appends <<loop, iteration>>, a try_catch appends       *)
(* <<try, region>>. The lease that keeps two runners apart is the subject  *)
(* of ExecutionEngine: here there is one runner at a time.                 *)
(***************************************************************************)
EXTENDS WorkflowGraph, Integers, Sequences, TLC

CONSTANTS
  RunGraphs,       \* the graphs of the versions that may be executed
  RunMaxAttempts,  \* retryPolicy.maxAttempts of every step
  RunMaxFaults     \* how often a runner is killed or the execution replayed

VARIABLES
  graph,     \* the version's definition
  exec,      \* Execution.status
  rows,      \* StepExecution rows, by <<path, key>>
  gen,       \* 0 for the first execution, n for the n-th retry
  source,    \* the rows of the execution that this one retries
  reuse,     \* ExecutionStepReuse: the rows of source that are not run again
  from,      \* replayFromExecutionPath and replayFromStepKey
  stack,     \* the runner's nested calls, innermost first
  rpcAt,     \* where the runner is
  failure,   \* the step failure that is being thrown, <<gen, row>>
  crashes

graphVars == <<graph, exec, rows, gen, source, reuse, from, stack, rpcAt,
               failure, crashes>>
dbOnly == <<graph, gen, source, reuse, from, crashes>>

RunActive == {"QUEUED", "RUNNING", "RETRYING"}
RunDone == {"COMPLETED", "SKIPPED"}
NoRow == <<<<>>, NoKey>>
NoFailure == <<-1, NoRow>>

NoControl == [cur |-> NoKey]
NewLoop == [cur |-> NoKey, idx |-> 0, ok |-> 0, bad |-> 0, skip |-> 0]
NewTry ==
  [cur |-> NoKey, phase |-> "body", primary |-> NoFailure,
   original |-> NoFailure, handled |-> FALSE,
   result |-> [r \in Regions |-> "not_run"]]

(* StepExecution as ensure creates it. control is the loop or try state in *)
(* inputJson, chosen the branch in outputJson, effect the effectStatus.    *)
NewRow ==
  [status |-> "PENDING", attempts |-> 0, chosen |-> NoKey, effect |-> "none",
   due |-> TRUE, handled |-> FALSE, control |-> NoControl,
   created |-> Cardinality(DOMAIN rows)]

RowOf(id) == IF id \in DOMAIN rows THEN rows[id] ELSE NewRow
WithRow(id, r) == (id :> r) @@ rows

(* A frame is one activation of runGraph, ForEachExecutionService.execute  *)
(* or TryCatchExecutionService.execute. key is the control step and base   *)
(* the path of its row, path the path of the rows it makes.                *)
RootFrame ==
  [kind |-> "root", key |-> NoKey, base |-> <<>>, path |-> <<>>,
   next |-> graph.entry, last |-> "COMPLETED", st |-> NoControl,
   primary |-> NoFailure]

Top == Head(stack)
Here == <<Top.path, Top.next>>
OwnRow(f) == <<f.base, f.key>>
TypeAt(k) == graph.type[k]
Replace(f) == stack' = <<f>> \o Tail(stack)

InRegion(f) == f.kind = "try" /\ f.st.phase \in Regions
Exit(f) ==
  CASE f.kind = "loop" -> Target(graph, f.key, "for_each_done")
    [] InRegion(f) -> TryExit(graph, f.key, f.st.phase)
    [] OTHER -> NoKey
RegionOf(f) ==
  CASE f.kind = "loop" -> LoopBody(graph, f.key)
    [] InRegion(f) -> TryRegion(graph, f.key, f.st.phase)
    [] OTHER -> Keys(graph)

(* checkpoint: the frame's state is written to its control step's row.     *)
Saved(f, rws) ==
  IF f.kind = "root" THEN rws ELSE [rws EXCEPT ![OwnRow(f)].control = f.st]

(* Go on to step k; a loop and a try_catch record it as currentStepKey.    *)
Goto(f, k, rws) ==
  LET g == [f EXCEPT !.next = k, !.st.cur = IF k = Exit(f) THEN NoKey ELSE k]
  IN  /\ Replace(g) /\ rows' = Saved(g, rws) /\ rpcAt' = "visit"

RunnerInit ==
  /\ graph \in RunGraphs
  /\ exec = "QUEUED" /\ rows = <<>> /\ gen = 0 /\ source = <<>>
  /\ reuse = {} /\ from = NoRow /\ stack = <<>> /\ rpcAt = "idle"
  /\ failure = NoFailure /\ crashes = 0
-----------------------------------------------------------------------------
(***************************************************************************)
(* runGraph: the main walk.                                                *)
(***************************************************************************)
StartRun ==
  /\ rpcAt = "idle" /\ exec \in RunActive
  /\ exec' = "RUNNING" /\ stack' = <<RootFrame>> /\ rpcAt' = "visit"
  /\ UNCHANGED <<rows, failure, dbOnly>>

StopCancelled ==
  /\ rpcAt = "visit" /\ Top.kind = "root" /\ exec = "CANCELLED"
  /\ stack' = <<>> /\ rpcAt' = "idle"
  /\ UNCHANGED <<exec, rows, failure, dbOnly>>

(* The runner is about to look at the step Top.next.                       *)
Visiting ==
  /\ rpcAt = "visit"
  /\ Top.kind = "root" => exec # "CANCELLED"
  /\ Top.kind = "try" => Top.st.phase \in Regions
  /\ Top.next # Exit(Top)

(* "Body escaped to", "references missing step": the runner throws where   *)
(* the walk is outside of what the graph allows. NeverEscapes says that it *)
(* is never there, so the throw is not a step of the model.                *)
Astray == Visiting /\ Top.next \notin RegionOf(Top)

VisitingStep == Visiting /\ Top.next \in RegionOf(Top)

(* A row that the retried execution completed stands for the step. The     *)
(* main walk ends with the last step, a region at its exit.                *)
AfterReuse(k, r) ==
  LET sel == CASE TypeAt(k) = "for_each" -> Target(graph, k, "for_each_done")
               [] TypeAt(k) = "try_catch" -> Target(graph, k, "try_done")
               [] OTHER -> SelectedNext(graph, k, r.chosen)
  IN  IF sel = NoKey THEN Exit(Top) ELSE sel

ReuseStep ==
  /\ VisitingStep /\ Here \in reuse
  /\ LET next == AfterReuse(Top.next, source[Here])
         f == [Top EXCEPT !.last = source[Here].status]
     IN  IF next # NoKey THEN Goto(f, next, rows)
         ELSE rpcAt' = "finish" /\ UNCHANGED <<rows, stack>>
  /\ UNCHANGED <<exec, failure, dbOnly>>

Fresh == VisitingStep /\ Here \notin reuse
PlainStep == Fresh /\ TypeAt(Top.next) \notin {"for_each", "try_catch"}

(* hydrateRecoveryControl of the runner and hydrateControl of the two       *)
(* services: the state of a control step that a replay meets for the first *)
(* time is copied from the replayed execution, then set back to the step   *)
(* that failed. Each service sets back what may be nested in it.           *)
Mentions(k) == \E i \in 1..Len(from[1]) : from[1][i][1] = k
TagOf(k) == from[1][CHOOSE i \in 1..Len(from[1]) : from[1][i][1] = k][2]
FailedIteration(st) ==
  LET loops == {i \in 1..Len(from[1]) : TypeAt(from[1][i][1]) = "for_each"}
  IN  IF loops = {} THEN st.idx ELSE from[1][CHOOSE i \in loops : TRUE][2]

HydratedLoop(k, st) ==
  IF Top.kind = "try" \/ Mentions(k)
  THEN [st EXCEPT !.idx = FailedIteration(st), !.cur = from[2]] ELSE st

HydratedTry(k, st) ==
  IF ~Mentions(k) THEN st
  ELSE [st EXCEPT
         !.phase = TagOf(k), !.cur = from[2],
         !.primary =
            CASE TagOf(k) = "catch" /\ st.original # NoFailure -> st.original
              [] /\ TagOf(k) = "finally" /\ Top.kind = "root"
                 /\ st.result["body"] = "succeeded" -> NoFailure
              [] OTHER -> st.primary]

SavedControl(id) ==
  IF RowOf(id).control # NoControl THEN RowOf(id).control
  ELSE IF RowOf(id).status = "SKIPPED" \/ id \notin DOMAIN source THEN NoControl
  ELSE IF source[id].control = NoControl THEN NoControl
  ELSE IF TypeAt(id[2]) = "for_each" THEN HydratedLoop(id[2], source[id].control)
  ELSE HydratedTry(id[2], source[id].control)

(* A control step whose row is COMPLETED is passed over; for any other row *)
(* its service is called, and starts or resumes from the saved state.      *)
DoneKind(k) == IF TypeAt(k) = "for_each" THEN "for_each_done" ELSE "try_done"

PassControl ==
  /\ Fresh /\ TypeAt(Top.next) \in {"for_each", "try_catch"}
  /\ RowOf(Here).status = "COMPLETED"
  /\ Replace([Top EXCEPT !.next = Target(graph, Top.next, DoneKind(Top.next))])
  /\ UNCHANGED <<exec, rows, rpcAt, failure, dbOnly>>

LoopFrame(id, st) ==
  [kind |-> "loop", key |-> id[2], base |-> id[1],
   path |-> Append(id[1], <<id[2], st.idx>>),
   next |-> IF st.cur = NoKey THEN Target(graph, id[2], "for_each_body") ELSE st.cur,
   last |-> "COMPLETED", st |-> st, primary |-> NoFailure]

TryFrame(id, st) ==
  [kind |-> "try", key |-> id[2], base |-> id[1],
   path |-> Append(id[1], <<id[2], st.phase>>),
   next |-> IF st.cur = NoKey /\ st.phase \in Regions
            THEN TryEntry(graph, id[2], st.phase) ELSE st.cur,
   last |-> "COMPLETED", st |-> st,
   primary |-> IF st.phase = "catch" /\ st.original # NoFailure
               THEN st.original ELSE st.primary]

(* start resolves the source of a loop once and keeps the items; a source  *)
(* that is no array, or too long, fails the loop.                          *)
EnterLoop ==
  /\ Fresh /\ TypeAt(Top.next) = "for_each" /\ RowOf(Here).status # "COMPLETED"
  /\ LET saved == SavedControl(Here)
         st == IF saved = NoControl THEN NewLoop ELSE saved
     IN  \/ /\ rows' = WithRow(Here, [RowOf(Here) EXCEPT
                 !.control = st,
                 !.status = IF saved = NoControl THEN "RUNNING" ELSE @,
                 !.attempts = IF saved = NoControl THEN 1 ELSE @])
            /\ stack' = <<LoopFrame(Here, st)>> \o stack
            /\ rpcAt' = IF st.idx < graph.items THEN "visit" ELSE "loopEnd"
            /\ UNCHANGED failure
         \/ /\ saved = NoControl /\ graph.badSource
            /\ rows' = WithRow(Here, [RowOf(Here) EXCEPT !.status = "FAILED"])
            /\ rpcAt' = "raise" /\ failure' = <<gen, Here>>
            /\ UNCHANGED stack
  /\ UNCHANGED <<exec, dbOnly>>

EnterTry ==
  /\ Fresh /\ TypeAt(Top.next) = "try_catch" /\ RowOf(Here).status # "COMPLETED"
  /\ LET saved == SavedControl(Here)
         st == IF saved = NoControl THEN NewTry ELSE saved
     IN  /\ rows' = WithRow(Here, [RowOf(Here) EXCEPT
              !.control = st,
              !.status = IF saved = NoControl THEN "RUNNING" ELSE @,
              !.attempts = IF saved = NoControl THEN 1 ELSE @])
         /\ stack' = <<TryFrame(Here, st)>> \o stack
  /\ UNCHANGED <<exec, rpcAt, failure, dbOnly>>
-----------------------------------------------------------------------------
(***************************************************************************)
(* An ordinary step: StepExecutor.execute, skip and completeWait.          *)
(***************************************************************************)
Exhausted(r) == r.status = "FAILED" /\ r.attempts >= RunMaxAttempts
IntentionalWait(r) == r.status = "RETRYING" /\ r.effect = "delay"

(* The retry or wait time of the step has not come. A step that waits for  *)
(* an approval has no such time: it is begun again and asks again.         *)
NotDue(r) == r.status = "RETRYING" /\ r.effect # "approval" /\ ~r.due

VisitNotDue ==
  /\ PlainStep /\ NotDue(RowOf(Here))
  /\ rpcAt' = "wait"
  /\ UNCHANGED <<exec, rows, stack, failure, dbOnly>>

CompleteWait ==
  /\ PlainStep /\ IntentionalWait(RowOf(Here)) /\ RowOf(Here).due
  /\ rows' = [rows EXCEPT ![Here].status = "COMPLETED", ![Here].effect = "none"]
  /\ UNCHANGED <<exec, stack, rpcAt, failure, dbOnly>>

VisitExhausted ==
  /\ PlainStep /\ Exhausted(RowOf(Here))
  /\ rpcAt' = "throw" /\ failure' = <<gen, Here>>
  /\ UNCHANGED <<exec, rows, stack, dbOnly>>

StepBeginAnew ==  \* a variant: a completed step is begun again
  /\ PlainStep /\ RowOf(Here).status \in {"PENDING", "COMPLETED"}
  /\ rows' = WithRow(Here, [RowOf(Here) EXCEPT !.status = "RUNNING", !.attempts = @ + 1])
  /\ rpcAt' = "running"
  /\ UNCHANGED <<exec, stack, failure, dbOnly>>

StepBeginUncounted ==  \* a variant: the attempt is not counted
  /\ PlainStep /\ RowOf(Here).status \notin RunDone \cup {"FAILED"} /\ ~NotDue(RowOf(Here))
  /\ rows' = WithRow(Here, [RowOf(Here) EXCEPT !.status = "RUNNING"])
  /\ rpcAt' = "running"
  /\ UNCHANGED <<exec, stack, failure, dbOnly>>

StepBegin ==
  /\ PlainStep
  /\ LET r == RowOf(Here)
     IN  /\ r.status \notin RunDone /\ ~Exhausted(r) /\ ~IntentionalWait(r)
         /\ ~NotDue(r)
         /\ rows' = WithRow(Here, [r EXCEPT
              !.status = "RUNNING",
              !.attempts = IF r.effect = "approval" THEN @ ELSE @ + 1])
  /\ rpcAt' = "running"
  /\ UNCHANGED <<exec, stack, failure, dbOnly>>

(* The branch that a control step's output may name.                       *)
Choices(k) ==
  CASE TypeAt(k) \in BranchTypes -> {e.to : e \in {c \in graph.config : c.from = k}}
    [] TypeAt(k) = "approval" -> {e.to : e \in Outgoing(graph, k)}
    [] OTHER -> {NoKey}

(* due: the retry time has passed, the approval has been decided.          *)
Decided(r) == r.effect = "approval" /\ r.due

StepCompletes ==
  /\ rpcAt = "running"
  /\ TypeAt(Top.next) = "approval" => Decided(rows[Here]) \/ rows[Here].attempts > 1
  /\ \E c \in Choices(Top.next) :
       rows' = [rows EXCEPT ![Here].status = "COMPLETED", ![Here].chosen = c,
                            ![Here].effect = "none"]
  /\ rpcAt' = "skip"
  /\ UNCHANGED <<exec, stack, failure, dbOnly>>

(* delay, wait_until and approval steps wait; the runner lets go.          *)
StepWaits ==
  /\ rpcAt = "running" /\ TypeAt(Top.next) \in {"delay", "approval"}
  /\ ~Decided(rows[Here])
  /\ rows' = [rows EXCEPT ![Here].status = "RETRYING", ![Here].due = FALSE,
                          ![Here].effect = TypeAt(Top.next)]
  /\ rpcAt' = "wait"
  /\ UNCHANGED <<exec, stack, failure, dbOnly>>

(* A retryable error with attempts left is retried; every other error      *)
(* fails the step, whatever its attempts.                                  *)
StepFails ==
  /\ rpcAt = "running" /\ TypeAt(Top.next) = "task"
  /\ \/ /\ rows[Here].attempts < RunMaxAttempts
        /\ rows' = [rows EXCEPT ![Here].status = "RETRYING", ![Here].due = FALSE]
        /\ rpcAt' = "wait" /\ UNCHANGED failure
     \/ /\ rows' = [rows EXCEPT ![Here].status = "FAILED"]
        /\ rpcAt' = "throw" /\ failure' = <<gen, Here>>
  /\ UNCHANGED <<exec, stack, dbOnly>>

(* skipUnselectedBranches of the runner, skipUnselected of the loop.       *)
Unselected ==
  LET k == Top.next
      keys == BranchSkipKeys(graph, k, rows[Here].chosen)
      todo == {s \in keys : RowOf(<<Top.path, s>>).status \notin RunDone}
  IN  CASE Top.kind = "root" /\ TypeAt(k) \in ControlTypes -> todo
        [] /\ Top.kind = "loop" /\ TypeAt(k) \in BranchTypes
           /\ rows[Here].chosen # Exit(Top) -> todo \cap RegionOf(Top)
        [] OTHER -> {}

SkipUnselected ==
  /\ rpcAt = "skip"
  /\ LET new == {<<Top.path, s>> : s \in Unselected}
     IN  rows' = [id \in new |-> [RowOf(id) EXCEPT !.status = "SKIPPED"]] @@ rows
  /\ rpcAt' = "visit"
  /\ UNCHANGED <<exec, stack, failure, dbOnly>>

(* A step that is done: on to the next. The main walk ends at a terminal   *)
(* step or at return_workflow_output, a region at its exit.                *)
StepDone ==
  /\ PlainStep /\ RowOf(Here).status \in RunDone
  /\ LET sel == SelectedNext(graph, Top.next, rows[Here].chosen)
         f == [Top EXCEPT !.last = rows[Here].status]
     IN  \/ /\ sel # NoKey /\ Goto(f, sel, rows)
         \/ /\ sel = NoKey /\ Top.kind = "try" /\ Goto(f, Exit(f), rows)
         \/ /\ sel = NoKey /\ Top.kind = "root" /\ IsTerminal(graph, Top.next)
            /\ rpcAt' = "finish" /\ UNCHANGED <<rows, stack>>
  /\ UNCHANGED <<exec, failure, dbOnly>>

(* "cannot resolve next step after": no edge leaves a step that is done.   *)
DeadEnd ==
  /\ PlainStep /\ RowOf(Here).status \in RunDone
  /\ SelectedNext(graph, Top.next, rows[Here].chosen) = NoKey
  /\ Top.kind = "loop" \/ (Top.kind = "root" /\ ~IsTerminal(graph, Top.next))
-----------------------------------------------------------------------------
(***************************************************************************)
(* ForEachExecutionService: the end of an iteration and of the loop.       *)
(***************************************************************************)
(* The caller takes over at k when the call returns. Only a loop that      *)
(* called a try_catch writes a checkpoint then.                            *)
Return(k, rws) ==
  LET caller == stack[2]
      f == [caller EXCEPT !.next = k, !.st.cur =
              IF caller.kind = "try" THEN @ ELSE IF k = Exit(caller) THEN NoKey ELSE k]
  IN  /\ stack' = <<f>> \o Tail(Tail(stack)) /\ rpcAt' = "visit"
      /\ rows' = IF f.kind = "loop" THEN Saved(f, rws) ELSE rws

AfterIterationAllOk(f) ==  \* a variant: a failed iteration counts as succeeded, too
  [f.st EXCEPT !.idx = @ + 1, !.cur = NoKey, !.ok = @ + 1]

AfterIteration(f) ==
  [f.st EXCEPT !.idx = @ + 1, !.cur = NoKey,
               !.ok = IF f.last = "COMPLETED" THEN @ + 1 ELSE @,
               !.skip = IF f.last = "SKIPPED" THEN @ + 1 ELSE @]

EndIteration ==
  /\ rpcAt = "visit" /\ Top.kind = "loop" /\ Top.next = Exit(Top)
  /\ LET f == LoopFrame(OwnRow(Top), AfterIteration(Top))
     IN  /\ Replace(f) /\ rows' = Saved(f, rows)
         /\ rpcAt' = IF f.st.idx < graph.items THEN "visit" ELSE "loopEnd"
  /\ UNCHANGED <<exec, failure, dbOnly>>

EndLoop ==
  /\ rpcAt = "loopEnd"
  /\ Return(Exit(Top), [rows EXCEPT ![OwnRow(Top)].status = "COMPLETED"])
  /\ UNCHANGED <<exec, failure, dbOnly>>

(* handleIterationFailure: with continueOnError a failed step of the body  *)
(* ends its iteration, without it the loop.                                *)
LoopStepFails ==
  /\ rpcAt = "throw" /\ Top.kind = "loop"
  /\ IF graph.continueOnError
     THEN /\ Replace([Top EXCEPT !.next = Exit(Top), !.last = "FAILED", !.st.bad = @ + 1])
          /\ rows' = [rows EXCEPT ![failure[2]].handled = TRUE]
          /\ rpcAt' = "visit" /\ UNCHANGED failure
     ELSE /\ rows' = [rows EXCEPT ![OwnRow(Top)].status = "FAILED"]
          /\ failure' = <<gen, OwnRow(Top)>>
          /\ stack' = Tail(stack) /\ rpcAt' = "raise"
  /\ UNCHANGED <<exec, dbOnly>>

(* An error that a nested try_catch lets out ends the loop in any case.    *)
LoopRaises ==
  /\ rpcAt = "raise" /\ Top.kind = "loop"
  /\ rows' = [rows EXCEPT ![OwnRow(Top)].status = "FAILED"]
  /\ stack' = Tail(stack)
  /\ UNCHANGED <<exec, rpcAt, failure, dbOnly>>
-----------------------------------------------------------------------------
(***************************************************************************)
(* TryCatchExecutionService: the end of a region, and of the whole.        *)
(***************************************************************************)
(* On to the next phase, with the checkpoint that records it.              *)
NextPhase(st, primary, rws) ==
  LET f == [TryFrame(OwnRow(Top), [st EXCEPT !.cur = NoKey]) EXCEPT !.primary = primary]
  IN  Replace(f) /\ rows' = Saved(f, rws) /\ rpcAt' = "visit"

FinallyOr(phase) == IF Connected(graph, Top.key, "try_finally") THEN "finally" ELSE phase

MarkHandled(ref) ==
  IF ref[1] = gen THEN [rows EXCEPT ![ref[2]].handled = TRUE] ELSE rows

EndRegion ==
  /\ rpcAt = "visit" /\ InRegion(Top) /\ Top.next = Exit(Top)
  /\ LET region == Top.st.phase
         st == [Top.st EXCEPT !.result[region] = "succeeded"]
     IN  \/ /\ region = "body"
            /\ NextPhase([st EXCEPT !.phase = FinallyOr("complete")], Top.primary, rows)
         \/ /\ region = "catch"
            /\ NextPhase([st EXCEPT !.phase = FinallyOr("complete"), !.handled = TRUE],
                         Top.primary, MarkHandled(Top.primary))
         \/ /\ region = "finally"
            /\ NextPhase([st EXCEPT !.phase =
                            IF Top.primary # NoFailure /\ ~st.handled
                            THEN "failed" ELSE "complete"], Top.primary, rows)
  /\ UNCHANGED <<exec, failure, dbOnly>>

OrElse(a, b) == IF a = NoFailure THEN b ELSE a

RegionFails ==
  /\ rpcAt \in {"throw", "raise"} /\ InRegion(Top)
  /\ LET region == Top.st.phase
         st == [Top.st EXCEPT !.result[region] = "failed"]
     IN  \/ /\ region = "body"
            /\ NextPhase([st EXCEPT !.phase = "catch", !.primary = failure,
                                    !.original = OrElse(@, failure)], failure, rows)
         \/ /\ region = "catch"
            /\ NextPhase([st EXCEPT !.phase = FinallyOr("failed"), !.primary = failure,
                                    !.original = OrElse(@, st.primary)], failure, rows)
         \/ /\ region = "finally"
            /\ NextPhase([st EXCEPT !.phase = "failed", !.primary = OrElse(@, failure)],
                         OrElse(Top.primary, failure), rows)
  /\ UNCHANGED <<exec, failure, dbOnly>>

EndTry ==
  /\ rpcAt = "visit" /\ Top.kind = "try" /\ Top.st.phase \notin Regions
  /\ \/ /\ Top.st.phase = "complete"
        /\ Return(Target(graph, Top.key, "try_done"),
                  [rows EXCEPT ![OwnRow(Top)].status = "COMPLETED"])
        /\ UNCHANGED failure
     \/ /\ Top.st.phase = "failed"
        /\ rows' = [rows EXCEPT ![OwnRow(Top)].status = "FAILED"]
        /\ failure' = Top.primary /\ stack' = Tail(stack) /\ rpcAt' = "raise"
  /\ UNCHANGED <<exec, dbOnly>>
-----------------------------------------------------------------------------
(***************************************************************************)
(* The end of a run.                                                       *)
(***************************************************************************)
(* A wait returns through the nested calls, each leaving a checkpoint.     *)
Wait ==
  /\ rpcAt = "wait"
  /\ \/ /\ Top.kind # "root"
        /\ rows' = Saved([Top EXCEPT !.st.cur = Top.next], rows)
        /\ stack' = Tail(stack) /\ UNCHANGED <<exec, rpcAt>>
     \/ /\ Top.kind = "root"
        /\ exec' = IF exec \in RunActive THEN "RETRYING" ELSE exec
        /\ stack' = <<>> /\ rpcAt' = "idle" /\ UNCHANGED rows
  /\ UNCHANGED <<failure, dbOnly>>

EndRun(status) ==
  /\ exec' = IF exec \in RunActive THEN status ELSE exec
  /\ stack' = <<>> /\ rpcAt' = "idle" /\ failure' = NoFailure
  /\ UNCHANGED <<rows, dbOnly>>

Unhandled == {id \in DOMAIN rows : rows[id].status = "FAILED" /\ ~rows[id].handled}

FinishRun ==
  /\ rpcAt = "finish"
  /\ EndRun(IF Unhandled = {} THEN "COMPLETED" ELSE "FAILED")  \* assertNoFailedSteps

FailRun ==
  /\ rpcAt \in {"throw", "raise"} /\ Top.kind = "root"
  /\ EndRun("FAILED")

Crash ==
  /\ rpcAt # "idle" /\ crashes + gen < RunMaxFaults
  /\ crashes' = crashes + 1
  /\ stack' = <<>> /\ rpcAt' = "idle" /\ failure' = NoFailure
  /\ UNCHANGED <<graph, exec, rows, gen, source, reuse, from>>

(* ExecutionsService.cancel writes the execution and no step.              *)
CancelRun ==
  /\ exec \in RunActive /\ exec' = "CANCELLED"
  /\ UNCHANGED <<rows, stack, rpcAt, failure, dbOnly>>

(* A retry time passes, or somebody decides an approval.                   *)
StepFallsDue ==
  \E id \in DOMAIN rows :
    /\ ~rows[id].due /\ rows' = [rows EXCEPT ![id].due = TRUE]
    /\ UNCHANGED <<exec, stack, rpcAt, failure, dbOnly>>
-----------------------------------------------------------------------------
(***************************************************************************)
(* ExecutionsService.replayPreview and replay: another execution of the    *)
(* version, from the step that failed or in full.                          *)
(***************************************************************************)
PathDepth(path) ==
  1 + Len(path) + Cardinality({i \in 1..Len(path) : TypeAt(path[i][1]) = "try_catch"})
FailureRank(id) ==
  10 * PathDepth(id[1]) + IF TypeAt(id[2]) \in {"for_each", "try_catch"} THEN 0 ELSE 1

FailedStep ==
  CHOOSE id \in Unhandled : \A other \in Unhandled :
    \/ FailureRank(id) > FailureRank(other)
    \/ FailureRank(id) = FailureRank(other) /\ rows[id].created <= rows[other].created

Replay(reused, start) ==
  /\ rpcAt = "idle" /\ crashes + gen < RunMaxFaults
  /\ gen' = gen + 1 /\ exec' = "QUEUED" /\ rows' = <<>> /\ source' = rows
  /\ reuse' = reused /\ from' = start
  /\ UNCHANGED <<graph, stack, rpcAt, failure, crashes>>

RetryFromFailure ==
  /\ exec = "FAILED" /\ Unhandled # {}
  /\ Replay({id \in DOMAIN rows : /\ rows[id].status \in RunDone
                                  /\ rows[id].created < rows[FailedStep].created},
            FailedStep)

FullReplay ==
  exec \in {"COMPLETED", "FAILED", "CANCELLED"} /\ Replay({}, NoRow)
-----------------------------------------------------------------------------
RunnerStep ==
  \/ StartRun \/ StopCancelled \/ ReuseStep \/ PassControl
  \/ EnterLoop \/ EnterTry
  \/ VisitNotDue \/ CompleteWait \/ VisitExhausted \/ StepBegin
  \/ StepCompletes \/ StepWaits \/ StepFails \/ SkipUnselected \/ StepDone
  \/ EndIteration \/ EndLoop \/ LoopStepFails \/ LoopRaises
  \/ EndRegion \/ RegionFails \/ EndTry
  \/ Wait \/ FinishRun \/ FailRun

RunnerNext ==
  \/ RunnerStep \/ StepFallsDue \/ Crash \/ CancelRun
  \/ RetryFromFailure \/ FullReplay

(* A live worker goes on with its job, the reconciler starts the job of an *)
(* execution that nobody runs, and time passes: weak fairness, with the    *)
(* states in which the steps are enabled written out. Crashes,             *)
(* cancellations and replays need not happen.                              *)
RunnerBusy == rpcAt # "idle" \/ exec \in RunActive
Overdue == \E id \in DOMAIN rows : ~rows[id].due
RunnerFairness ==
  /\ []<>~RunnerBusy \/ []<><<RunnerStep>>_graphVars
  /\ []<>~Overdue \/ []<><<StepFallsDue>>_graphVars

RunnerSpec == RunnerInit /\ [][RunnerNext]_graphVars /\ RunnerFairness
-----------------------------------------------------------------------------
StepStatuses == {"PENDING", "RUNNING", "RETRYING", "COMPLETED", "FAILED", "SKIPPED"}

(* The execution and its rows have the values the schema allows; a runner   *)
(* is inside nested calls exactly while it works, at most three deep.      *)
RunnerTypeOK ==
  /\ exec \in RunActive \cup {"COMPLETED", "FAILED", "CANCELLED"}
  /\ \A id \in DOMAIN rows : /\ rows[id].status \in StepStatuses
                             /\ rows[id].attempts \in 0..RunMaxAttempts + crashes
  /\ crashes + gen \in 0..RunMaxFaults
  /\ (stack = <<>>) = (rpcAt = "idle") /\ Len(stack) <= 3

(* What the validator accepts, the walk can follow: in a valid graph the   *)
(* runner never meets a step it cannot go on from, nor one outside the     *)
(* loop body or the region it is in ("Workflow graph cannot resolve next   *)
(* step", "Body escaped to").                                              *)
NeverEscapes == ~Astray /\ ~DeadEnd

RowsUnder(id, tag) ==
  {r \in DOMAIN rows : /\ Len(r[1]) > Len(id[1])
                       /\ SubSeq(r[1], 1, Len(id[1]) + 1) = Append(id[1], <<id[2], tag>>)}
Loops == {id \in DOMAIN rows : TypeAt(id[2]) = "for_each" /\ rows[id].control # NoControl}
Tries == {id \in DOMAIN rows : TypeAt(id[2]) = "try_catch" /\ rows[id].control # NoControl}

(* The summary of a loop counts what happened: every iteration before the  *)
(* checkpoint is counted once, as failed exactly when a step of it failed, *)
(* whatever crashes came between a step and its checkpoint.                *)
LoopCountsMatchRows ==
  \A id \in Loops :
    LET st == rows[id].control
    IN  /\ st.ok + st.bad + st.skip = st.idx
        /\ gen = 0 => st.bad = Cardinality({i \in 0..st.idx - 1 :
                      \E r \in RowsUnder(id, i) :
                        Len(r[1]) = Len(id[1]) + 1 /\ rows[r].status = "FAILED"})

(* A loop runs its items one after the other: no step of an iteration      *)
(* exists before the iterations ahead of it are behind the checkpoint.     *)
IterationsInOrder ==
  \A id \in Loops : \A i \in 0..graph.items :
    RowsUnder(id, i) # {} => i <= rows[id].control.idx

(* No step of an iteration behind the checkpoint is ever run, retried or   *)
(* skipped again, after a crash neither.                                   *)
IterationIsFinal ==
  \A id \in Loops : \A i \in 0..rows[id].control.idx - 1 :
    \A r \in RowsUnder(id, i) : rows'[r] = rows[r]
CheckpointedIterationsAreFinal == gen' = gen => IterationIsFinal

(* A try_catch follows its outcome: the catch region has steps only when   *)
(* the body failed, finally only after the body has ended, and a completed *)
(* try_catch has run its body or its catch, and its finally, to the end.   *)
RegionsFollowOutcome ==
  gen = 0 => \A id \in Tries :
    LET result == rows[id].control.result
    IN  /\ RowsUnder(id, "catch") # {} => result["body"] = "failed"
        /\ RowsUnder(id, "finally") # {} => "succeeded" \in {result["body"], result["catch"]}
                                             \/ result["catch"] = "failed"
        /\ rows[id].status = "COMPLETED" =>
             /\ "succeeded" \in {result["body"], result["catch"]}
             /\ result["finally"] = "succeeded"

(* Finally runs whatever happens before it: a try_catch that has ended,    *)
(* completed or failed, has ended its finally region too.                  *)
FinallyAlwaysRuns ==
  \A id \in Tries :
    rows[id].status \in {"COMPLETED", "FAILED"} => rows[id].control.result["finally"] # "not_run"

(* The step that an at-least-once runner has completed or skipped is never *)
(* run again by the same execution.                                        *)
DoneStepsStay ==
  gen' = gen => \A id \in DOMAIN rows :
    rows[id].status \in RunDone => rows'[id].status = rows[id].status

(* A completed execution leaves nothing half done: every step is completed *)
(* or skipped, or failed with the failure handled.                         *)
CompletedLeavesNothingOpen ==
  exec = "COMPLETED" => \A id \in DOMAIN rows :
    rows[id].status \in RunDone \/ (rows[id].status = "FAILED" /\ rows[id].handled)

(* A retry from failure does not run a step it reuses, wherever in loops   *)
(* and regions the step is and however often the new runner is killed.     *)
ReusedNeverRuns == \A id \in reuse \cap DOMAIN rows : rows[id].attempts = 0

(* An execution ends: whatever waits, retries and crashes there are, a     *)
(* workflow that was started completes, fails or is cancelled.             *)
ExecutionEnds == exec \in RunActive ~> exec \notin RunActive

(* The safety of the walk: it stays within the regions that validation     *)
(* allows, counts, paths and outcomes agree with the rows, a finally path  *)
(* always runs, a completed execution has nothing open, and what a replay  *)
(* reuses does not run.                                                    *)
WalkInv ==
  /\ RunnerTypeOK /\ NeverEscapes /\ LoopCountsMatchRows /\ IterationsInOrder
  /\ RegionsFollowOutcome /\ FinallyAlwaysRuns /\ CompletedLeavesNothingOpen /\ ReusedNeverRuns

(* What was done stays done: the rows of done steps, and the iterations    *)
(* that a checkpoint has passed.                                           *)
WalkKeeps == [][DoneStepsStay /\ CheckpointedIterationsAreFinal]_graphVars
=============================================================================
