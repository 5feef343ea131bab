----------------------------- MODULE Retention -----------------------------
(***************************************************************************)
(* The operator's cleanup of run history (apps/api/src/retention): one     *)
(* call of RetentionService.run selects expired root executions and        *)
(* expired payloads with two queries, replaces the payloads with two       *)
(* statements and deletes each selected root, with what belongs to it, in  *)
(* a transaction of its own.  Executions start, call sub-workflows, are    *)
(* replayed and end while it works, and its process may die at any point.  *)
(*                                                                         *)
(* Time is cut into slots.  A cutoff c stands for the moment slot c        *)
(* begins, so that it is in the past when c is not after the current slot. *)
(***************************************************************************)
EXTENDS Naturals, Sequences, FiniteSets, FiniteSetsExt

CONSTANTS
  RtMaxRows,   \* executions ever made
  RtLastSlot,  \* the last slot of time
  RtBatches,   \* the batch sizes asked for
  RtMaxRuns,   \* cleanup runs
  RtMaxKills   \* times the process of the cleanup dies

ASSUME RtConstants ==
  /\ RtMaxRows \in Nat /\ RtLastSlot \in Nat \ {0} /\ RtBatches \subseteq Nat \ {0}
  /\ RtMaxRuns \in Nat /\ RtMaxKills \in Nat

VARIABLES
  rtRows,   \* the executions, in the order they were made
  rtNow,    \* the current slot
  rtRun,    \* the cleanup run: its options, what it selected, where it is
  rtRuns,   \* runs begun
  rtKills   \* runs killed

rtVars == <<rtRows, rtNow, rtRun, rtRuns, rtKills>>

RtIds == DOMAIN rtRows
RtHere == {i \in RtIds : ~rtRows[i].gone}

\* A row of executions with the payloads of its steps.  `parent`, `root` and
\* `source` are 0 for null; `source` stands for retryOfExecutionId and
\* replayOfExecutionId, which are always written together.  `late` says that
\* its input was replaced while it was still active, or copied from such a
\* source, and `born` that it
\* was made after the run that is under way had selected its roots.
RtRow(parent, root, depth, source, input) ==
  [parent |-> parent, root |-> root, depth |-> depth, source |-> source, made |-> rtNow,
   over |-> FALSE, completed |-> 0, input |-> input, context |-> TRUE, steps |-> TRUE,
   late |-> ~input, born |-> rtRun.at # "idle", gone |-> FALSE]

RtIdle == [at |-> "idle", execute |-> FALSE, payloadCutoff |-> 1, metadataCutoff |-> 1, batchSize |-> 1,
           roots |-> {}, payloads |-> {}, ids |-> {}, limited |-> FALSE]

-----------------------------------------------------------------------------
(* What the rest of the system does to executions                          *)

RtAdd(row) == Len(rtRows) < RtMaxRows /\ rtRows' = Append(rtRows, row)

\* A manual, scheduled, webhook or event start.
RtStart == RtAdd(RtRow(0, 0, 0, 0, TRUE)) /\ UNCHANGED <<rtNow, rtRun, rtRuns, rtKills>>

\* An active execution calls a sub-workflow.
RtCall(p) ==
  /\ ~rtRows[p].over
  /\ RtAdd(RtRow(p, IF rtRows[p].root = 0 THEN p ELSE rtRows[p].root, rtRows[p].depth + 1, 0, TRUE))
  /\ UNCHANGED <<rtNow, rtRun, rtRuns, rtKills>>

\* replay, of an execution in any status whose context still holds the
\* recovery checkpoint; the new execution gets the input of its source.
RtReplay(s) ==
  /\ rtRows[s].context
  /\ RtAdd(RtRow(0, 0, 0, s, rtRows[s].input))
  /\ UNCHANGED <<rtNow, rtRun, rtRuns, rtKills>>

\* An execution ends, with the payloads of its last step; a worker that had
\* loaded the context before it was replaced writes it back.
RtFinish(i) ==
  /\ ~rtRows[i].over
  /\ \E context \in {rtRows[i].context, TRUE} :
       rtRows' = [rtRows EXCEPT ![i] = [@ EXCEPT !.over = TRUE, !.completed = rtNow, !.steps = TRUE, !.context = context]]
  /\ UNCHANGED <<rtNow, rtRun, rtRuns, rtKills>>

RtTick == rtNow < RtLastSlot /\ rtNow' = rtNow + 1 /\ UNCHANGED <<rtRows, rtRun, rtRuns, rtKills>>

-----------------------------------------------------------------------------
(* Selecting                                                               *)

\* ORDER BY created_at ASC, id ASC LIMIT batchSize: rows are numbered in the
\* order they were made.
RtFirst(ids, n) == {i \in ids : Cardinality({j \in ids : j < i}) < n}

\* The executions that belong to a root: those below it, its retries and its
\* replays; not what is below or replays one of these.
RtRelated(r) == {i \in RtHere : rtRows[i].root = r \/ rtRows[i].source = r}

RtExpired(i, cutoff) == rtRows[i].over /\ rtRows[i].completed < cutoff

RtRootCandidates(cutoff) ==
  {r \in RtHere : /\ rtRows[r].root = 0 /\ rtRows[r].parent = 0
                  /\ RtExpired(r, cutoff)
                  /\ \A i \in RtRelated(r) : RtExpired(i, cutoff)}

\* payloadCandidates
RtPayloadCandidates(cutoff) == {i \in RtHere : rtRows[i].made < cutoff /\ rtRows[i].input}

\* run, with the options validate lets through, to the answer of its first
\* query.  `born` starts anew.
RtBegin ==
  /\ rtRun.at \in {"idle", "done", "failed"} /\ rtRuns < RtMaxRuns
  /\ \E p \in 1..rtNow, c \in 1..rtNow, n \in RtBatches, execute \in BOOLEAN :
       rtRun' = [RtIdle EXCEPT !.at = "roots", !.execute = execute, !.payloadCutoff = p, !.metadataCutoff = c,
                               !.batchSize = n, !.roots = RtFirst(RtRootCandidates(c), n)]
  /\ rtRows' = [i \in RtIds |-> [rtRows[i] EXCEPT !.born = FALSE]]
  /\ rtRuns' = rtRuns + 1
  /\ UNCHANGED <<rtNow, rtKills>>

\* a variant: a full batch is not reported as limited
RtLimitedOver(payloads) == Cardinality(payloads) > rtRun.batchSize \/ Cardinality(rtRun.roots) > rtRun.batchSize

\* batchLimited
RtLimited(payloads) == Cardinality(payloads) = rtRun.batchSize \/ Cardinality(rtRun.roots) = rtRun.batchSize

\* The second query, the report, and the end of a dry run.
RtSelect ==
  /\ rtRun.at = "roots"
  /\ LET payloads == RtFirst(RtPayloadCandidates(rtRun.payloadCutoff), rtRun.batchSize) IN
     rtRun' = [rtRun EXCEPT !.payloads = payloads, !.limited = RtLimited(payloads),
                            !.at = IF ~rtRun.execute THEN "done" ELSE IF payloads # {} THEN "executions" ELSE "trees"]
  /\ UNCHANGED <<rtRows, rtNow, rtRuns, rtKills>>

-----------------------------------------------------------------------------
(* Writing                                                                 *)

\* execution.updateMany: it checks the age again, and no status.
RtWipeExecutions ==
  /\ rtRun.at = "executions"
  /\ rtRows' = [i \in RtIds |->
                  IF i \in rtRun.payloads \cap RtHere /\ rtRows[i].made < rtRun.payloadCutoff
                  THEN [rtRows[i] EXCEPT !.input = FALSE, !.context = FALSE, !.late = @ \/ ~rtRows[i].over]
                  ELSE rtRows[i]]
  /\ rtRun' = [rtRun EXCEPT !.at = "steps"]
  /\ UNCHANGED <<rtNow, rtRuns, rtKills>>

RtWiped(i) == i \in rtRun.payloads

\* stepExecution.updateMany
RtWipeSteps ==
  /\ rtRun.at = "steps"
  /\ rtRows' = [i \in RtIds |-> IF RtWiped(i) THEN [rtRows[i] EXCEPT !.steps = FALSE] ELSE rtRows[i]]
  /\ rtRun' = [rtRun EXCEPT !.at = "trees"]
  /\ UNCHANGED <<rtNow, rtRuns, rtKills>>

\* The roots are taken in the order of the query.
RtRoot == Min(rtRun.roots)

\* deleteTree, as far as its findMany: what belongs to the root by now.
RtReadTree ==
  /\ rtRun.at = "trees" /\ rtRun.roots # {}
  /\ rtRun' = [rtRun EXCEPT !.at = "delete", !.ids = ({RtRoot} \cap RtHere) \cup RtRelated(RtRoot)]
  /\ UNCHANGED <<rtRows, rtNow, rtRuns, rtKills>>

RtCleared(ids) == [i \in RtIds |-> IF i \in ids THEN [rtRows[i] EXCEPT !.source = 0, !.parent = 0, !.root = 0] ELSE rtRows[i]]

\* ON DELETE RESTRICT of replay_of_execution_id: the deletes are made one
\* after the other, deepest first, and each fails while a row that is still
\* there replays what it deletes.
RtRefused(rows, ids) ==
  \E i \in ids, j \in RtHere : rows[j].source = i /\ (j \in ids => rows[j].depth <= rows[i].depth)

\* ON DELETE SET NULL of the parent and the root.
RtDeleted(rows, ids) ==
  [i \in RtIds |->
     IF i \in ids THEN [rows[i] EXCEPT !.gone = TRUE]
     ELSE [rows[i] EXCEPT !.parent = IF @ \in ids THEN 0 ELSE @, !.root = IF @ \in ids THEN 0 ELSE @]]

\* The rest of deleteTree's transaction; an error rolls it back and ends run.
RtDeleteTree ==
  /\ rtRun.at = "delete"
  /\ LET rows == RtCleared(rtRun.ids) IN
     IF RtRefused(rows, rtRun.ids)
     THEN rtRun' = [rtRun EXCEPT !.at = "failed"] /\ UNCHANGED rtRows
     ELSE /\ rtRows' = RtDeleted(rows, rtRun.ids)
          /\ rtRun' = [rtRun EXCEPT !.at = "trees", !.roots = @ \ {RtRoot}, !.ids = {}]
  /\ UNCHANGED <<rtNow, rtRuns, rtKills>>

RtReport ==
  /\ rtRun.at = "trees" /\ rtRun.roots = {}
  /\ rtRun' = [rtRun EXCEPT !.at = "done"]
  /\ UNCHANGED <<rtRows, rtNow, rtRuns, rtKills>>

\* The process dies; a transaction that is open is rolled back.
RtKill ==
  /\ rtRun.at \notin {"idle", "done", "failed"} /\ rtKills < RtMaxKills
  /\ rtRun' = RtIdle /\ rtKills' = rtKills + 1
  /\ UNCHANGED <<rtRows, rtNow, rtRuns>>

-----------------------------------------------------------------------------
RtInit == rtRows = <<>> /\ rtNow = 1 /\ rtRun = RtIdle /\ rtRuns = 0 /\ rtKills = 0

RtNext ==
  \/ RtStart
  \/ \E i \in RtHere : RtCall(i) \/ RtReplay(i) \/ RtFinish(i)
  \/ RtTick
  \/ RtBegin \/ RtSelect \/ RtWipeExecutions \/ RtWipeSteps
  \/ RtReadTree \/ RtDeleteTree \/ RtReport
  \/ RtKill

RtSpec == RtInit /\ [][RtNext]_rtVars

-----------------------------------------------------------------------------
RtTypeOK ==
  /\ rtNow \in 1..RtLastSlot /\ rtRuns \in 0..RtMaxRuns /\ rtKills \in 0..RtMaxKills
  /\ Len(rtRows) <= RtMaxRows
  /\ \A i \in RtIds : {rtRows[i].parent, rtRows[i].root, rtRows[i].source} \subseteq 0..i - 1
  /\ Cardinality(rtRun.roots) <= rtRun.batchSize /\ Cardinality(rtRun.payloads) <= rtRun.batchSize
  /\ rtRun.ids \subseteq RtIds

\* What a cleanup deletes was over before the cutoff it was given, however
\* executions ended, were replayed or called others meanwhile (rootCandidates
\* against deleteTree, which looks at no status); only what was made after
\* the roots were selected may be taken with them.
RtDeletedWasExpired ==
  \A i \in RtIds : ~rtRows[i].gone /\ rtRows'[i].gone => rtRows[i].born \/ RtExpired(i, rtRun.metadataCutoff)

RtNothingKept ==
  rtRun.at = "done" /\ rtRun.execute /\ ~rtRun.limited =>
    \A i \in RtHere : rtRows[i].made < rtRun.payloadCutoff => ~rtRows[i].input /\ (rtRows[i].steps => rtRows[i].late)

\* "Execute repeatedly until `batchLimited` is false": while no run was
\* killed, a run that says it was not limited leaves no payload from before
\* its cutoff, of an execution or of its steps, whatever earlier runs did;
\* what an execution writes after its own input was replaced is excepted
\* (run, payloadCandidates).
RtNotLimitedMeansDone == rtKills = 0 => RtNothingKept

\* deleteTree fails only on a tree from outside which one of its executions
\* is replayed: within a tree no order of the deletes is refused.
RtFailsOnlyOnChains ==
  rtRun.at = "failed" => \E j \in RtHere \ rtRun.ids : rtRows[j].source \in rtRun.ids

\* docs/run-history-retention.md:7: "Cleanup must be bounded, resumable":
\* whatever happened to earlier runs, a run that says it was not limited
\* leaves nothing.
RtResumable == RtNothingKept

\* The safety of retention: while no run was killed, a run that was not limited
\* has left nothing, and a run fails only on a tree that is replayed from outside.
RtInv == RtTypeOK /\ RtNotLimitedMeansDone /\ RtFailsOnlyOnChains
====
