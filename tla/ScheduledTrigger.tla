-------------------------- MODULE ScheduledTrigger --------------------------
(***************************************************************************)
(* One scheduled trigger (ScheduledTriggersService): runDue called by the  *)
(* jobs of the BullMQ scheduler and by recoverSchedulers of an API that    *)
(* starts, while a user enables, pauses, edits or deletes the trigger and  *)
(* the executions it made run to their end.  Time is counted in slots of   *)
(* the cron pattern: the run after slot s is slot s + 1 (nextAfter).       *)
(***************************************************************************)
EXTENDS Naturals, FiniteSets

CONSTANTS
  ScCallers,    \* concurrent calls of runDue: consumers of the queue and booting APIs
  ScSkips,      \* executionPolicy is skip_if_running
  ScLastSlot,   \* bound on the slots that come due
  ScMaxEdits,   \* bound on the user's changes
  ScMaxFaults   \* bound on crashes and failing enqueues

ASSUME ScConstants == ScLastSlot \in Nat \ {0} /\ ScMaxEdits \in Nat /\ ScMaxFaults \in Nat /\ ScSkips \in BOOLEAN

VARIABLES
  scNow,       \* slots that have come due
  scRow,       \* the Trigger row; on: enabled and not paused
  scActive,    \* the workflow is ACTIVE with an active version
  scScheduler, \* BullMQ holds a job scheduler for the trigger
  scJob,       \* a job it made waits
  scKeys,      \* idempotency keys of the scope scheduled-trigger:id
  scRuns,      \* executions created, by slot
  scStatus,    \* its execution: QUEUED stands for every active status
  scPc, scFor, \* where each runDue is, and the slot it works on
  scEdit,      \* the user's change in progress
  scEdits, scFaults,
  scRaced      \* a change was written after the slot it was computed from, or a scheduler removed under a new row

scVars == <<scNow, scRow, scActive, scScheduler, scJob, scKeys, scRuns, scStatus, scPc, scFor, scEdit, scEdits, scFaults, scRaced>>
scExecs == <<scKeys, scRuns, scStatus>>
scUser == <<scEdit, scEdits>>

ScSlots == 1 .. ScLastSlot + 1
ScNone == 0
\* "start" is setEnabled(true) or setPaused(false), "stop" their opposites; one
\* that leaves the other of the two flags in the way is like "update".
ScOps == {"start", "stop", "update", "delete"}
ScIdle == [op |-> "none", next |-> ScNone, pc |-> "idle"]

ScTypeOK ==
  /\ scNow \in 0 .. ScLastSlot
  /\ scRow \in [on : BOOLEAN, deleted : BOOLEAN, next : ScSlots \union {ScNone}]
  /\ scRow.deleted => scRow.next = ScNone /\ ~scRow.on
  /\ scActive \in BOOLEAN /\ scScheduler \in BOOLEAN /\ scJob \in BOOLEAN /\ scRaced \in BOOLEAN
  /\ scKeys \subseteq ScSlots /\ scRuns \in [ScSlots -> Nat]
  /\ scStatus \in [ScSlots -> {"none", "QUEUED", "ENDED"}]
  /\ scPc \in [ScCallers -> {"idle", "begin", "remove", "check", "missed", "create", "enqueue"}]
  /\ scFor \in [ScCallers -> ScSlots \union {ScNone}]
  /\ scEdit \in [op : ScOps \union {"none"}, next : ScSlots \union {ScNone}, pc : {"idle", "write", "sync"}]
  /\ scEdits \in 0 .. ScMaxEdits /\ scFaults \in 0 .. ScMaxFaults

\* create has committed, paused or not, and synchronised the scheduler.
ScInit ==
  /\ scNow = 0 /\ scRow \in [on : BOOLEAN, deleted : {FALSE}, next : {1}]
  /\ scActive = TRUE /\ scScheduler = scRow.on /\ scJob = FALSE
  /\ scKeys = {} /\ scRuns = [s \in ScSlots |-> 0] /\ scStatus = [s \in ScSlots |-> "none"]
  /\ scPc = [c \in ScCallers |-> "idle"] /\ scFor = [c \in ScCallers |-> ScNone]
  /\ scEdit = ScIdle /\ scEdits = 0 /\ scFaults = 0 /\ scRaced = FALSE

ScGo(c, pc) == /\ scPc' = [scPc EXCEPT ![c] = pc]
               /\ scFor' = [scFor EXCEPT ![c] = IF pc = "idle" THEN ScNone ELSE @]
ScFault == scFaults < ScMaxFaults /\ scFaults' = scFaults + 1
ScRunnable(row) == row.on /\ ~row.deleted
ScDue == ScRunnable(scRow) /\ scRow.next /= ScNone /\ scRow.next <= scNow

-----------------------------------------------------------------------------
(* Time, the scheduler of BullMQ and the workers. *)

ScTick == scNow < ScLastSlot /\ scNow' = scNow + 1
          /\ UNCHANGED <<scRow, scActive, scScheduler, scJob, scExecs, scPc, scFor, scUser, scFaults, scRaced>>

\* The scheduler makes its next job when the one before has been taken; it goes
\* on beyond the last slot of the model.
ScFire == scScheduler /\ ~scJob /\ scNow > 0 /\ scJob' = TRUE
          /\ UNCHANGED <<scNow, scRow, scActive, scScheduler, scExecs, scPc, scFor, scUser, scFaults, scRaced>>

\* A worker runs an execution: it was queued, or the reconciler found it.
ScWork == \E s \in ScSlots : /\ scStatus[s] = "QUEUED"
                             /\ scStatus' = [scStatus EXCEPT ![s] = "ENDED"]
          /\ UNCHANGED <<scNow, scRow, scActive, scScheduler, scJob, scKeys, scRuns, scPc, scFor, scUser, scFaults, scRaced>>

-----------------------------------------------------------------------------
(* runDue. *)

\* The processor takes the job.
ScTake(c) == scPc[c] = "idle" /\ scJob /\ scJob' = FALSE /\ ScGo(c, "begin")
             /\ UNCHANGED <<scNow, scRow, scActive, scScheduler, scExecs, scUser, scFaults, scRaced>>

\* recoverSchedulers: an API starts, makes the schedulers of runnable triggers
\* again and runs what is due.
ScBoot(c) ==
  /\ scPc[c] = "idle" /\ ScFault /\ ScRunnable(scRow) /\ scScheduler' = TRUE
  /\ ScGo(c, IF ScDue THEN "begin" ELSE "idle")
  /\ UNCHANGED <<scNow, scRow, scActive, scJob, scExecs, scUser, scRaced>>

\* The row is read: a deleted trigger ends here, one that is not runnable loses
\* its scheduler, one not due ends; then the workflow and the policy decide.
ScBegin(c) ==
  /\ scPc[c] = "begin"
  /\ scPc' = [scPc EXCEPT ![c] = IF scRow.deleted THEN "idle"
                                 ELSE IF ~ScRunnable(scRow) THEN "remove"
                                 ELSE IF ~ScDue THEN "idle"
                                 ELSE IF ~scActive THEN "missed" ELSE IF ScSkips THEN "check" ELSE "create"]
  /\ scFor' = [scFor EXCEPT ![c] = IF ScDue THEN scRow.next ELSE ScNone]
  /\ UNCHANGED <<scNow, scRow, scActive, scScheduler, scJob, scExecs, scUser, scFaults, scRaced>>

\* removeScheduledTriggerScheduler, for the row as it was read.
ScRemove(c) ==
  /\ scPc[c] = "remove" /\ scScheduler' = FALSE /\ ScGo(c, "idle")
  /\ scRaced' = (scRaced \/ ScRunnable(scRow))
  /\ UNCHANGED <<scNow, scRow, scActive, scJob, scExecs, scUser, scFaults>>

\* skip_if_running: an execution of the trigger that is still active.
ScCheck(c) ==
  /\ scPc[c] = "check"
  /\ ScGo(c, IF \E s \in ScSlots : scStatus[s] = "QUEUED" THEN "missed" ELSE "create")
  /\ UNCHANGED <<scNow, scRow, scActive, scScheduler, scJob, scExecs, scUser, scFaults, scRaced>>

\* nextRunAt moves on from the slot this call has read, if it is still there.
ScAdvanced(s) == IF scRow.next = s /\ ~scRow.deleted THEN [scRow EXCEPT !.next = s + 1] ELSE scRow

\* advanceMissed.
ScMissed(c) ==
  /\ scPc[c] = "missed" /\ scRow' = ScAdvanced(scFor[c]) /\ ScGo(c, "idle")
  /\ UNCHANGED <<scNow, scActive, scScheduler, scJob, scExecs, scUser, scFaults, scRaced>>

\* The transaction: the key of this slot, the execution and nextRunAt; a key that
\* is taken is a conflict, and then nothing is written.
ScCreate(c) ==
  LET s == scFor[c] IN
  /\ scPc[c] = "create"
  /\ IF s \in scKeys
     THEN ScGo(c, "idle") /\ UNCHANGED <<scExecs, scRow>>
     ELSE /\ scKeys' = scKeys \union {s}
          /\ scRuns' = [scRuns EXCEPT ![s] = @ + 1] /\ scStatus' = [scStatus EXCEPT ![s] = "QUEUED"]
          /\ scRow' = ScAdvanced(s) /\ ScGo(c, "enqueue")
  /\ UNCHANGED <<scNow, scActive, scScheduler, scJob, scUser, scFaults, scRaced>>

ScEnqueue(c) == scPc[c] = "enqueue" /\ ScGo(c, "idle")
                /\ UNCHANGED <<scNow, scRow, scActive, scScheduler, scJob, scExecs, scUser, scFaults, scRaced>>

\* enqueueExecution throws: the execution is written QUEUED, whatever it is by now.
ScEnqueueFails(c) ==
  /\ scPc[c] = "enqueue" /\ ScFault /\ ScGo(c, "idle") /\ scStatus' = [scStatus EXCEPT ![scFor[c]] = "QUEUED"]
  /\ UNCHANGED <<scNow, scRow, scActive, scScheduler, scJob, scKeys, scRuns, scUser, scRaced>>

ScCrash(c) == scPc[c] /= "idle" /\ ScFault /\ ScGo(c, "idle")
              /\ UNCHANGED <<scNow, scRow, scActive, scScheduler, scJob, scExecs, scUser, scRaced>>

-----------------------------------------------------------------------------
(* The user. *)

\* setEnabled, setPaused, update, delete: the row is read and the next slot is
\* computed from the time it is now.
ScEditRead ==
  /\ scEdit.pc = "idle" /\ ~scRow.deleted /\ scEdits < ScMaxEdits /\ scEdits' = scEdits + 1
  /\ \E op \in ScOps : scEdit' = [op |-> op, next |-> IF op = "delete" THEN ScNone ELSE scNow + 1, pc |-> "write"]
  /\ UNCHANGED <<scNow, scRow, scActive, scScheduler, scJob, scExecs, scPc, scFor, scFaults, scRaced>>

\* The update, by id.
ScEditWrite ==
  /\ scEdit.pc = "write" /\ scEdit' = [scEdit EXCEPT !.pc = "sync"]
  /\ scRow' = [on |-> scEdit.op = "start" \/ (scEdit.op = "update" /\ scRow.on),
               deleted |-> scEdit.op = "delete", next |-> scEdit.next]
  /\ scRaced' = (scRaced \/ scEdit.next \in scKeys)
  /\ UNCHANGED <<scNow, scActive, scScheduler, scJob, scExecs, scPc, scFor, scEdits, scFaults>>

\* syncScheduler of the row just written.
ScSynced == ScRunnable(scRow)
ScEditSync ==
  /\ scEdit.pc = "sync" /\ scEdit' = ScIdle /\ scScheduler' = ScSynced
  /\ UNCHANGED <<scNow, scRow, scActive, scJob, scExecs, scPc, scFor, scEdits, scFaults, scRaced>>

\* The workflow is paused, activated or loses its active version.
ScWorkflow == scEdits < ScMaxEdits /\ scEdits' = scEdits + 1 /\ scActive' = ~scActive
              /\ UNCHANGED <<scNow, scRow, scScheduler, scJob, scExecs, scPc, scFor, scEdit, scFaults, scRaced>>

ScRunDue(c) == ScBegin(c) \/ ScRemove(c) \/ ScCheck(c) \/ ScMissed(c) \/ ScCreate(c) \/ ScEnqueue(c)
ScNext == \/ ScTick \/ ScFire \/ ScWork \/ ScEditRead \/ ScEditWrite \/ ScEditSync \/ ScWorkflow
          \/ \E c \in ScCallers : ScTake(c) \/ ScBoot(c) \/ ScRunDue(c) \/ ScEnqueueFails(c) \/ ScCrash(c)

\* Schedulers fire, consumers take jobs, and calls that neither crash nor throw
\* go on, the user's included.
ScFairness ==
  /\ \A c \in ScCallers : WF_scVars(ScTake(c) \/ ScRunDue(c))
  /\ WF_scVars(ScFire) /\ WF_scVars(ScWork) /\ WF_scVars(ScEditWrite \/ ScEditSync)
ScSpec == ScInit /\ [][ScNext]_scVars /\ ScFairness

-----------------------------------------------------------------------------
(* Properties. *)

\* At most one execution per slot, whoever calls runDue how often (224, 281).
ScOncePerSlot == \A s \in ScSlots : scRuns[s] <= 1

\* A key stands for an execution: a call that gives a slot up for good has not
\* taken its key (223-279).
ScKeyHasExecution == \A s \in scKeys : scRuns[s] = 1

\* runDue moves nextRunAt by one slot or not at all, and only once that slot is
\* due: a call that has slept over another's does not turn it back (258, 370).
ScNextMovesOn ==
  (scRow'.next /= scRow.next /\ scEdit' = scEdit) => scRow'.next = scRow.next + 1 /\ scRow.next <= scNow

\* At rest a runnable trigger has its scheduler, whatever calls of runDue and
\* changes of the user crossed (186, syncScheduler).
ScSchedulerFollowsRow ==
  (scEdit.pc = "idle" /\ \A c \in ScCallers : scPc[c] = "idle") /\ ~scRaced => (ScRunnable(scRow) => scScheduler)

\* A due slot does not stay: it is run or missed, or the user changes the
\* trigger.  Two races break it and are excluded (scRaced): a change computed
\* before a slot was run and written after it puts nextRunAt back to a slot whose
\* key is taken (113-116, 224), and a runDue that read a paused trigger removes
\* the scheduler a resume has just made (186).
ScDueIsRun == \A s \in ScSlots : []<>~(ScDue /\ scRow.next = s /\ ScRunnable(scRow) /\ ~scRaced)
=============================================================================
