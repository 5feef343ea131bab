--------------------------- MODULE TriggerProofs ----------------------------
(***************************************************************************)
(* The safety of the triggers from outside, for every value of the         *)
(* constants: webhooks (WebhookIngress, beside the engine) and schedules   *)
(* (ScheduledTrigger).                                                     *)
(***************************************************************************)
EXTENDS WebhookIngress, ExecutionEngineTypes, ScheduledTrigger

-----------------------------------------------------------------------------
(***************************************************************************)
(* WebhookIngress, for any deliveries, workers, reconcilers and faults: the *)
(* handlers of the API write to the execution's row beside the engine, and *)
(* the rows stay well formed; a key says ENQUEUED only for a job that      *)
(* BullMQ has.                                                             *)
(***************************************************************************)

\* A handler that is to write QUEUED has published the job.
PublishedFirst == \A q \in Requests : api[q] \in {"promote", "requeue"} => CanonicalJob \in Known

IngressIndInv == TypeInv /\ IngressInv /\ PublishedFirst

(* What BullMQ knows it keeps: a job it has taken, finished, delayed or    *)
(* stalled is still one of its jobs.                                       *)
LEMMA KnownStays ==
  ASSUME TypeInv, Next
  PROVE  Known \subseteq Known'
  <1> USE DEF Known, queueVars
  <1>1. CASE Dispatch  BY <1>1 DEF Dispatch, Enqueue
  <1>2. ASSUME NEW w \in Workers, Finish(w) PROVE Known \subseteq Known'
    BY <1>2 DEF Finish
  <1>3. ASSUME NEW w \in Workers, ScheduleRetry(w) PROVE Known \subseteq Known'
    BY <1>3 DEF ScheduleRetry
  <1>4. ASSUME NEW w \in Workers, Crash(w) PROVE Known \subseteq Known'
    BY <1>4 DEF Crash
  <1>5. ASSUME NEW w \in Workers, NEW j \in waiting, Consume(w, j) PROVE Known \subseteq Known'
    BY <1>5 DEF Consume, TakeJob, TakeJobWhileDraining
  <1>6. ASSUME NEW j \in active, StallJob(j) PROVE Known \subseteq Known'
    BY <1>6 DEF StallJob
  <1>7. ASSUME NEW k \in 1..timers, RetryTimePasses(k) PROVE Known \subseteq Known'
    BY <1>7 DEF RetryTimePasses
  <1>8. ASSUME NEW r \in Reconcilers,
               \/ EnqueueExpired(r) \/ EnqueueDue(r)
               \/ RecoverPendingDispatch(r) \/ RequeueQueued(r)
        PROVE  Known \subseteq Known'
    BY <1>8 DEF EnqueueExpired, EnqueueDue, EnqueueRecovery, RecoverPendingDispatch, RequeueQueued, Enqueue
  <1> QED
    BY <1>1, <1>2, <1>3, <1>4, <1>5, <1>6, <1>7, <1>8, QueueWriters

LEMMA TypeNext == ASSUME TypeInv, Next PROVE TypeInv'
  BY ExecutionTypesNext, StepTypesNext, QueueTypesNext, TimeTypesNext, RunnerTypesNext, ReconcilerTypesNext
  DEF TypeInv, TypeOK, RunnerInv

(* What the handlers do to the engine's variables.                         *)
LEMMA ApiWrites ==
  ASSUME NEW q \in Requests, ApiStep(q)
  PROVE  /\ OthersUnchanged
         /\ QueueUnchanged \/ QueueAdd
         /\ faults' = faults \/ faults' = faults + 1
         /\ \/ UNCHANGED <<status, terminalEvents>>
            \/ status' = "QUEUED" /\ UNCHANGED terminalEvents
            \/ status' = "FAILED" /\ terminalEvents' = terminalEvents + 1
  <1>1. OthersUnchanged
     BY DEF ApiStep, FindExisting, EnqueueExecution, MarkQueued, RejectRequest, AbandonRequest
  <1>2. QueueUnchanged \/ QueueAdd
     BY DEF ApiStep, FindExisting, EnqueueExecution, MarkQueued, RejectRequest, AbandonRequest
  <1>3. faults' = faults \/ faults' = faults + 1
     BY DEF ApiStep, FindExisting, EnqueueExecution, MarkQueued, RejectRequest, AbandonRequest, Fault
  <1>4. \/ UNCHANGED <<status, terminalEvents>>
        \/ status' = "QUEUED" /\ UNCHANGED terminalEvents
        \/ status' = "FAILED" /\ terminalEvents' = terminalEvents + 1
     BY DEF ApiStep, FindExisting, EnqueueExecution, MarkQueued, RejectRequest, AbandonRequest
  <1> QED
     BY <1>1, <1>2, <1>3, <1>4

LEMMA ApiKeepsTypes ==
  ASSUME TypeInv, NEW q \in Requests, ApiStep(q)
  PROVE  TypeInv' /\ Known \subseteq Known'
  <1> USE ApiWrites DEF OthersUnchanged
  <1>1. ExecutionTypes'
    BY DEF TypeInv, TypeOK, ExecutionTypes, Active, Terminal
  <1>2. StepTypes'
    BY DEF TypeInv, TypeOK, StepTypes, stepVars
  <1>3. QueueTypes' /\ Known \subseteq Known'
    <2>1. job' = job
       BY DEF localVars
    <2>2. CanonicalJob \in JobIds
       BY JobTypes, 0 \in Nat
    <2>3. CASE QueueUnchanged
       BY <2>1, <2>3 DEF TypeInv, TypeOK, QueueTypes, QueueUnchanged, queueVars, Known
    <2>4. CASE QueueAdd
       BY <2>1, <2>2, <2>4 DEF TypeInv, TypeOK, QueueTypes, QueueAdd, Enqueue, Known
    <2> QED
       BY <2>3, <2>4
  <1>4. TimeTypes'
    <2>1. faults \in Nat /\ (faults' = faults \/ faults' = faults + 1)
       BY DEF TypeInv, TypeOK, TimeTypes
    <2>2. faults' \in Nat
       BY <2>1
    <2>3. UNCHANGED <<timers, due>>
       BY DEF timeVars
    <2> QED
       BY <2>2, <2>3 DEF TypeInv, TypeOK, TimeTypes
  <1>5. RunnerTypes' /\ ReconcilerTypes' /\ InStep'
    BY DEF TypeInv, TypeOK, RunnerTypes, ReconcilerTypes, InStep, localVars, recVars
  <1> QED
    BY <1>1, <1>2, <1>3, <1>4, <1>5 DEF TypeInv, TypeOK

LEMMA IngressStart == IngressInit => IngressIndInv
  <1> SUFFICES ASSUME IngressInit PROVE IngressIndInv
     OBVIOUS
  <1>1. TypeInv
     BY TypeInit DEF IngressInit
  <1>2. api \in [Requests -> ApiPC] /\ key = "PROCESSING" /\ PublishedFirst
     BY DEF IngressInit, ApiPC, PublishedFirst
  <1> QED
     BY <1>1, <1>2 DEF IngressIndInv, IngressInv, IngressTypeOK, AcceptedIsPublished, TypeInv

LEMMA IngressStepKeeps ==
  ASSUME IngressIndInv, IngressNext
  PROVE  IngressIndInv'
  <1>0. TypeInv /\ api \in [Requests -> ApiPC] /\ key \in {"PROCESSING", "ENQUEUED", "FAILED"}
     BY DEF IngressIndInv, IngressInv, IngressTypeOK
  <1>1. TypeInv' /\ Known \subseteq Known'
     BY <1>0, TypeNext, KnownStays, ApiKeepsTypes DEF IngressNext, Next
  <1>2. api' \in [Requests -> ApiPC] /\ key' \in {"PROCESSING", "ENQUEUED", "FAILED"}
     BY <1>0 DEF IngressNext, ingressVars, ApiStep, FindExisting, EnqueueExecution, MarkQueued, RejectRequest, AbandonRequest,
        ApiGoto, ApiPC, Answered, AfterAdd, AfterAddFails
  <1>3. PublishedFirst'
    <2> SUFFICES ASSUME NEW p \in Requests, api'[p] \in {"promote", "requeue"} PROVE CanonicalJob \in Known'
       BY DEF PublishedFirst
    <2>1. CASE api[p] \in {"promote", "requeue"}
       BY <1>1, <2>1 DEF IngressIndInv, PublishedFirst
    <2>2. CASE api[p] \notin {"promote", "requeue"}
      <3>1. QueueAdd
         BY <1>0, <2>2 DEF IngressNext, ingressVars, ApiStep, FindExisting, EnqueueExecution, MarkQueued, RejectRequest, AbandonRequest,
            ApiGoto, Answered, AfterAdd, AfterAddFails
      <3> QED
         BY <3>1 DEF QueueAdd, Enqueue, Known
    <2> QED
       BY <2>1, <2>2
  <1>4. AcceptedIsPublished'
    <2> SUFFICES ASSUME key' = "ENQUEUED" PROVE CanonicalJob \in Known'
       BY DEF AcceptedIsPublished
    <2>1. CASE key = "ENQUEUED"
       BY <1>1, <2>1 DEF IngressIndInv, IngressInv, AcceptedIsPublished
    <2>2. CASE key /= "ENQUEUED"
      <3>1. \E q \in Requests : api[q] \in {"promote", "requeue"}
         BY <2>2 DEF IngressNext, ingressVars, ApiStep, FindExisting, EnqueueExecution, MarkQueued, RejectRequest, AbandonRequest
      <3> QED
         BY <1>1, <3>1 DEF IngressIndInv, PublishedFirst
    <2> QED
       BY <2>1, <2>2
  <1> QED
     BY <1>1, <1>2, <1>3, <1>4 DEF IngressIndInv, IngressInv, IngressTypeOK, TypeInv

LEMMA IngressStutters ==
  ASSUME IngressIndInv, UNCHANGED allVars
  PROVE  IngressIndInv'
  <1>1. TypeInv'
     BY TypeStutter DEF IngressIndInv, allVars
  <1> QED
     BY <1>1 DEF IngressIndInv, IngressInv, IngressTypeOK, TypeInv, PublishedFirst, AcceptedIsPublished, Known, allVars, vars, queueVars,
        ingressVars

(* Whichever deliveries of a webhook request cross, and whatever the       *)
(* engine does meanwhile: the rows stay well formed, and the idempotency   *)
(* key is ENQUEUED only when the job was published                         *)
(* (WebhooksService.receive, retryFailedEnqueue).                          *)
THEOREM AcceptedWebhookIsPublished == IngressSpec => []IngressInv
  <1>1. IngressIndInv /\ [IngressNext]_allVars => IngressIndInv'
     BY IngressStepKeeps, IngressStutters
  <1>2. IngressIndInv => IngressInv
     BY DEF IngressIndInv
  <1> QED
     BY <1>1, <1>2, IngressStart, PTL DEF IngressSpec

-----------------------------------------------------------------------------
(***************************************************************************)
(* ScheduledTrigger, for any number of concurrent calls of runDue, slots   *)
(* and changes by the user: the key of a slot and its execution are written *)
(* in one transaction (ScKeyed).                                           *)
(***************************************************************************)

ScRowType == [on : BOOLEAN, deleted : BOOLEAN, next : Nat]
ScEditType == [op : ScOps \union {"none"}, next : Nat, pc : {"idle", "write", "sync"}]
ScPlaces == {"idle", "begin", "remove", "check", "missed", "create", "enqueue"}

\* What is needed of the types.
ScTyped ==
  /\ scNow \in 0 .. ScLastSlot /\ scRow \in ScRowType /\ scEdit \in ScEditType
  /\ scPc \in [ScCallers -> ScPlaces] /\ scFor \in [ScCallers -> Nat]

\* The slot a runDue works on has come due.
ScForDue == \A c \in ScCallers : scPc[c] \in {"check", "missed", "create", "enqueue"} => scFor[c] \in 1 .. scNow

\* A slot has one execution when its key is taken, and none before.
ScKeyed ==
  /\ scKeys \subseteq ScSlots /\ scRuns \in [ScSlots -> Nat]
  /\ \A s \in ScSlots : scRuns[s] = IF s \in scKeys THEN 1 ELSE 0

\* A runnable trigger has its scheduler, but for a change being synchronised.
ScFollows == ~scRaced /\ scEdit.pc /= "sync" /\ ScRunnable(scRow) => scScheduler

\* The rest of ScTypeOK: slots are within the model's, and a deleted row, like
\* the change that deletes it, has no next slot.
ScRest ==
  /\ scRow.next <= ScLastSlot + 1 /\ scEdit.next <= ScLastSlot + 1
  /\ \A c \in ScCallers : scFor[c] <= ScLastSlot + 1
  /\ scRow.deleted => scRow.next = ScNone /\ ~scRow.on
  /\ scEdit.op = "delete" => scEdit.next = ScNone
  /\ scActive \in BOOLEAN /\ scScheduler \in BOOLEAN /\ scJob \in BOOLEAN /\ scRaced \in BOOLEAN
  /\ scStatus \in [ScSlots -> {"none", "QUEUED", "ENDED"}]
  /\ scEdits \in 0 .. ScMaxEdits /\ scFaults \in 0 .. ScMaxFaults

ScheduleInv == ScTyped /\ ScRest /\ ScForDue /\ ScKeyed /\ ScFollows

(* The statements that write the trigger's row, and what they write.       *)
LEMMA ScRowWriters ==
  ASSUME ScTyped, ScForDue, [ScNext]_scVars
  PROVE  \/ scRow' = scRow
         \/ ScEditWrite
         \/ \E s \in 1 .. scNow : /\ scRow.next = s /\ scRow' = [scRow EXCEPT !.next = s + 1]
                                  /\ UNCHANGED <<scScheduler, scRaced, scEdit>>
  <1>1. ASSUME NEW c \in ScCallers, ScMissed(c) \/ ScCreate(c), scRow' /= scRow
        PROVE  \E s \in 1 .. scNow : /\ scRow.next = s /\ scRow' = [scRow EXCEPT !.next = s + 1]
                                     /\ UNCHANGED <<scScheduler, scRaced, scEdit>>
    <2>1. scPc[c] \in {"missed", "create"} /\ scRow' = ScAdvanced(scFor[c]) /\ UNCHANGED <<scScheduler, scRaced, scEdit>>
       BY <1>1 DEF ScMissed, ScCreate, scUser
    <2>2. scFor[c] \in 1 .. scNow
       BY <2>1 DEF ScForDue
    <2> QED
       BY <1>1, <2>1, <2>2 DEF ScAdvanced
  <1>2. scRow' = scRow \/ ScEditWrite \/ \E c \in ScCallers : ScMissed(c) \/ ScCreate(c)
     BY DEF ScNext, ScRunDue, ScTick, ScFire, ScWork, ScEditRead, ScEditSync, ScWorkflow, ScTake, ScBoot, ScBegin, ScRemove, ScCheck,
        ScEnqueue, ScEnqueueFails, ScCrash, scVars
  <1> QED
     BY <1>1, <1>2

LEMMA ScTypedNext ==
  ASSUME ScTyped, ScForDue, [ScNext]_scVars
  PROVE  ScTyped'
  <1>0. /\ scNow \in 0 .. ScLastSlot /\ scRow \in ScRowType /\ scEdit \in ScEditType
        /\ scPc \in [ScCallers -> ScPlaces] /\ scFor \in [ScCallers -> Nat]
     BY DEF ScTyped
  <1>1. scNow' \in 0 .. ScLastSlot
    <2>1. scNow' = scNow \/ ScTick
       BY DEF ScNext, ScRunDue, ScFire, ScWork, ScEditRead, ScEditWrite, ScEditSync, ScWorkflow, ScTake, ScBoot, ScBegin, ScRemove,
          ScCheck, ScMissed, ScCreate, ScEnqueue, ScEnqueueFails, ScCrash, scVars
    <2> QED
       BY <1>0, <2>1, ScConstants DEF ScTick
  <1>2. scRow' \in ScRowType
    <2>1. CASE ScEditWrite
      <3>1. scEdit.next \in Nat
         BY <1>0 DEF ScEditType
      <3> QED
         BY <1>0, <2>1, <3>1 DEF ScEditWrite, ScRowType
    <2>2. ASSUME NEW s \in 1 .. scNow, scRow' = [scRow EXCEPT !.next = s + 1] PROVE scRow' \in ScRowType
      <3>1. s + 1 \in Nat
         BY <1>0
      <3> QED
         BY <1>0, <2>2, <3>1 DEF ScRowType
    <2> QED
       BY <1>0, <2>1, <2>2, ScRowWriters
  <1>3. scEdit' \in ScEditType
    <2>1. scEdit' = scEdit \/ ScEditRead \/ ScEditWrite \/ ScEditSync
       BY DEF ScNext, ScRunDue, ScTick, ScFire, ScWork, ScWorkflow, ScTake, ScBoot, ScBegin, ScRemove, ScCheck, ScMissed, ScCreate,
          ScEnqueue, ScEnqueueFails, ScCrash, scUser, scVars
    <2>2. CASE ScEditRead
      <3>1. scNow + 1 \in Nat /\ ScNone \in Nat
         BY <1>0 DEF ScNone
      <3> QED
         BY <2>2, <3>1 DEF ScEditRead, ScEditType
    <2>3. CASE ScEditWrite \/ ScEditSync
       BY <1>0, <2>3 DEF ScEditWrite, ScEditSync, ScIdle, ScNone, ScEditType
    <2> QED
       BY <1>0, <2>1, <2>2, <2>3
  <1>4. scPc' \in [ScCallers -> ScPlaces]
    <2>1. ASSUME NEW c \in ScCallers, ScTake(c) \/ ScBoot(c) \/ ScRunDue(c) \/ ScEnqueueFails(c) \/ ScCrash(c)
          PROVE  \E q \in ScPlaces : scPc' = [scPc EXCEPT ![c] = q]
      <3> USE DEF ScPlaces
      <3>1. CASE ScTake(c) \/ ScBoot(c)  BY <3>1 DEF ScTake, ScBoot, ScGo
      <3>2. CASE ScBegin(c)  BY <3>2 DEF ScBegin
      <3>3. CASE ScRemove(c) \/ ScCheck(c) \/ ScMissed(c)  BY <3>3 DEF ScRemove, ScCheck, ScMissed, ScGo
      <3>4. CASE ScCreate(c)  BY <3>4 DEF ScCreate, ScGo
      <3>5. CASE ScEnqueue(c) \/ ScEnqueueFails(c) \/ ScCrash(c)  BY <3>5 DEF ScEnqueue, ScEnqueueFails, ScCrash, ScGo
      <3> QED
         BY <2>1, <3>1, <3>2, <3>3, <3>4, <3>5 DEF ScRunDue
    <2>2. \/ scPc' = scPc
          \/ \E c \in ScCallers : ScTake(c) \/ ScBoot(c) \/ ScRunDue(c) \/ ScEnqueueFails(c) \/ ScCrash(c)
       BY DEF ScNext, ScTick, ScFire, ScWork, ScEditRead, ScEditWrite, ScEditSync, ScWorkflow, scVars
    <2> QED
       BY <1>0, <2>1, <2>2
  <1>5. scFor' \in [ScCallers -> Nat]
    <2>1. \/ scFor' = scFor
          \/ \E c \in ScCallers : \E n \in {ScNone, scFor[c], scRow.next} : scFor' = [scFor EXCEPT ![c] = n]
       BY DEF ScGo, ScNext, ScRunDue, ScTick, ScFire, ScWork, ScEditRead, ScEditWrite, ScEditSync, ScWorkflow, ScTake,
          ScBoot, ScBegin, ScRemove, ScCheck, ScMissed, ScCreate, ScEnqueue, ScEnqueueFails, ScCrash, scVars
    <2>2. scRow.next \in Nat /\ ScNone \in Nat
       BY <1>0 DEF ScRowType, ScNone
    <2> QED
       BY <1>0, <2>1, <2>2
  <1> QED
     BY <1>1, <1>2, <1>3, <1>4, <1>5 DEF ScTyped

LEMMA ScRestNext ==
  ASSUME ScTyped, ScRest, ScForDue, [ScNext]_scVars
  PROVE  ScRest'
  <1> USE DEF ScNext, ScRunDue, scVars, scExecs, scUser
  <1>0. /\ scNow \in 0 .. ScLastSlot /\ scRow \in ScRowType /\ scEdit \in ScEditType
        /\ scFor \in [ScCallers -> Nat] /\ ScLastSlot \in Nat
        /\ scRow.next \in Nat /\ scRow.next <= ScLastSlot + 1 /\ scEdit.next \in Nat /\ scEdit.next <= ScLastSlot + 1
     BY ScConstants DEF ScTyped, ScRest, ScRowType, ScEditType
  <1>1. scRow'.next <= ScLastSlot + 1 /\ (scRow'.deleted => scRow'.next = ScNone /\ ~scRow'.on)
    <2>1. scRow.deleted => scRow.next = ScNone /\ ~scRow.on
       BY DEF ScRest
    <2>2. CASE ScEditWrite
      <3>1. scEdit.op = "delete" => scEdit.next = ScNone
         BY DEF ScRest
      <3>2. scRow'.next = scEdit.next /\ scRow'.deleted = (scEdit.op = "delete")
            /\ scRow'.on = (scEdit.op = "start" \/ (scEdit.op = "update" /\ scRow.on))
         BY <2>2 DEF ScEditWrite
      <3> QED
         BY <1>0, <3>1, <3>2
    <2>3. ASSUME NEW s \in 1 .. scNow, scRow.next = s, scRow' = [scRow EXCEPT !.next = s + 1]
          PROVE  scRow'.next <= ScLastSlot + 1 /\ ~scRow'.deleted
      <3>1. ~scRow.deleted
         BY <1>0, <2>1, <2>3 DEF ScNone
      <3>2. scRow'.next = s + 1 /\ scRow'.deleted = scRow.deleted
         BY <1>0, <2>3 DEF ScRowType
      <3>3. s + 1 <= ScLastSlot + 1
         BY <1>0
      <3> QED
         BY <3>1, <3>2, <3>3
    <2>4. CASE scRow' = scRow
       BY <1>0, <2>1, <2>4
    <2> QED
       BY <2>2, <2>3, <2>4, ScRowWriters
  <1>2. scEdit'.next <= ScLastSlot + 1 /\ (scEdit'.op = "delete" => scEdit'.next = ScNone)
    <2>1. scEdit' = scEdit \/ ScEditRead \/ ScEditWrite \/ ScEditSync
       BY DEF ScTick, ScFire, ScWork, ScWorkflow, ScTake, ScBoot, ScBegin, ScRemove, ScCheck, ScMissed, ScCreate,
          ScEnqueue, ScEnqueueFails, ScCrash
    <2>2. scEdit.op = "delete" => scEdit.next = ScNone
       BY DEF ScRest
    <2>3. CASE ScEditRead
       BY <1>0, <2>3 DEF ScEditRead, ScNone
    <2>4. CASE ScEditWrite
       BY <1>0, <2>2, <2>4 DEF ScEditWrite, ScEditType
    <2>5. CASE ScEditSync
       BY <1>0, <2>5 DEF ScEditSync, ScIdle, ScNone
    <2> QED
       BY <1>0, <2>1, <2>2, <2>3, <2>4, <2>5
  <1>3. \A c \in ScCallers : scFor'[c] <= ScLastSlot + 1
    <2>1. \/ scFor' = scFor
          \/ \E c \in ScCallers : \E n \in {ScNone, scFor[c], scRow.next} : scFor' = [scFor EXCEPT ![c] = n]
       BY DEF ScGo, ScTick, ScFire, ScWork, ScEditRead, ScEditWrite, ScEditSync, ScWorkflow, ScTake,
          ScBoot, ScBegin, ScRemove, ScCheck, ScMissed, ScCreate, ScEnqueue, ScEnqueueFails, ScCrash
    <2>2. \A c \in ScCallers : scFor[c] <= ScLastSlot + 1
       BY DEF ScRest
    <2> QED
       BY <1>0, <2>1, <2>2 DEF ScNone
  <1>4. scActive' \in BOOLEAN /\ scScheduler' \in BOOLEAN /\ scJob' \in BOOLEAN /\ scRaced' \in BOOLEAN
    <2>1. scActive \in BOOLEAN /\ scScheduler \in BOOLEAN /\ scJob \in BOOLEAN /\ scRaced \in BOOLEAN
       BY DEF ScRest
    <2>2. scRow.on \in BOOLEAN /\ scRow.deleted \in BOOLEAN
       BY <1>0 DEF ScRowType
    <2>3. scActive' = scActive \/ scActive' = ~scActive
       BY DEF ScTick, ScFire, ScWork, ScEditRead, ScEditWrite, ScEditSync, ScWorkflow, ScTake,
          ScBoot, ScBegin, ScRemove, ScCheck, ScMissed, ScCreate, ScEnqueue, ScEnqueueFails, ScCrash
    <2>4. scScheduler' = scScheduler \/ scScheduler' = TRUE \/ scScheduler' = FALSE \/ scScheduler' = ScRunnable(scRow)
       BY DEF ScTick, ScFire, ScWork, ScEditRead, ScEditWrite, ScEditSync, ScSynced, ScWorkflow, ScTake,
          ScBoot, ScBegin, ScRemove, ScCheck, ScMissed, ScCreate, ScEnqueue, ScEnqueueFails, ScCrash
    <2>5. scJob' = scJob \/ scJob' = TRUE \/ scJob' = FALSE
       BY DEF ScTick, ScFire, ScWork, ScEditRead, ScEditWrite, ScEditSync, ScWorkflow, ScTake,
          ScBoot, ScBegin, ScRemove, ScCheck, ScMissed, ScCreate, ScEnqueue, ScEnqueueFails, ScCrash
    <2>6. scRaced' = scRaced \/ scRaced' = (scRaced \/ ScRunnable(scRow)) \/ scRaced' = (scRaced \/ scEdit.next \in scKeys)
       BY DEF ScTick, ScFire, ScWork, ScEditRead, ScEditWrite, ScEditSync, ScWorkflow, ScTake,
          ScBoot, ScBegin, ScRemove, ScCheck, ScMissed, ScCreate, ScEnqueue, ScEnqueueFails, ScCrash
    <2> QED
       BY <2>1, <2>2, <2>3, <2>4, <2>5, <2>6 DEF ScRunnable
  <1>5. scStatus' \in [ScSlots -> {"none", "QUEUED", "ENDED"}]
    <2>1. \/ scStatus' = scStatus
          \/ \E s \in {scFor[c] : c \in ScCallers} \union ScSlots : \E q \in {"QUEUED", "ENDED"} : scStatus' = [scStatus EXCEPT ![s] = q]
       BY DEF ScTick, ScFire, ScWork, ScEditRead, ScEditWrite, ScEditSync, ScWorkflow, ScTake,
          ScBoot, ScBegin, ScRemove, ScCheck, ScMissed, ScCreate, ScEnqueue, ScEnqueueFails, ScCrash
    <2>2. scStatus \in [ScSlots -> {"none", "QUEUED", "ENDED"}]
       BY DEF ScRest
    <2> QED
       BY <2>1, <2>2
  <1>6. scEdits' \in 0 .. ScMaxEdits /\ scFaults' \in 0 .. ScMaxFaults
    <2>1. scEdits' = scEdits \/ (scEdits < ScMaxEdits /\ scEdits' = scEdits + 1)
       BY DEF ScTick, ScFire, ScWork, ScEditRead, ScEditWrite, ScEditSync, ScWorkflow, ScTake,
          ScBoot, ScBegin, ScRemove, ScCheck, ScMissed, ScCreate, ScEnqueue, ScEnqueueFails, ScCrash
    <2>2. scFaults' = scFaults \/ ScFault
       BY DEF ScTick, ScFire, ScWork, ScEditRead, ScEditWrite, ScEditSync, ScWorkflow, ScTake,
          ScBoot, ScBegin, ScRemove, ScCheck, ScMissed, ScCreate, ScEnqueue, ScEnqueueFails, ScCrash
    <2> QED
       BY <2>1, <2>2, ScConstants DEF ScFault, ScRest
  <1> QED
     BY <1>1, <1>2, <1>3, <1>4, <1>5, <1>6 DEF ScRest

(* A slot that came due stays due.                                         *)
LEMMA ScForDueNext ==
  ASSUME ScTyped, ScForDue, [ScNext]_scVars
  PROVE  ScForDue'
  <1>0. /\ scNow \in 0 .. ScLastSlot /\ scRow \in ScRowType
        /\ scPc \in [ScCallers -> ScPlaces] /\ scFor \in [ScCallers -> Nat]
     BY DEF ScTyped
  <1>1. scNow' = scNow \/ scNow' = scNow + 1
     BY DEF ScNext, ScRunDue, ScTick, ScFire, ScWork, ScEditRead, ScEditWrite, ScEditSync, ScWorkflow, ScTake, ScBoot, ScBegin, ScRemove,
        ScCheck, ScMissed, ScCreate, ScEnqueue, ScEnqueueFails, ScCrash, scVars
  <1> SUFFICES ASSUME NEW v \in ScCallers, scPc'[v] \in {"check", "missed", "create", "enqueue"} PROVE scFor'[v] \in 1 .. scNow'
     BY DEF ScForDue
  <1>2. \/ scPc'[v] = scPc[v] /\ scFor'[v] = scFor[v]
        \/ scPc[v] \in {"check", "missed", "create", "enqueue"} /\ scFor'[v] = scFor[v]
        \/ ScBegin(v)
    <2>1. ASSUME NEW c \in ScCallers, c /= v, ScTake(c) \/ ScBoot(c) \/ ScRunDue(c) \/ ScEnqueueFails(c) \/ ScCrash(c)
          PROVE  scPc'[v] = scPc[v] /\ scFor'[v] = scFor[v]
       BY <1>0, <2>1 DEF ScGo, ScRunDue, ScTake, ScBoot, ScBegin, ScRemove, ScCheck, ScMissed, ScCreate, ScEnqueue,
          ScEnqueueFails, ScCrash
    <2>2. ASSUME ScTake(v) \/ ScBoot(v) \/ ScRemove(v) \/ ScMissed(v) \/ ScEnqueue(v) \/ ScEnqueueFails(v) \/ ScCrash(v)
          PROVE  FALSE
       BY <1>0, <2>2 DEF ScGo, ScTake, ScBoot, ScRemove, ScMissed, ScEnqueue, ScEnqueueFails, ScCrash
    <2>3. ASSUME ScCheck(v) PROVE scPc[v] \in {"check", "missed", "create", "enqueue"} /\ scFor'[v] = scFor[v]
       BY <1>0, <2>3 DEF ScCheck, ScGo
    <2>4. ASSUME ScCreate(v) PROVE scPc[v] \in {"check", "missed", "create", "enqueue"} /\ scFor'[v] = scFor[v]
       BY <1>0, <2>4 DEF ScCreate, ScGo
    <2>5. \/ UNCHANGED <<scPc, scFor>>
          \/ \E c \in ScCallers : ScTake(c) \/ ScBoot(c) \/ ScRunDue(c) \/ ScEnqueueFails(c) \/ ScCrash(c)
       BY DEF ScNext, ScTick, ScFire, ScWork, ScEditRead, ScEditWrite, ScEditSync, ScWorkflow, scVars
    <2> QED
       BY <2>1, <2>2, <2>3, <2>4, <2>5 DEF ScRunDue
  <1>3. CASE ScBegin(v)
    <2>1. ScDue /\ scFor'[v] = scRow.next
       BY <1>0, <1>3 DEF ScBegin
    <2>2. scRow.next \in Nat
       BY <1>0 DEF ScRowType
    <2>3. scRow.next /= 0 /\ scRow.next <= scNow
       BY <2>1 DEF ScDue, ScNone
    <2>4. scNow \in Nat /\ (scNow' = scNow \/ scNow' = scNow + 1)
       BY <1>0, <1>1, ScConstants
    <2> QED
       BY <2>1, <2>2, <2>3, <2>4
  <1> QED
     BY <1>0, <1>1, <1>2, <1>3 DEF ScForDue

(* The key and the execution of a slot are written together.               *)
LEMMA ScKeyedNext ==
  ASSUME ScTyped, ScForDue, ScKeyed, [ScNext]_scVars
  PROVE  ScKeyed'
  <1>1. UNCHANGED <<scKeys, scRuns>> \/ \E c \in ScCallers : ScCreate(c)
     BY DEF ScNext, ScRunDue, ScTick, ScFire, ScWork, ScEditRead, ScEditWrite, ScEditSync, ScWorkflow, ScTake,
        ScBoot, ScBegin, ScRemove, ScCheck, ScMissed, ScEnqueue, ScEnqueueFails, ScCrash, scVars, scExecs
  <1>2. ASSUME NEW c \in ScCallers, ScCreate(c) PROVE ScKeyed'
    <2>1. scFor[c] \in ScSlots
       BY <1>2, ScConstants DEF ScCreate, ScForDue, ScTyped, ScSlots
    <2>2. \/ UNCHANGED <<scKeys, scRuns>>
          \/ /\ scFor[c] \notin scKeys /\ scKeys' = scKeys \union {scFor[c]}
             /\ scRuns' = [scRuns EXCEPT ![scFor[c]] = scRuns[scFor[c]] + 1]
       BY <1>2 DEF ScCreate, scExecs
    <2> QED
       BY <2>1, <2>2 DEF ScKeyed
  <1> QED
     BY <1>1, <1>2 DEF ScKeyed

(* A scheduler goes with the row it was made for, or the race is noted.    *)
LEMMA ScFollowsNext ==
  ASSUME ScTyped, ScForDue, ScFollows, [ScNext]_scVars
  PROVE  ScFollows'
  <1>0. scRow \in ScRowType /\ scEdit \in ScEditType
     BY DEF ScTyped
  <1>1. ASSUME UNCHANGED <<scRow, scScheduler, scRaced, scEdit>> PROVE ScFollows'
     BY <1>1 DEF ScFollows, ScRunnable
  <1>2. ASSUME NEW s \in 1 .. scNow, scRow' = [scRow EXCEPT !.next = s + 1], UNCHANGED <<scScheduler, scRaced, scEdit>> PROVE ScFollows'
    <2>1. scRow'.on = scRow.on /\ scRow'.deleted = scRow.deleted
       BY <1>0, <1>2 DEF ScRowType
    <2> QED
       BY <1>2, <2>1 DEF ScFollows, ScRunnable
  <1>3. CASE ScEditWrite
     BY <1>0, <1>3 DEF ScEditWrite, ScFollows, ScEditType
  <1>4. CASE ScEditRead
     BY <1>0, <1>4 DEF ScEditRead, ScFollows, ScRunnable, ScEditType
  <1>5. CASE ScEditSync
     BY <1>5 DEF ScEditSync, ScSynced, ScFollows, ScRunnable
  <1>6. ASSUME NEW c \in ScCallers, ScRemove(c) \/ ScBoot(c) PROVE ScFollows'
     BY <1>6 DEF ScRemove, ScBoot, ScFollows, ScRunnable, scUser
  <1>7. \/ UNCHANGED <<scRow, scScheduler, scRaced, scEdit>> \/ scRow' /= scRow
        \/ ScEditWrite \/ ScEditRead \/ ScEditSync \/ \E c \in ScCallers : ScRemove(c) \/ ScBoot(c)
     BY DEF ScNext, ScRunDue, ScTick, ScFire, ScWork, ScWorkflow, ScTake, ScBegin, ScCheck, ScMissed, ScCreate, ScEnqueue,
        ScEnqueueFails, ScCrash, scVars, scUser
  <1> QED
     BY <1>1, <1>2, <1>3, <1>4, <1>5, <1>6, <1>7, ScRowWriters

LEMMA ScheduleInit == ScInit => ScheduleInv
  <1> SUFFICES ASSUME ScInit PROVE ScheduleInv
     OBVIOUS
  <1>1. scRow \in ScRowType /\ scEdit \in ScEditType
    <2>1. scRow \in [on : BOOLEAN, deleted : BOOLEAN, next : {1}] /\ scEdit = [op |-> "none", next |-> 0, pc |-> "idle"]
       BY DEF ScInit, ScIdle, ScNone
    <2>2. 0 \in Nat /\ 1 \in Nat
       OBVIOUS
    <2>3. scRow \in ScRowType
       BY <2>1, <2>2 DEF ScRowType
    <2> QED
       BY <2>1, <2>3 DEF ScEditType
  <1>2. ScTyped
     BY <1>1, ScConstants DEF ScInit, ScTyped, ScPlaces, ScNone
  <1>3. ScForDue /\ ScKeyed
     BY DEF ScInit, ScForDue, ScKeyed
  <1>4. ScFollows
     BY DEF ScInit, ScFollows, ScRunnable
  <1>5. ScRest
    <2>1. /\ scRow.next = 1 /\ ~scRow.deleted /\ scRow.on \in BOOLEAN
          /\ scEdit.next = 0 /\ scEdit.op = "none" /\ \A c \in ScCallers : scFor[c] = 0
       BY DEF ScInit, ScIdle, ScNone
    <2>2. scActive \in BOOLEAN /\ scScheduler \in BOOLEAN /\ scJob \in BOOLEAN /\ scRaced \in BOOLEAN
       BY <2>1 DEF ScInit
    <2>3. scStatus \in [ScSlots -> {"none", "QUEUED", "ENDED"}]
       BY DEF ScInit
    <2>4. scEdits \in 0 .. ScMaxEdits /\ scFaults \in 0 .. ScMaxFaults
       BY ScConstants DEF ScInit
    <2>5. scRow.next <= ScLastSlot + 1 /\ scEdit.next <= ScLastSlot + 1 /\ \A c \in ScCallers : scFor[c] <= ScLastSlot + 1
       BY <2>1, ScConstants
    <2> QED
       BY <2>1, <2>2, <2>3, <2>4, <2>5 DEF ScRest
  <1> QED
     BY <1>2, <1>3, <1>4, <1>5 DEF ScheduleInv

LEMMA ScheduleTypes == ScheduleInv => ScTypeOK
  <1> SUFFICES ASSUME ScheduleInv PROVE ScTypeOK
     OBVIOUS
  <1>1. ScTyped /\ ScRest /\ ScKeyed /\ ScLastSlot \in Nat
     BY ScConstants DEF ScheduleInv
  <1>2. \A n \in Nat : n <= ScLastSlot + 1 => n \in ScSlots \union {ScNone}
     BY <1>1 DEF ScSlots, ScNone
  <1>3. scRow \in [on : BOOLEAN, deleted : BOOLEAN, next : ScSlots \union {ScNone}]
    <2>1. scRow \in ScRowType /\ scRow.next <= ScLastSlot + 1
       BY <1>1 DEF ScTyped, ScRest
    <2>2. scRow.next \in ScSlots \union {ScNone}
       BY <1>2, <2>1 DEF ScRowType
    <2> QED
       BY <2>1, <2>2 DEF ScRowType
  <1>4. scEdit \in [op : ScOps \union {"none"}, next : ScSlots \union {ScNone}, pc : {"idle", "write", "sync"}]
    <2>1. scEdit \in ScEditType /\ scEdit.next <= ScLastSlot + 1
       BY <1>1 DEF ScTyped, ScRest
    <2>2. scEdit.next \in ScSlots \union {ScNone}
       BY <1>2, <2>1 DEF ScEditType
    <2> QED
       BY <2>1, <2>2 DEF ScEditType
  <1>5. scFor \in [ScCallers -> ScSlots \union {ScNone}]
     BY <1>1, <1>2 DEF ScTyped, ScRest
  <1> QED
     BY <1>1, <1>3, <1>4, <1>5, Zenon DEF ScTypeOK, ScTyped, ScRest, ScKeyed, ScPlaces

LEMMA ScheduleNext == ScheduleInv /\ [ScNext]_scVars => ScheduleInv'
  BY ScTypedNext, ScRestNext, ScForDueNext, ScKeyedNext, ScFollowsNext DEF ScheduleInv

(* For any number of concurrent runDue calls, slots, changes by the user,  *)
(* crashes and failing enqueues: the rows are well formed (one deleted has *)
(* no next slot), a slot has at most one execution, a taken key has        *)
(* exactly one, nextRunAt moves only from a slot that is due to            *)
(* the next unless the user writes it, and at rest a runnable trigger has  *)
(* its scheduler but for the races named (ScheduledTriggersService).       *)
THEOREM SlotsRunOnce ==
  ScSpec => [](ScTypeOK /\ ScOncePerSlot /\ ScKeyHasExecution /\ ScSchedulerFollowsRow) /\ [][ScNextMovesOn]_scVars
  <1>1. ScheduleInv => ScOncePerSlot /\ ScKeyHasExecution
     BY DEF ScheduleInv, ScKeyed, ScOncePerSlot, ScKeyHasExecution
  <1>2. ScheduleInv => ScSchedulerFollowsRow
     BY DEF ScheduleInv, ScFollows, ScSchedulerFollowsRow
  <1>3. ScheduleInv /\ [ScNext]_scVars => [ScNextMovesOn]_scVars
    <2> SUFFICES ASSUME ScheduleInv, [ScNext]_scVars, scRow'.next /= scRow.next, scEdit' = scEdit
                 PROVE  scRow'.next = scRow.next + 1 /\ scRow.next <= scNow
       BY DEF ScNextMovesOn
    <2>0. scRow \in ScRowType /\ scEdit \in ScEditType /\ scNow \in Nat
       BY DEF ScheduleInv, ScTyped
    <2>1. ~ScEditWrite
       BY <2>0 DEF ScEditWrite, ScEditType
    <2>2. PICK s \in 1 .. scNow : scRow.next = s /\ scRow' = [scRow EXCEPT !.next = s + 1]
       BY <2>1, ScRowWriters DEF ScheduleInv
    <2>3. scRow'.next = s + 1
       BY <2>0, <2>2 DEF ScRowType
    <2> QED
       BY <2>0, <2>2, <2>3
  <1> QED
     BY <1>1, <1>2, <1>3, ScheduleInit, ScheduleNext, ScheduleTypes, PTL DEF ScSpec
=============================================================================
