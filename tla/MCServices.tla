---------------------------- MODULE MCServices ----------------------------
(***************************************************************************)
(* One instance for the processes around the engine, most of which have to *)
(* make progress: what starts executions and what they wait for.  Each     *)
(* behaviour is one of a single component, named by `part`, while the      *)
(* variables of the others keep an initial value.  The state space is the  *)
(* disjoint union of those of the components.                              *)
(***************************************************************************)
EXTENDS ApprovalWait, SubWorkflow, EventOutbox, NotificationDelivery, ScheduledTrigger,
        EventChain, StartRequests, AiSteps, TLC

VARIABLE part

Parts == {"approval", "subworkflow", "outbox", "notification", "schedule", "chain", "start", "ai"}

-----------------------------------------------------------------------------
(* Constants                                                               *)

MCApChoice == [d \in ApDeciders |-> IF d = CHOOSE e \in ApDeciders : TRUE THEN "APPROVED" ELSE "REJECTED"]

\* A caller that tries twice, a chain within the depth limit, one beyond it,
\* and one that would call itself.
Call(to, tries) == [to |-> to, tries |-> tries]
MCSwCallGraphs == {
  [a |-> Call("b", 2), b |-> Call("leaf", 1)],
  [a |-> Call("b", 1), b |-> Call("c", 1), c |-> Call("leaf", 1)],
  [a |-> Call("b", 1), b |-> Call("c", 1), c |-> Call("d", 1), d |-> Call("leaf", 1)],
  [a |-> Call("b", 1), b |-> Call("a", 1)] }

\* Triggers that set each other off, and one that sets off itself.
On(type, emits) == [on |-> type, emits |-> emits]
MCEcTriggerSets == {{On("DONE", {"DONE", "STORED"}), On("STORED", {"DONE"})}, {On("DONE", {"ASKED", "DONE"})}}

\* Three starts with one key, one of them with another body; and two retries
\* with one key beside a replay without.
Ask(kind, key, body) == [kind |-> kind, key |-> key, body |-> body]
MCSrCallSets == {
  "p" :> Ask("MANUAL", "k", 1) @@ "q" :> Ask("MANUAL", "k", 1) @@ "r" :> Ask("MANUAL", "k", 2),
  "p" :> Ask("RETRY_FROM_FAILURE", "k", 1) @@ "q" :> Ask("RETRY_FROM_FAILURE", "k", 1) @@ "r" :> Ask("FULL_REPLAY", "none", 1) }

-----------------------------------------------------------------------------
(* The union                                                               *)

\* What is fixed of the initial state of a component that does not run.
Fixed(name, assignment) == IF part = name THEN TRUE ELSE assignment

MCInit ==
  /\ part \in Parts
  /\ Fixed("subworkflow", swCalls = CHOOSE g \in SwCallGraphs : TRUE)
  /\ Fixed("outbox", evValid = TRUE /\ evOn = {})
  /\ Fixed("notification", ntJobs = 0)
  /\ Fixed("schedule", scRow = [on |-> TRUE, deleted |-> FALSE, next |-> 1])
  /\ Fixed("chain", ecTriggers = CHOOSE t \in EcTriggerSets : Cardinality(t) = 1)
  /\ Fixed("start", srCalls = CHOOSE c \in SrCallSets : TRUE)
  /\ Fixed("ai", /\ aiAsk = CHOOSE a \in AiAsks : TRUE
                 /\ aiMax = 1
                 /\ aiWorld = [provider |-> "fake", key |-> FALSE, configured |-> FALSE, written |-> 1])
  /\ ApInit /\ SwInit /\ EvInit /\ NtInit /\ ScInit /\ EcInit /\ SrInit
  /\ IF part = "ai" THEN AiInit
     ELSE aiStep = "PENDING" /\ aiAttempt = 0 /\ aiRequests = [n \in 1..AiMaxAttempts |-> AiUnasked] /\ aiOutput = AiNone

\* The components that do not run stay as they are.
Kept(name, vars) == IF part = name THEN TRUE ELSE UNCHANGED vars
Others ==
  /\ UNCHANGED part
  /\ Kept("approval", apVars) /\ Kept("subworkflow", swVars) /\ Kept("outbox", evVars)
  /\ Kept("notification", ntVars) /\ Kept("schedule", scVars) /\ Kept("chain", ecVars)
  /\ Kept("start", srVars) /\ Kept("ai", aiVars)

MCNext ==
  \/ part = "approval" /\ ApNext /\ Others
  \/ part = "subworkflow" /\ SwNext /\ Others
  \/ part = "outbox" /\ EvNext /\ Others
  \/ part = "notification" /\ NtNext /\ Others
  \/ part = "schedule" /\ ScNext /\ Others
  \/ part = "chain" /\ EcNext /\ Others
  \/ part = "start" /\ SrNext /\ Others
  \/ part = "ai" /\ AiNext /\ Others

\* A component is fair in its own behaviours only.
MCFairness ==
  /\ \A w \in ApWorkers : WF_apVars(part = "approval" /\ ApWorker(w))
  /\ WF_apVars(part = "approval" /\ (ApEnqueueExpired \/ ApResume))
  /\ WF_apVars(part = "approval" /\ ApExpire)
  /\ WF_apVars(part = "approval" /\ ApStranded)
  /\ WF_apVars(part = "approval" /\ ApRecoverRunning)
  /\ WF_apVars(part = "approval" /\ ApRequeue)
  /\ \A e \in SwIds : /\ WF_swVars(part = "subworkflow" /\ e \in SwMade /\ SwRun(e))
                    /\ WF_swVars(part = "subworkflow" /\ e \in SwMade /\ SwGrowsLate(e))
                    /\ WF_swVars(part = "subworkflow" /\ e \in SwMade /\ SwRecheck(e))
                    /\ WF_swVars(part = "subworkflow" /\ SwCancelTree(e))
  /\ \A d \in EvDispatchers : WF_evVars(part = "outbox" /\ (EvClaim(d) \/ EvProcess(d)))
  /\ WF_evVars(part = "outbox" /\ EvBackoffOver)
  /\ WF_evVars(part = "outbox" /\ evRow.owner /= EvNobody /\ evPc[evRow.owner] = "idle" /\ EvLeaseOver)
  /\ \A w \in NtWorkers : WF_ntVars(part = "notification" /\ NtDeliver(w))
  /\ WF_ntVars(part = "notification" /\ NtGiveUp) /\ WF_ntVars(part = "notification" /\ NtRequeue) /\ WF_ntVars(part = "notification" /\ NtBackoffOver)
  /\ WF_ntVars(part = "notification" /\ ntRow.leased /\ ntPc[ntRow.owner] = "idle" /\ NtLeaseOver)
  /\ \A c \in ScCallers : WF_scVars(part = "schedule" /\ (ScTake(c) \/ ScRunDue(c)))
  /\ WF_scVars(part = "schedule" /\ ScFire) /\ WF_scVars(part = "schedule" /\ ScWork) /\ WF_scVars(part = "schedule" /\ (ScEditWrite \/ ScEditSync))
  /\ WF_aiVars(part = "ai" /\ AiStart) /\ WF_aiVars(part = "ai" /\ AiTimeout)

MCVars == <<part, apVars, swVars, evVars, ntVars, scVars, ecVars, srVars, aiVars>>

MCSpec == MCInit /\ [][MCNext]_MCVars /\ MCFairness

-----------------------------------------------------------------------------
(* Liveness properties that say what becomes of a component from its       *)
(* initial state on, for the behaviours in which it runs.                  *)

\* A parent never waits for ever: every execution of a tree of sub-workflows
\* ends, however wake-ups are lost, children hang until their timeout, or
\* workers die (SubWorkflow).
SwTreeEnds == <>[](part = "subworkflow" => SwAllEnded)

\* An event comes to rest, PROCESSED or DEAD, and a PROCESSED one leaves no
\* delivery PENDING but those EvAtRest excepts, whichever dispatchers die or
\* lose their lease (EventOutbox).
EvEventRests == <>[](part = "outbox" => EvAtRest)

\* Every notification request ends SENT or in the dead letters, whatever is
\* lost on the way (NotificationDelivery).
NtDeliveryEnds == <>[](part = "notification" => ntRow.status \in NtOver)

\* An AI step ends, whatever the service, the provider and the network do or
\* fail to do (AiSteps).
AiStepEnds == <>[](part = "ai" => AiEnded)

-----------------------------------------------------------------------------
(* What this instance checks of the components together.                   *)

\* Events and notifications: a delivery is materialized exactly with its
\* execution, a processed event has reached every trigger that was on, a dead
\* one was reported after its last attempt (EventOutbox); chains keep within
\* their limits (EventChain); and mail is sent within its attempts and said to
\* be sent only when it was (NotificationDelivery).
EventsInv ==
  /\ EvTypeOK /\ EvMaterializedIffExecution /\ EvProcessedReachesAll /\ EvDeadIsReported
  /\ EcTypeOK /\ EcWithinLimits
  /\ NtTypeOK /\ NtCallsBounded /\ NtSentIsTrue

\* Starts: a slot of a schedule starts one execution, which its key names, and
\* the repeatable job follows the row (ScheduledTrigger); requests with one key
\* start one execution and answer alike, and a dead letter is resolved only
\* with its retry (StartRequests).
StartsInv ==
  /\ ScTypeOK /\ ScOncePerSlot /\ ScKeyHasExecution /\ ScSchedulerFollowsRow
  /\ SrTypeOK /\ SrOnePerKey /\ SrAnswersAgree /\ SrLetterHasRetry

\* No service goes back on what it has settled: a decision is made once, an
\* ended execution and a request that is over stay so, a schedule moves on, and
\* a refused AI call is not repeated.
ServicesKeep ==
  [][ApDecidedOnce /\ SwEndedStays /\ NtOverStays /\ ScNextMovesOn /\ AiRefusalIsFinal]_MCVars

\* Every service comes to its end: a decided wait resumes, trees of executions,
\* events, notifications and AI steps end, and a due schedule is run.
ServicesEnd ==
  ApDecisionResumes /\ SwTreeEnds /\ EvEventRests /\ NtDeliveryEnds /\ ScDueIsRun /\ AiStepEnds
=============================================================================
