---------------------------- MODULE EventOutbox -----------------------------
(***************************************************************************)
(* The dispatch of one row of internal_events by several workers           *)
(* (EventDispatcherService): the claim with a lease, the notification      *)
(* requests and the deliveries made for it, one execution per delivery,    *)
(* and what happens on errors, crashes and leases that run out while their *)
(* dispatcher is still busy.  Event triggers are switched on and off       *)
(* meanwhile.  A dispatcher runs one batch at a time (dispatch, currentRun)*)
(***************************************************************************)
EXTENDS Naturals, FiniteSets

CONSTANTS
  EvDispatchers,  \* workers that run the dispatcher
  EvTriggers,     \* event triggers whose type and filters match the event
  EvMaxAttempts,  \* attempts after which a failing event is DEAD (10 in the code)
  EvMaxFaults,    \* bound on errors, crashes and leases that run out on a live dispatcher
  EvMaxToggles    \* bound on the times each trigger is switched

ASSUME EvConstants == EvMaxAttempts \in Nat \ {0} /\ EvMaxFaults \in Nat /\ EvMaxToggles \in Nat

VARIABLES
  evRow,       \* the internal_events row
  evValid,     \* whether its envelope is well formed (line 78)
  evOn,        \* triggers that are enabled and whose workflow has an active version
  evNotices,   \* notification requests created for the event
  evDelivery,  \* the internal_event_deliveries rows by trigger
  evExecs,     \* executions created, by trigger
  evReports,   \* EVENT_TRIGGER_FAILED events written for this one
  evPc, evSeen,\* where each dispatcher is and what it has read
  evFaults, evToggles

evVars == <<evRow, evValid, evOn, evNotices, evDelivery, evExecs, evReports, evPc, evSeen, evFaults, evToggles>>
evWorld == <<evValid, evOn, evToggles>>

EvOpen == {"PENDING", "PROCESSING"}
EvNobody == "nobody"
EvNothing == [matched |-> FALSE, on |-> {}, todo |-> {}]
EvPending == {t \in EvTriggers : evDelivery[t] = "PENDING"}

EvTypeOK ==
  /\ evRow \in [status : EvOpen \union {"PROCESSED", "DEAD"}, owner : EvDispatchers \union {EvNobody},
                attempts : 0 .. EvMaxAttempts, matched : BOOLEAN, due : BOOLEAN]
  /\ evValid \in BOOLEAN /\ evOn \subseteq EvTriggers
  /\ evNotices \in 0 .. 1 /\ evReports \in Nat
  /\ evDelivery \in [EvTriggers -> {"none", "PENDING", "MATERIALIZED", "SKIPPED"}]
  /\ evExecs \in [EvTriggers -> 0 .. 1]
  /\ evPc \in [EvDispatchers -> {"idle", "read", "find", "match", "list", "work", "finish", "failed", "rejected"}]
  /\ evSeen \in [EvDispatchers -> [matched : BOOLEAN, on : SUBSET EvTriggers, todo : SUBSET EvTriggers]]
  /\ evFaults \in 0 .. EvMaxFaults /\ evToggles \in [EvTriggers -> 0 .. EvMaxToggles]

EvInit ==
  /\ evRow = [status |-> "PENDING", owner |-> EvNobody, attempts |-> 0, matched |-> FALSE, due |-> TRUE]
  /\ evValid \in BOOLEAN /\ evOn \in SUBSET EvTriggers
  /\ evNotices = 0 /\ evReports = 0
  /\ evDelivery = [t \in EvTriggers |-> "none"] /\ evExecs = [t \in EvTriggers |-> 0]
  /\ evPc = [d \in EvDispatchers |-> "idle"] /\ evSeen = [d \in EvDispatchers |-> EvNothing]
  /\ evFaults = 0 /\ evToggles = [t \in EvTriggers |-> 0]

EvGo(d, pc) == evPc' = [evPc EXCEPT ![d] = pc]
EvFault == evFaults < EvMaxFaults /\ evFaults' = evFaults + 1
EvMore(n) == IF n < EvMaxAttempts THEN n + 1 ELSE n

-----------------------------------------------------------------------------

\* claim: one statement, FOR UPDATE SKIP LOCKED, over rows that are due and
\* whose lease is free or over.  attempts counts up to where fail looks at it.
EvClaim(d) ==
  /\ evPc[d] = "idle" /\ evRow.status \in EvOpen /\ evRow.due /\ evRow.owner = EvNobody
  /\ evRow' = [evRow EXCEPT !.status = "PROCESSING", !.owner = d, !.attempts = EvMore(@)]
  /\ EvGo(d, "read") /\ UNCHANGED <<evNotices, evDelivery, evExecs, evReports, evSeen, evFaults, evWorld>>

\* NotificationMaterializerService.materialize: the request is created once,
\* a second attempt finds the unique idempotency key taken.
EvNotify == evNotices' = 1

\* process: the row is read, an envelope that is not valid is a permanent
\* error; the notification requests come before the triggers.
EvRead(d) ==
  /\ evPc[d] = "read"
  /\ IF evValid
     THEN /\ EvNotify /\ evSeen' = [evSeen EXCEPT ![d].matched = evRow.matched]
          /\ EvGo(d, IF evRow.matched THEN "list" ELSE "find")
     ELSE EvGo(d, "rejected") /\ UNCHANGED <<evNotices, evSeen>>
  /\ UNCHANGED <<evRow, evDelivery, evExecs, evReports, evFaults, evWorld>>

\* The enabled triggers of this type whose filters match, as they are now.
EvFind(d) ==
  /\ evPc[d] = "find" /\ evSeen' = [evSeen EXCEPT ![d].on = evOn] /\ EvGo(d, "match")
  /\ UNCHANGED <<evRow, evNotices, evDelivery, evExecs, evReports, evFaults, evWorld>>

\* a variant: the rows are written before the transaction that marks them done
EvMatchMarksFirst(d) ==
  /\ evPc[d] = "match" /\ evRow' = [evRow EXCEPT !.matched = TRUE]
  /\ \/ evDelivery' = [t \in EvTriggers |-> IF t \in evSeen[d].on /\ evDelivery[t] = "none" THEN "PENDING" ELSE evDelivery[t]]
        /\ EvGo(d, "list") /\ UNCHANGED evFaults
     \/ EvFault /\ EvGo(d, "idle") /\ UNCHANGED evDelivery
  /\ UNCHANGED <<evNotices, evExecs, evReports, evSeen, evWorld>>

\* One transaction: a delivery for each of them (skipDuplicates) and
\* matchingCompletedAt.
EvMatch(d) ==
  /\ evPc[d] = "match"
  /\ evDelivery' = [t \in EvTriggers |-> IF t \in evSeen[d].on /\ evDelivery[t] = "none" THEN "PENDING" ELSE evDelivery[t]]
  /\ evRow' = [evRow EXCEPT !.matched = TRUE]
  /\ EvGo(d, "list") /\ UNCHANGED <<evNotices, evExecs, evReports, evSeen, evFaults, evWorld>>

\* The PENDING deliveries, with their trigger and workflow as they are now.
EvList(d) ==
  /\ evPc[d] = "list" /\ evSeen' = [evSeen EXCEPT ![d].todo = EvPending, ![d].on = evOn] /\ EvGo(d, "work")
  /\ UNCHANGED <<evRow, evNotices, evDelivery, evExecs, evReports, evFaults, evWorld>>

\* materialize: an inactive target is SKIPPED if still PENDING; else the
\* execution and MATERIALIZED in one transaction, and when eventDeliveryId is
\* taken the execution that is there is adopted.
EvDeliver(t, on) ==
  IF on THEN /\ evExecs' = [evExecs EXCEPT ![t] = 1]
             /\ evDelivery' = [evDelivery EXCEPT ![t] = IF @ = "PENDING" \/ evExecs[t] = 0 THEN "MATERIALIZED" ELSE @]
        ELSE /\ evDelivery' = [evDelivery EXCEPT ![t] = IF @ = "PENDING" THEN "SKIPPED" ELSE @]
             /\ UNCHANGED evExecs

\* The loop of process over the deliveries it has read.  An error of queue.add
\* is swallowed: the execution is QUEUED and the reconciler finds it.
EvMaterialize(d) ==
  /\ evPc[d] = "work"
  /\ \E t \in evSeen[d].todo :
       EvDeliver(t, t \in evSeen[d].on) /\ evSeen' = [evSeen EXCEPT ![d].todo = @ \ {t}]
  /\ UNCHANGED <<evRow, evNotices, evReports, evPc, evFaults, evWorld>>

\* The count of what is still PENDING; with some left the event stays
\* PROCESSING until its lease is over.
EvCount(d) ==
  /\ evPc[d] = "work" /\ evSeen[d].todo = {}
  /\ EvGo(d, IF EvPending = {} THEN "finish" ELSE "idle")
  /\ UNCHANGED <<evRow, evNotices, evDelivery, evExecs, evReports, evSeen, evFaults, evWorld>>

\* PROCESSED, by id: the row may belong to another dispatcher by now.
EvFinish(d) ==
  /\ evPc[d] = "finish"
  /\ evRow' = [evRow EXCEPT !.status = "PROCESSED", !.owner = EvNobody]
  /\ EvGo(d, "idle") /\ UNCHANGED <<evNotices, evDelivery, evExecs, evReports, evSeen, evFaults, evWorld>>

\* A statement of process throws.
EvThrows(d) ==
  /\ evPc[d] \notin {"idle", "failed", "rejected"} /\ EvFault /\ EvGo(d, "failed")
  /\ UNCHANGED <<evRow, evNotices, evDelivery, evExecs, evReports, evSeen, evWorld>>

\* dead: a permanent error or the last attempt.
EvDead(d) == evPc[d] = "rejected" \/ evRow.attempts >= EvMaxAttempts

\* fail: DEAD with a diagnostic event, or PENDING with a back-off; by id.
EvFail(d) ==
  /\ evPc[d] \in {"failed", "rejected"}
  /\ evRow' = [evRow EXCEPT !.status = IF EvDead(d) THEN "DEAD" ELSE "PENDING", !.due = EvDead(d), !.owner = EvNobody]
  /\ evReports' = evReports + IF EvDead(d) THEN 1 ELSE 0
  /\ EvGo(d, "idle") /\ UNCHANGED <<evNotices, evDelivery, evExecs, evSeen, evFaults, evWorld>>

EvCrash(d) ==
  /\ evPc[d] /= "idle" /\ EvFault /\ EvGo(d, "idle")
  /\ UNCHANGED <<evRow, evNotices, evDelivery, evExecs, evReports, evSeen, evWorld>>

-----------------------------------------------------------------------------
\* locked_until passes: of its own when the owner has gone, as a fault when
\* the owner is only slow (one lease covers a batch of 50 events).
EvLeaseOver ==
  /\ evRow.owner /= EvNobody
  /\ IF evPc[evRow.owner] = "idle" THEN UNCHANGED evFaults ELSE EvFault
  /\ evRow' = [evRow EXCEPT !.owner = EvNobody]
  /\ UNCHANGED <<evNotices, evDelivery, evExecs, evReports, evPc, evSeen, evWorld>>

\* next_attempt_at passes.
EvBackoffOver ==
  /\ ~evRow.due /\ evRow' = [evRow EXCEPT !.due = TRUE]
  /\ UNCHANGED <<evNotices, evDelivery, evExecs, evReports, evPc, evSeen, evFaults, evWorld>>

\* A user enables, disables or deletes a trigger, or pauses its workflow.
EvToggle ==
  /\ \E t \in EvTriggers : /\ evToggles[t] < EvMaxToggles /\ evToggles' = [evToggles EXCEPT ![t] = @ + 1]
                           /\ evOn' = IF t \in evOn THEN evOn \ {t} ELSE evOn \union {t}
  /\ UNCHANGED <<evRow, evValid, evNotices, evDelivery, evExecs, evReports, evPc, evSeen, evFaults>>

EvProcess(d) == \/ EvRead(d) \/ EvFind(d) \/ EvMatch(d) \/ EvList(d) \/ EvMaterialize(d) \/ EvCount(d) \/ EvFinish(d) \/ EvFail(d)

EvNext == \/ \E d \in EvDispatchers : EvClaim(d) \/ EvProcess(d) \/ EvThrows(d) \/ EvCrash(d)
          \/ EvLeaseOver \/ EvBackoffOver \/ EvToggle

\* startDispatch polls on a timer, a dispatcher that neither crashed nor threw
\* goes on, and time passes.
EvFairness ==
  /\ \A d \in EvDispatchers : WF_evVars(EvClaim(d) \/ EvProcess(d))
  /\ WF_evVars(EvBackoffOver)
  /\ WF_evVars(evRow.owner /= EvNobody /\ evPc[evRow.owner] = "idle" /\ EvLeaseOver)

EvSpec == EvInit /\ [][EvNext]_evVars /\ EvFairness

-----------------------------------------------------------------------------
(* Properties. *)

\* A delivery is MATERIALIZED exactly when it has its execution, whatever two
\* dispatchers that both hold the event write over each other (118, 128, 106).
EvMaterializedIffExecution == \A t \in EvTriggers : evDelivery[t] = "MATERIALIZED" <=> evExecs[t] = 1

\* A PROCESSED event has reached every trigger that was on all along: no
\* crash, error or lost lease between matching and finishing drops one (95).
EvProcessedReachesAll ==
  evRow.status = "PROCESSED" => \A t \in evOn : evToggles[t] = 0 => evExecs[t] = 1

\* An event is DEAD only with its EVENT_TRIGGER_FAILED written (143-147), and
\* not before a permanent error or its last attempt (136).
EvDeadIsReported == evRow.status = "DEAD" => evReports > 0 /\ (evValid => evRow.attempts = EvMaxAttempts)

\* The event is PROCESSED or DEAD, and a PROCESSED one has left no delivery
\* PENDING, save those of triggers switched on while two dispatchers held the
\* event (the second run of dispatch creates a row that the first never sees).
EvAtRest ==
  /\ evRow.status \in {"PROCESSED", "DEAD"}
  /\ evRow.status = "PROCESSED" => \A t \in EvPending : evToggles[t] > 0

=============================================================================
