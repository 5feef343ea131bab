--------------------------- MODULE DeliveryProofs ---------------------------
(***************************************************************************)
(* The safety of what the system sends out, for every value of the         *)
(* constants: the outbox of internal events (EventOutbox), the delivery of *)
(* notifications (NotificationDelivery) and the chains that events make    *)
(* (EventChain).                                                           *)
(***************************************************************************)
EXTENDS EventOutbox, NotificationDelivery, EventChain, FiniteSetTheorems, WellFoundedInduction, TLAPS

-----------------------------------------------------------------------------
(***************************************************************************)
(* EventOutbox, for any number of dispatchers, triggers, attempts, faults  *)
(* and switches.  What makes EvProcessedReachesAll hold is Steady: a       *)
(* trigger that was on all along is in everything that a dispatcher has    *)
(* read, so its delivery is there once matching is marked done, is never   *)
(* SKIPPED, and is MATERIALIZED when nothing is PENDING.                   *)
(***************************************************************************)

\* The triggers that were on when the event was written and never switched.
Steady == {t \in evOn : evToggles[t] = 0}

\* What a dispatcher has read of the triggers includes the steady ones.
ReadsSteady == \A d \in EvDispatchers : evPc[d] \in {"match", "work"} => Steady \subseteq evSeen[d].on

\* Matching is done from the read of the deliveries on.
MatchedFirst == \A d \in EvDispatchers : evPc[d] \in {"list", "work"} => evRow.matched

\* The delivery of a steady trigger: there after matching, never given up.
SteadyDelivered ==
  \A t \in Steady : /\ evDelivery[t] /= "SKIPPED"
                    /\ evRow.matched => evDelivery[t] /= "none"

\* Nothing is left of the steady triggers where the event is about to be, or
\* is, PROCESSED.
SteadyDone ==
  ((\E d \in EvDispatchers : evPc[d] = "finish") \/ evRow.status = "PROCESSED") =>
     \A t \in Steady : evDelivery[t] = "MATERIALIZED"

\* Only an envelope that is not valid is rejected.
RejectedIsInvalid == \A d \in EvDispatchers : evPc[d] = "rejected" => ~evValid

OutboxInv ==
  /\ EvTypeOK /\ EvMaterializedIffExecution /\ EvDeadIsReported
  /\ ReadsSteady /\ MatchedFirst /\ SteadyDelivered /\ SteadyDone /\ RejectedIsInvalid

(* The invariant says what the properties say.                             *)
LEMMA OutboxInvSuffices == OutboxInv => EvProcessedReachesAll
  BY DEF OutboxInv, EvProcessedReachesAll, SteadyDone, Steady, EvMaterializedIffExecution, EvTypeOK

LEMMA OutboxInit == EvInit => OutboxInv
  BY EvConstants DEF EvInit, OutboxInv, EvTypeOK, EvMaterializedIffExecution, EvDeadIsReported, ReadsSteady,
     MatchedFirst, SteadyDelivered, SteadyDone, RejectedIsInvalid, Steady, EvNothing, EvOpen, EvNobody

\* The rows, by variable.
RowType == [status : EvOpen \union {"PROCESSED", "DEAD"}, owner : EvDispatchers \union {EvNobody},
            attempts : 0 .. EvMaxAttempts, matched : BOOLEAN, due : BOOLEAN]
SeenType == [matched : BOOLEAN, on : SUBSET EvTriggers, todo : SUBSET EvTriggers]
Places == {"idle", "read", "find", "match", "list", "work", "finish", "failed", "rejected"}
Deliveries == {"none", "PENDING", "MATERIALIZED", "SKIPPED"}

(* The statements that write the event's row.                              *)
LEMMA RowWriters ==
  ASSUME [EvNext]_evVars
  PROVE  \/ evRow' = evRow /\ evReports' = evReports
         \/ \E d \in EvDispatchers : EvClaim(d) \/ EvMatch(d) \/ EvFinish(d) \/ EvFail(d)
         \/ EvLeaseOver \/ EvBackoffOver
  BY DEF EvNext, EvProcess, EvRead, EvFind, EvList, EvMaterialize, EvCount, EvThrows, EvCrash, EvToggle, evVars

(* The statements that write deliveries and executions.                    *)
LEMMA DeliveryWriters ==
  ASSUME [EvNext]_evVars
  PROVE  \/ evDelivery' = evDelivery /\ evExecs' = evExecs
         \/ \E d \in EvDispatchers : EvMatch(d) \/ EvMaterialize(d)
  BY DEF EvNext, EvProcess, EvClaim, EvRead, EvFind, EvList, EvCount, EvFinish, EvFail, EvThrows, EvCrash,
     EvLeaseOver, EvBackoffOver, EvToggle, evVars

(* A step of the dispatch leaves the triggers alone.                       *)
LEMMA WorldWriters ==
  ASSUME [EvNext]_evVars
  PROVE  UNCHANGED evWorld \/ EvToggle
  BY DEF EvNext, EvProcess, EvClaim, EvRead, EvFind, EvMatch, EvList, EvMaterialize, EvCount, EvFinish, EvFail,
     EvThrows, EvCrash, EvLeaseOver, EvBackoffOver, evVars, evWorld

(* Faults are counted up to their bound, requests are made once.           *)
LEMMA CounterWriters ==
  ASSUME [EvNext]_evVars
  PROVE  /\ evNotices' = evNotices \/ evNotices' = 1
         /\ evFaults' = evFaults \/ EvFault
         /\ evReports' = evReports \/ evReports' = evReports + 1 \/ evReports' = evReports + 0
  BY DEF EvNext, EvProcess, EvClaim, EvRead, EvNotify, EvFind, EvMatch, EvList, EvMaterialize, EvCount, EvFinish, EvFail,
     EvThrows, EvCrash, EvLeaseOver, EvBackoffOver, EvToggle, evVars

(* A dispatcher moves by its own actions, and by nobody else's reads.      *)
LEMMA OwnMoves ==
  ASSUME evPc \in [EvDispatchers -> Places], evSeen \in [EvDispatchers -> SeenType], [EvNext]_evVars, NEW d \in EvDispatchers
  PROVE  \/ evPc'[d] = evPc[d] /\ evSeen'[d] = evSeen[d]
         \/ EvClaim(d) \/ EvProcess(d) \/ EvThrows(d) \/ EvCrash(d)
  <1> SUFFICES ASSUME ~(EvClaim(d) \/ EvProcess(d) \/ EvThrows(d) \/ EvCrash(d))
               PROVE  evPc'[d] = evPc[d] /\ evSeen'[d] = evSeen[d]
     OBVIOUS
  <1>1. ASSUME NEW e \in EvDispatchers, e /= d, EvClaim(e) \/ EvThrows(e) \/ EvCrash(e)
        PROVE  evPc'[d] = evPc[d] /\ evSeen'[d] = evSeen[d]
     BY <1>1 DEF EvClaim, EvThrows, EvCrash, EvGo
  <1>2. ASSUME NEW e \in EvDispatchers, e /= d, EvProcess(e)
        PROVE  evPc'[d] = evPc[d] /\ evSeen'[d] = evSeen[d]
     BY <1>2 DEF EvProcess, EvRead, EvFind, EvMatch, EvList, EvMaterialize, EvCount, EvFinish, EvFail, EvGo
  <1> QED
     BY <1>1, <1>2 DEF EvNext, EvLeaseOver, EvBackoffOver, EvToggle, evVars

(* Where each action takes its dispatcher.                                 *)
LEMMA Moves ==
  ASSUME EvTypeOK, [EvNext]_evVars, NEW d \in EvDispatchers
  PROVE  /\ evPc'[d] = "match" => (evPc[d] = "match" /\ evSeen'[d].on = evSeen[d].on) \/ EvFind(d)
         /\ evPc'[d] = "list" => evPc[d] = "list" \/ EvMatch(d) \/ (EvRead(d) /\ evRow.matched)
         /\ evPc'[d] = "work" => (evPc[d] = "work" /\ evSeen'[d].on = evSeen[d].on) \/ EvList(d)
         /\ evPc'[d] = "finish" => evPc[d] = "finish" \/ (EvCount(d) /\ EvPending = {})
         /\ evPc'[d] = "rejected" => evPc[d] = "rejected" \/ ~evValid
  <1> evPc \in [EvDispatchers -> Places] /\ evSeen \in [EvDispatchers -> SeenType]
     BY DEF EvTypeOK, Places, SeenType
  <1>1. CASE evPc'[d] = evPc[d] /\ evSeen'[d] = evSeen[d]
     BY <1>1
  <1>2. CASE EvClaim(d) \/ EvThrows(d) \/ EvCrash(d) \/ EvFinish(d) \/ EvFail(d)
     BY <1>2 DEF EvClaim, EvThrows, EvCrash, EvFinish, EvFail, EvGo
  <1>3. CASE EvRead(d)
     BY <1>3 DEF EvRead, EvGo
  <1>4. CASE EvFind(d) \/ EvMatch(d) \/ EvList(d) \/ EvCount(d)
     BY <1>4 DEF EvFind, EvMatch, EvList, EvCount, EvGo
  <1>5. CASE EvMaterialize(d)
     BY <1>5 DEF EvMaterialize, SeenType
  <1> QED
     BY <1>1, <1>2, <1>3, <1>4, <1>5, OwnMoves DEF EvProcess

(* Every step keeps the row's type.                                        *)
LEMMA RowTyped ==
  ASSUME evRow \in RowType, [EvNext]_evVars PROVE evRow' \in RowType
  <1>1. ASSUME NEW d \in EvDispatchers, EvClaim(d) PROVE evRow' \in RowType
    <2>1. EvMore(evRow.attempts) \in 0 .. EvMaxAttempts
       BY EvConstants DEF EvMore, RowType
    <2> QED
       BY <1>1, <2>1 DEF EvClaim, RowType, EvOpen
  <1>2. ASSUME NEW d \in EvDispatchers, EvMatch(d) \/ EvFinish(d) PROVE evRow' \in RowType
     BY <1>2 DEF EvMatch, EvFinish, RowType
  <1>3. ASSUME NEW d \in EvDispatchers, EvFail(d) PROVE evRow' \in RowType
    <2> DEFINE st == IF EvDead(d) THEN "DEAD" ELSE "PENDING"
    <2>1. PICK b \in BOOLEAN : evRow' = [evRow EXCEPT !.status = st, !.due = b, !.owner = EvNobody]
      <3>1. EvDead(d) \in BOOLEAN
         BY DEF EvDead
      <3> QED
         BY <1>3, <3>1 DEF EvFail
    <2>2. st \in EvOpen \union {"PROCESSED", "DEAD"}
       BY DEF EvOpen
    <2> HIDE DEF st
    <2> QED
       BY <2>1, <2>2 DEF RowType
  <1>4. ASSUME EvLeaseOver \/ EvBackoffOver PROVE evRow' \in RowType
     BY <1>4 DEF EvLeaseOver, EvBackoffOver, RowType
  <1> QED
     BY <1>1, <1>2, <1>3, <1>4, RowWriters

(* Every step keeps the types.                                             *)
LEMMA OutboxTypes ==
  ASSUME EvTypeOK, [EvNext]_evVars PROVE EvTypeOK'
  <1>1. evRow' \in RowType
     BY RowTyped DEF EvTypeOK, RowType
  <1>2. evValid' \in BOOLEAN /\ evOn' \subseteq EvTriggers /\ evToggles' \in [EvTriggers -> 0 .. EvMaxToggles]
    <2>1. CASE UNCHANGED evWorld
       BY <2>1 DEF evWorld, EvTypeOK
    <2>2. CASE EvToggle
      <3>1. PICK t \in EvTriggers : /\ evToggles[t] < EvMaxToggles /\ evToggles' = [evToggles EXCEPT ![t] = @ + 1]
                                    /\ evOn' = IF t \in evOn THEN evOn \ {t} ELSE evOn \union {t}
         BY <2>2 DEF EvToggle
      <3>2. evToggles' \in [EvTriggers -> 0 .. EvMaxToggles]
         BY <3>1, EvConstants DEF EvTypeOK
      <3> QED
         BY <2>2, <3>1, <3>2 DEF EvToggle, EvTypeOK
    <2> QED
       BY <2>1, <2>2, WorldWriters
  <1>3. evNotices' \in 0 .. 1 /\ evReports' \in Nat /\ evFaults' \in 0 .. EvMaxFaults
    <2> evNotices \in 0 .. 1 /\ evReports \in Nat /\ evFaults \in 0 .. EvMaxFaults
       BY DEF EvTypeOK
    <2>3. evFaults' \in 0 .. EvMaxFaults
       BY CounterWriters, EvConstants DEF EvFault
    <2> QED
       BY <2>3, CounterWriters
  <1>4. evDelivery' \in [EvTriggers -> Deliveries] /\ evExecs' \in [EvTriggers -> 0 .. 1]
    <2> evDelivery \in [EvTriggers -> Deliveries] /\ evExecs \in [EvTriggers -> 0 .. 1]
       BY DEF EvTypeOK, Deliveries
    <2>1. ASSUME NEW d \in EvDispatchers, EvMatch(d)
          PROVE  evDelivery' \in [EvTriggers -> Deliveries] /\ evExecs' \in [EvTriggers -> 0 .. 1]
       BY <2>1 DEF EvMatch, Deliveries
    <2>2. ASSUME NEW d \in EvDispatchers, EvMaterialize(d)
          PROVE  evDelivery' \in [EvTriggers -> Deliveries] /\ evExecs' \in [EvTriggers -> 0 .. 1]
       BY <2>2 DEF EvMaterialize, EvDeliver, Deliveries
    <2> QED
       BY <2>1, <2>2, DeliveryWriters
  <1>5. evPc' \in [EvDispatchers -> Places]
    <2> evPc \in [EvDispatchers -> Places]
       BY DEF EvTypeOK, Places
    <2> QED
       BY DEF EvNext, EvProcess, EvClaim, EvRead, EvFind, EvMatch, EvList, EvMaterialize, EvCount, EvFinish, EvFail,
          EvThrows, EvCrash, EvGo, EvLeaseOver, EvBackoffOver, EvToggle, evVars, Places
  <1>6. evSeen' \in [EvDispatchers -> SeenType]
    <2> evSeen \in [EvDispatchers -> SeenType] /\ evRow \in RowType /\ evOn \subseteq EvTriggers
       BY DEF EvTypeOK, SeenType, RowType
    <2>1. ASSUME NEW d \in EvDispatchers, EvRead(d) PROVE evSeen' \in [EvDispatchers -> SeenType]
      <3>1. evRow.matched \in BOOLEAN
         BY DEF RowType
      <3> QED
         BY <2>1, <3>1 DEF EvRead, SeenType
    <2>2. ASSUME NEW d \in EvDispatchers, EvFind(d) PROVE evSeen' \in [EvDispatchers -> SeenType]
       BY <2>2 DEF EvFind, SeenType
    <2>3. ASSUME NEW d \in EvDispatchers, EvList(d) PROVE evSeen' \in [EvDispatchers -> SeenType]
      <3>1. EvPending \subseteq EvTriggers
         BY DEF EvPending
      <3> QED
         BY <2>3, <3>1 DEF EvList, SeenType
    <2>4. ASSUME NEW d \in EvDispatchers, EvMaterialize(d) PROVE evSeen' \in [EvDispatchers -> SeenType]
       BY <2>4 DEF EvMaterialize, SeenType
    <2> QED
       BY <2>1, <2>2, <2>3, <2>4 DEF EvNext, EvProcess, EvClaim, EvMatch, EvCount, EvFinish, EvFail, EvThrows, EvCrash,
          EvLeaseOver, EvBackoffOver, EvToggle, evVars
  <1> QED
     BY <1>1, <1>2, <1>3, <1>4, <1>5, <1>6 DEF EvTypeOK, RowType, SeenType, Places, Deliveries

(* A delivery is MATERIALIZED exactly when it has its execution.           *)
LEMMA MaterializedNext ==
  ASSUME EvTypeOK, EvMaterializedIffExecution, [EvNext]_evVars PROVE EvMaterializedIffExecution'
  <1> USE DEF EvTypeOK, EvMaterializedIffExecution
  <1>1. ASSUME NEW d \in EvDispatchers, EvMatch(d) PROVE EvMaterializedIffExecution'
     BY <1>1 DEF EvMatch
  <1>2. ASSUME NEW d \in EvDispatchers, EvMaterialize(d) PROVE EvMaterializedIffExecution'
     BY <1>2 DEF EvMaterialize, EvDeliver
  <1> QED
     BY <1>1, <1>2, DeliveryWriters

(* A steady trigger was steady before.                                     *)
LEMMA SteadyWas ==
  ASSUME EvTypeOK, [EvNext]_evVars PROVE Steady' \subseteq Steady
  BY WorldWriters DEF EvTypeOK, EvToggle, evWorld, Steady

(* An execution and its delivery stay as they are.                         *)
LEMMA MaterializedStays ==
  ASSUME EvTypeOK, [EvNext]_evVars, NEW t \in EvTriggers, evDelivery[t] = "MATERIALIZED"
  PROVE  evDelivery'[t] = "MATERIALIZED"
  <1> USE DEF EvTypeOK
  <1>1. ASSUME NEW d \in EvDispatchers, EvMatch(d) PROVE evDelivery'[t] = "MATERIALIZED"
     BY <1>1 DEF EvMatch
  <1>2. ASSUME NEW d \in EvDispatchers, EvMaterialize(d) PROVE evDelivery'[t] = "MATERIALIZED"
     BY <1>2 DEF EvMaterialize, EvDeliver
  <1> QED
     BY <1>1, <1>2, DeliveryWriters

(* Matching is marked once and for all.                                    *)
LEMMA MatchedStays ==
  ASSUME EvTypeOK, [EvNext]_evVars
  PROVE  /\ evRow.matched => evRow'.matched
         /\ evRow'.matched => evRow.matched \/ \E d \in EvDispatchers : EvMatch(d)
  <1> evRow \in RowType
     BY DEF EvTypeOK, RowType
  <1> DEFINE Kept == evRow'.matched = evRow.matched
  <1>1. ASSUME NEW d \in EvDispatchers, EvClaim(d) \/ EvFinish(d) PROVE Kept
     BY <1>1 DEF EvClaim, EvFinish, RowType
  <1>2. ASSUME NEW d \in EvDispatchers, EvFail(d) PROVE Kept
     BY <1>2 DEF EvFail, RowType
  <1>3. ASSUME EvLeaseOver \/ EvBackoffOver PROVE Kept
     BY <1>3 DEF EvLeaseOver, EvBackoffOver, RowType
  <1>4. ASSUME NEW d \in EvDispatchers, EvMatch(d) PROVE evRow'.matched
     BY <1>4 DEF EvMatch, RowType
  <1>5. Kept \/ \E d \in EvDispatchers : EvMatch(d)
     BY <1>1, <1>2, <1>3, RowWriters
  <1> QED
     BY <1>4, <1>5

(* What a dispatcher has read of the triggers includes the steady ones.    *)
LEMMA ReadsNext ==
  ASSUME EvTypeOK, ReadsSteady, [EvNext]_evVars PROVE ReadsSteady'
  <1> SUFFICES ASSUME NEW d \in EvDispatchers, evPc'[d] \in {"match", "work"} PROVE Steady' \subseteq evSeen'[d].on
     BY DEF ReadsSteady
  <1>1. CASE EvFind(d) \/ EvList(d)
    <2>1. evSeen'[d].on = evOn
       BY <1>1 DEF EvFind, EvList, EvTypeOK
    <2> QED
       BY <2>1, SteadyWas DEF Steady
  <1>2. CASE ~(EvFind(d) \/ EvList(d))
    <2>1. evPc[d] \in {"match", "work"} /\ evSeen'[d].on = evSeen[d].on
       BY <1>2, Moves
    <2> QED
       BY <2>1, SteadyWas DEF ReadsSteady
  <1> QED
     BY <1>1, <1>2

(* Matching is done from the read of the deliveries on.                    *)
LEMMA MatchedNext ==
  ASSUME EvTypeOK, MatchedFirst, [EvNext]_evVars PROVE MatchedFirst'
  <1> SUFFICES ASSUME NEW d \in EvDispatchers, evPc'[d] \in {"list", "work"} PROVE evRow'.matched
     BY DEF MatchedFirst
  <1>1. evPc[d] \in {"list", "work"} \/ EvMatch(d) \/ (EvRead(d) /\ evRow.matched)
    <2>1. CASE evPc'[d] = "list"
       BY <2>1, Moves, Zenon
    <2>2. CASE evPc'[d] = "work"
      <3>1. ASSUME EvList(d) PROVE evPc[d] = "list"
         BY <3>1 DEF EvList
      <3> QED
         BY <2>2, <3>1, Moves, Zenon
    <2> QED
       BY <2>1, <2>2
  <1>2. ASSUME EvMatch(d) PROVE evRow'.matched
     BY <1>2 DEF EvMatch, EvTypeOK
  <1> QED
     BY <1>1, <1>2, MatchedStays DEF MatchedFirst

(* The delivery of a steady trigger: there after matching, never given up. *)
LEMMA DeliveredNext ==
  ASSUME OutboxInv, [EvNext]_evVars PROVE SteadyDelivered'
  <1> EvTypeOK /\ ReadsSteady /\ SteadyDelivered /\ EvMaterializedIffExecution
     BY DEF OutboxInv
  <1> SUFFICES ASSUME NEW t \in Steady'
               PROVE  evDelivery'[t] /= "SKIPPED" /\ (evRow'.matched => evDelivery'[t] /= "none")
     BY DEF SteadyDelivered
  <1>0. t \in Steady /\ t \in EvTriggers /\ evDelivery[t] /= "SKIPPED" /\ (evRow.matched => evDelivery[t] /= "none")
     BY SteadyWas DEF SteadyDelivered, Steady, EvTypeOK
  <1>1. ASSUME NEW d \in EvDispatchers, EvMatch(d) PROVE evDelivery'[t] \notin {"SKIPPED", "none"}
    <2>1. t \in evSeen[d].on
       BY <1>0, <1>1 DEF EvMatch, ReadsSteady
    <2> QED
       BY <1>0, <1>1, <2>1 DEF EvMatch
  <1>2. ASSUME NEW d \in EvDispatchers, EvMaterialize(d)
        PROVE  evDelivery'[t] /= "SKIPPED" /\ (evRow'.matched => evDelivery'[t] /= "none")
    <2>1. evRow' = evRow /\ t \in evSeen[d].on
       BY <1>0, <1>2 DEF EvMaterialize, ReadsSteady
    <2>2. PICK u \in evSeen[d].todo : EvDeliver(u, u \in evSeen[d].on)
       BY <1>2 DEF EvMaterialize
    <2>3. evDelivery'[t] = evDelivery[t] \/ evDelivery'[t] = "MATERIALIZED"
       BY <1>0, <2>1, <2>2 DEF EvDeliver, EvTypeOK
    <2> QED
       BY <1>0, <2>1, <2>3
  <1>3. CASE evDelivery' = evDelivery /\ ~\E d \in EvDispatchers : EvMatch(d)
     BY <1>0, <1>3, MatchedStays
  <1> QED
     BY <1>1, <1>2, <1>3, DeliveryWriters

(* Nothing is left of the steady triggers where the event is PROCESSED, or *)
(* about to be.                                                            *)
LEMMA DoneNext ==
  ASSUME OutboxInv, [EvNext]_evVars PROVE SteadyDone'
  <1> EvTypeOK /\ MatchedFirst /\ SteadyDelivered /\ SteadyDone
     BY DEF OutboxInv
  <1> SUFFICES ASSUME (\E d \in EvDispatchers : evPc'[d] = "finish") \/ evRow'.status = "PROCESSED", NEW t \in Steady'
               PROVE  evDelivery'[t] = "MATERIALIZED"
     BY DEF SteadyDone
  <1>0. t \in Steady /\ t \in EvTriggers
     BY SteadyWas DEF Steady, EvTypeOK
  <1>1. CASE (\E d \in EvDispatchers : evPc[d] = "finish") \/ evRow.status = "PROCESSED"
     BY <1>0, <1>1, MaterializedStays DEF SteadyDone
  <1>2. CASE ~((\E d \in EvDispatchers : evPc[d] = "finish") \/ evRow.status = "PROCESSED")
    <2>1. evRow'.status /= "PROCESSED"
      <3> evRow \in RowType /\ evRow.status /= "PROCESSED"
         BY <1>2 DEF EvTypeOK, RowType
      <3>1. ASSUME NEW d \in EvDispatchers, EvClaim(d) \/ EvMatch(d) PROVE evRow'.status /= "PROCESSED"
         BY <3>1 DEF EvClaim, EvMatch, RowType
      <3>2. ASSUME NEW d \in EvDispatchers, EvFail(d) PROVE evRow'.status /= "PROCESSED"
         BY <3>2 DEF EvFail, RowType
      <3>3. ASSUME EvLeaseOver \/ EvBackoffOver PROVE evRow'.status /= "PROCESSED"
         BY <3>3 DEF EvLeaseOver, EvBackoffOver, RowType
      <3>4. ~\E d \in EvDispatchers : EvFinish(d)
         BY <1>2 DEF EvFinish
      <3> QED
         BY <3>1, <3>2, <3>3, <3>4, RowWriters
    <2>2. PICK d \in EvDispatchers : evPc'[d] = "finish"
       BY <2>1
    <2>3. EvCount(d) /\ EvPending = {}
       BY <1>2, <2>2, Moves
    <2>4. evRow.matched /\ evDelivery' = evDelivery /\ evDelivery[t] /= "PENDING"
       BY <1>0, <2>3 DEF EvCount, MatchedFirst, EvPending
    <2> QED
       BY <1>0, <2>4 DEF SteadyDelivered, EvTypeOK
  <1> QED
     BY <1>1, <1>2

(* Only an envelope that is not valid is rejected, and a DEAD event has    *)
(* been reported.                                                          *)
LEMMA DeadNext ==
  ASSUME EvTypeOK, RejectedIsInvalid, EvDeadIsReported, [EvNext]_evVars
  PROVE  RejectedIsInvalid' /\ EvDeadIsReported'
  <1>1. evValid' = evValid
     BY WorldWriters DEF evWorld, EvToggle
  <1>2. RejectedIsInvalid'
    <2> SUFFICES ASSUME NEW d \in EvDispatchers, evPc'[d] = "rejected" PROVE ~evValid
       BY <1>1 DEF RejectedIsInvalid
    <2>1. evPc[d] = "rejected" \/ ~evValid
       BY Moves
    <2> QED
       BY <2>1 DEF RejectedIsInvalid
  <1>3. ASSUME NEW d \in EvDispatchers, EvFail(d) PROVE EvDeadIsReported'
    <2>1. CASE EvDead(d)
      <3>1. evReports' = evReports + 1 /\ evRow'.attempts = evRow.attempts
         BY <1>3, <2>1 DEF EvFail, EvTypeOK
      <3>2. evValid => evRow.attempts = EvMaxAttempts
        <4>1. evRow.attempts \in 0 .. EvMaxAttempts
           BY DEF EvTypeOK
        <4>2. evRow.attempts >= EvMaxAttempts => evRow.attempts = EvMaxAttempts
           BY <4>1, EvConstants
        <4> QED
           BY <2>1, <4>2 DEF EvDead, RejectedIsInvalid
      <3> QED
         BY <1>1, <3>1, <3>2 DEF EvDeadIsReported, EvTypeOK
    <2>2. CASE ~EvDead(d)
       BY <1>3, <2>2 DEF EvFail, EvTypeOK, EvDeadIsReported
    <2> QED
       BY <2>1, <2>2
  <1>4. ASSUME ~\E d \in EvDispatchers : EvFail(d) PROVE EvDeadIsReported'
    <2>1. evRow'.status = "DEAD" => evRow.status = "DEAD" /\ evRow'.attempts = evRow.attempts /\ evReports' = evReports
      <3> evRow \in RowType
         BY DEF EvTypeOK, RowType
      <3> DEFINE Kept == evRow.status = "DEAD" /\ evRow'.attempts = evRow.attempts /\ evReports' = evReports
      <3>1. ASSUME NEW d \in EvDispatchers, EvClaim(d) \/ EvMatch(d) \/ EvFinish(d), evRow'.status = "DEAD" PROVE Kept
         BY <3>1 DEF EvClaim, EvMatch, EvFinish, RowType
      <3>2. ASSUME EvLeaseOver \/ EvBackoffOver, evRow'.status = "DEAD" PROVE Kept
         BY <3>2 DEF EvLeaseOver, EvBackoffOver, RowType
      <3> QED
         BY <1>4, <3>1, <3>2, RowWriters
    <2> QED
       BY <1>1, <2>1 DEF EvDeadIsReported
  <1> QED
     BY <1>2, <1>3, <1>4

LEMMA OutboxNext == OutboxInv /\ [EvNext]_evVars => OutboxInv'
  BY OutboxTypes, MaterializedNext, ReadsNext, MatchedNext, DeliveredNext, DoneNext, DeadNext DEF OutboxInv

(* Whatever crashes, errors, leases that run out on a busy dispatcher and  *)
(* switched triggers do, with any number of dispatchers and triggers: rows *)
(* and dispatchers are well formed, with attempts within their limit; a    *)
(* delivery is MATERIALIZED exactly when it has its execution, a PROCESSED *)
(* event has reached every trigger that was on all along, and a DEAD one   *)
(* has been reported (EventDispatcherService.process, materialize, fail).  *)
THEOREM OutboxDelivers == EvSpec => [](EvTypeOK /\ EvMaterializedIffExecution /\ EvProcessedReachesAll /\ EvDeadIsReported)
  <1>1. EvSpec => []OutboxInv
     BY OutboxInit, OutboxNext, PTL DEF EvSpec
  <1>2. OutboxInv => EvTypeOK /\ EvMaterializedIffExecution /\ EvProcessedReachesAll /\ EvDeadIsReported
     BY OutboxInvSuffices DEF OutboxInv
  <1> QED
     BY <1>1, <1>2, PTL

-----------------------------------------------------------------------------
(***************************************************************************)
(* NotificationDelivery, for any finite number of workers and any limits.  *)
(* The bound on calls is a count over the workers: each call was counted as *)
(* an attempt before it was made (NtCounted), a claim is open only below   *)
(* the limit, and every worker that is in a delivery without the lease is  *)
(* there because of a crash or a lease that ran out (NtStragglers,         *)
(* NtBudget).                                                              *)
(***************************************************************************)

\* A worker in a delivery holds the lease, unless one has run out under a worker.
NtOwns == ~ntLate => \A w \in NtWorkers : ntPc[w] /= "idle" => ntRow.owner = w /\ ntRow.status = "PROCESSING" /\ ntRow.leased

\* What is about to be recorded SENT was taken.
NtTaken == \A w \in NtWorkers : ntPc[w] = "sent" => ntAccepted > 0

\* The workers at a place of Q.
NtAt(Q) == {w \in NtWorkers : ntPc[w] \in Q}
NtCount(Q) == Cardinality(NtAt(Q))
NtBusy == {"prepare", "send", "sent", "failed", "rejected"}

NtLive == ntRow.status = "PROCESSING" /\ ntRow.leased /\ ntPc[ntRow.owner] /= "idle"
NtOpen == ntRow.status \notin NtOver /\ ~NtLive
NtOne(p) == IF p THEN 1 ELSE 0

\* Every call was counted as an attempt before it was made.
NtCounted == ntCalls + NtCount({"send"}) <= ntRow.attempts
\* A call that failed was made.
NtTried == \A w \in NtWorkers : ntPc[w] = "failed" => ntCalls > 0
\* Every worker in a delivery but the one with the lease is there for a fault.
NtStragglers == NtCount(NtBusy) <= ntFaults + NtOne(NtLive)
\* The attempts made, those that will be and the one a further claim would make.
NtBudget ==
  ntRow.attempts + NtCount({"prepare"}) + (IF ntRow.attempts = 0 THEN NtCount({"rejected"}) ELSE 0) + NtOne(NtOpen)
     <= NtMaxAttempts + ntFaults

NotificationInv == NtTypeOK /\ NtOwns /\ NtTaken /\ NtSentIsTrue /\ NtCounted /\ NtTried /\ NtStragglers /\ NtBudget

NtRowType == [status : {"PENDING", "PROCESSING", "FAILED"} \union NtOver, owner : NtWorkers \union {NtNobody},
              leased : BOOLEAN, due : BOOLEAN, attempts : Nat]
NtPlaces == {"idle"} \union NtBusy

(* A worker moves: how many are at a place of Q.                           *)
LEMMA NtCountGo ==
  ASSUME ntPc \in [NtWorkers -> NtPlaces], NEW w \in NtWorkers, NEW q \in NtPlaces, NtGo(w, q), NEW CONSTANT Q
  PROVE  /\ NtCount(Q) \in Nat /\ NtCount(Q)' \in Nat
         /\ ntPc[w] \in Q /\ q \notin Q => NtCount(Q)' = NtCount(Q) - 1
         /\ ntPc[w] \notin Q /\ q \in Q => NtCount(Q)' = NtCount(Q) + 1
         /\ (ntPc[w] \in Q <=> q \in Q) => NtCount(Q)' = NtCount(Q)
  <1> USE DEF NtCount
  <1>1. IsFiniteSet(NtAt(Q)) /\ IsFiniteSet(NtAt(Q)')
    <2>1. NtAt(Q) \subseteq NtWorkers /\ NtAt(Q)' \subseteq NtWorkers
       BY DEF NtAt
    <2> QED
       BY <2>1, NtConstants, FS_Subset
  <1>2. NtCount(Q) \in Nat /\ NtCount(Q)' \in Nat
     BY <1>1, FS_CardinalityType
  <1>3. CASE ntPc[w] \in Q /\ q \notin Q
    <2>1. NtAt(Q)' = NtAt(Q) \ {w} /\ w \in NtAt(Q)
       BY <1>3 DEF NtAt, NtGo
    <2> QED
       BY <1>1, <1>2, <1>3, <2>1, FS_RemoveElement
  <1>4. CASE ntPc[w] \notin Q /\ q \in Q
    <2>1. NtAt(Q)' = NtAt(Q) \union {w} /\ w \notin NtAt(Q)
       BY <1>4 DEF NtAt, NtGo
    <2> QED
       BY <1>1, <1>2, <1>4, <2>1, FS_AddElement
  <1>5. CASE ntPc[w] \in Q <=> q \in Q
    <2>1. NtAt(Q)' = NtAt(Q)
       BY <1>5 DEF NtAt, NtGo
    <2> QED
       BY <1>2, <1>5, <2>1
  <1> QED
     BY <1>2, <1>3, <1>4, <1>5

LEMMA NtCountStays ==
  ASSUME ntPc \in [NtWorkers -> NtPlaces], ntPc' = ntPc, NEW CONSTANT Q
  PROVE  NtCount(Q) \in Nat /\ NtCount(Q)' = NtCount(Q)
  <1>1. NtAt(Q) \subseteq NtWorkers /\ NtAt(Q)' = NtAt(Q)
     BY DEF NtAt
  <1>2. IsFiniteSet(NtAt(Q))
     BY <1>1, NtConstants, FS_Subset
  <1> QED
     BY <1>1, <1>2, FS_CardinalityType DEF NtCount

(* Every variable keeps its type.                                          *)
LEMMA NtTyped == NtTypeOK /\ [NtNext]_ntVars => NtTypeOK'
  <1> SUFFICES ASSUME NtTypeOK, [NtNext]_ntVars PROVE NtTypeOK'
     OBVIOUS
  <1>0. ntRow \in NtRowType /\ ntPc \in [NtWorkers -> NtPlaces]
     BY DEF NtTypeOK, NtRowType, NtPlaces, NtBusy
  <1>1. ntPc' \in [NtWorkers -> NtPlaces]
     BY <1>0 DEF NtNext, NtDeliver, NtClaim, NtPrepare, NtSend, NtRecordSent, NtFail, NtCrash, NtLeaseOver, NtBackoffOver, NtGiveUp,
        NtRequeue, NtGo, NtPlaces, NtBusy, ntVars
  <1>2. ntCalls' \in Nat /\ ntAccepted' \in 0 .. ntCalls'
    <2>1. UNCHANGED <<ntCalls, ntAccepted>> \/ \E w \in NtWorkers : NtSend(w)
       BY DEF NtNext, NtDeliver, NtClaim, NtPrepare, NtRecordSent, NtFail, NtCrash, NtLeaseOver, NtBackoffOver, NtGiveUp, NtRequeue, ntVars
    <2>2. ASSUME NEW w \in NtWorkers, NtSend(w)
          PROVE  ntCalls' = ntCalls + 1 /\ (ntAccepted' = ntAccepted \/ ntAccepted' = ntAccepted + 1)
       BY <2>2 DEF NtSend
    <2>3. ntCalls \in Nat /\ ntAccepted \in 0 .. ntCalls
       BY DEF NtTypeOK
    <2> QED
       BY <2>1, <2>2, <2>3
  <1>3. ntLate' \in BOOLEAN
     BY Zenon DEF NtTypeOK, NtNext, NtDeliver, NtClaim, NtPrepare, NtSend, NtRecordSent, NtFail, NtCrash, NtLeaseOver, NtBackoffOver,
        NtGiveUp, NtRequeue, ntVars
  <1>4. ntFaults' \in 0 .. NtMaxFaults
    <2>1. ntFaults' = ntFaults \/ NtFault
       BY DEF NtNext, NtDeliver, NtClaim, NtPrepare, NtSend, NtRecordSent, NtFail, NtCrash, NtLeaseOver, NtBackoffOver, NtGiveUp,
          NtRequeue, ntVars
    <2>2. ntFaults \in 0 .. NtMaxFaults
       BY DEF NtTypeOK
    <2> QED
       BY <2>1, <2>2, NtConstants DEF NtFault
  <1>5. ntJobs' \in 0 .. 2
    <2>1. ntJobs' = ntJobs \/ (ntJobs > 0 /\ ntJobs' = ntJobs - 1) \/ (ntJobs < 2 /\ ntJobs' = ntJobs + 1)
       BY DEF NtNext, NtDeliver, NtClaim, NtPrepare, NtSend, NtRecordSent, NtFail, NtCrash, NtLeaseOver, NtBackoffOver, NtGiveUp,
          NtRequeue, ntVars
    <2>2. ntJobs \in 0 .. 2
       BY DEF NtTypeOK
    <2> QED
       BY <2>1, <2>2
  <1>6. ntRow' \in NtRowType /\ (ntRow'.leased => ntRow'.owner /= NtNobody)
    <2>0. ntRow.leased => ntRow.owner /= NtNobody
       BY DEF NtTypeOK
    <2>1. \/ ntRow' = ntRow
          \/ \E w \in NtWorkers : NtClaim(w) /\ ntRow' /= ntRow
          \/ \E w \in NtWorkers : NtPrepare(w) /\ ntRow' /= ntRow
          \/ \E w \in NtWorkers : NtRecordSent(w) \/ NtFail(w)
          \/ NtLeaseOver \/ NtBackoffOver \/ NtGiveUp
       BY DEF NtNext, NtDeliver, NtSend, NtCrash, NtRequeue, ntVars
    <2>2. ASSUME NEW w \in NtWorkers, NtClaim(w), ntRow' /= ntRow
          PROVE  ntRow' \in NtRowType /\ (ntRow'.leased => ntRow'.owner /= NtNobody)
       BY <1>0, <2>2, NtNobodyWorks DEF NtClaim, NtRowType
    <2>3. ASSUME NEW w \in NtWorkers, NtPrepare(w), ntRow' /= ntRow
          PROVE  ntRow' \in NtRowType /\ (ntRow'.leased => ntRow'.owner /= NtNobody)
      <3>1. ntRow' = [ntRow EXCEPT !.attempts = ntRow.attempts + 1]
         BY <2>3 DEF NtPrepare
      <3>2. ntRow.attempts + 1 \in Nat
         BY <1>0 DEF NtRowType
      <3> QED
         BY <1>0, <2>0, <3>1, <3>2 DEF NtRowType
    <2>4. ASSUME NEW w \in NtWorkers, NtRecordSent(w)
          PROVE  ntRow' \in NtRowType /\ (ntRow'.leased => ntRow'.owner /= NtNobody)
       BY <1>0, <2>4 DEF NtRecordSent, NtRowType, NtOver
    <2>5. ASSUME NEW w \in NtWorkers, NtFail(w)
          PROVE  ntRow' \in NtRowType /\ (ntRow'.leased => ntRow'.owner /= NtNobody)
      <3>1. PICK n \in Nat : \E b \in BOOLEAN : ntRow' = [status |-> IF b THEN "DEAD_LETTER" ELSE "FAILED", owner |-> NtNobody, leased |-> FALSE,
                                       due |-> b, attempts |-> n]
        <4>1. (IF ntRow.attempts = 0 THEN 1 ELSE ntRow.attempts) \in Nat
           BY <1>0 DEF NtRowType
        <4>2. NtDead(w) \in BOOLEAN
           BY DEF NtDead
        <4> QED
           BY <2>5, <4>1, <4>2, Zenon DEF NtFail
      <3> QED
         BY <3>1 DEF NtRowType, NtOver
    <2>6. CASE NtLeaseOver \/ NtBackoffOver \/ NtGiveUp
       BY <1>0, <2>0, <2>6 DEF NtLeaseOver, NtBackoffOver, NtGiveUp, NtRowType
    <2> QED
       BY <1>0, <2>0, <2>1, <2>2, <2>3, <2>4, <2>5, <2>6
  <1> QED
     BY <1>1, <1>2, <1>3, <1>4, <1>5, <1>6, Zenon DEF NtTypeOK, NtRowType, NtPlaces, NtBusy

(* The lease admits one worker, as long as it does not run out under one.  *)
LEMMA NtOwnsNext ==
  ASSUME NtTypeOK, NtOwns, [NtNext]_ntVars
  PROVE  NtOwns'
  <1> SUFFICES ASSUME ~ntLate', NEW v \in NtWorkers, ntPc'[v] /= "idle"
               PROVE  ntRow'.owner = v /\ ntRow'.status = "PROCESSING" /\ ntRow'.leased
     BY DEF NtOwns
  <1>0. ntRow \in NtRowType /\ ntPc \in [NtWorkers -> NtPlaces]
     BY DEF NtTypeOK, NtRowType, NtPlaces, NtBusy
  <1>1. ~ntLate
     BY DEF NtNext, NtDeliver, NtClaim, NtPrepare, NtSend, NtRecordSent, NtFail, NtCrash, NtLeaseOver, NtBackoffOver, NtGiveUp,
        NtRequeue, ntVars
  <1>2. ASSUME NEW u \in NtWorkers, ntPc[u] /= "idle" PROVE ntRow.owner = u /\ ntRow.status = "PROCESSING" /\ ntRow.leased
     BY <1>1, <1>2 DEF NtOwns
  <1>3. ASSUME NEW w \in NtWorkers, NtClaim(w) PROVE ntRow'.owner = v /\ ntRow'.status = "PROCESSING" /\ ntRow'.leased
    <2>1. CASE UNCHANGED <<ntRow, ntPc>>
       BY <1>2, <2>1
    <2>2. CASE NtClaimable /\ NtGo(w, "prepare") /\ ntRow' = [ntRow EXCEPT !.status = "PROCESSING", !.owner = w, !.leased = TRUE]
      <3>1. v = w
         BY <1>0, <1>2, <2>2 DEF NtClaimable, NtGo
      <3> QED
         BY <1>0, <2>2, <3>1 DEF NtRowType
    <2> QED
       BY <1>3, <2>1, <2>2 DEF NtClaim
  <1>4. ASSUME NEW w \in NtWorkers, NtPrepare(w) \/ NtSend(w)
        PROVE ntRow'.owner = v /\ ntRow'.status = "PROCESSING" /\ ntRow'.leased
    <2>1. ntPc[v] /= "idle"
       BY <1>0, <1>4 DEF NtPrepare, NtSend, NtGo
    <2>2. ntRow'.owner = ntRow.owner /\ ntRow'.status = ntRow.status /\ ntRow'.leased = ntRow.leased
       BY <1>0, <1>4 DEF NtPrepare, NtSend, NtRowType
    <2> QED
       BY <1>2, <2>1, <2>2
  <1>5. ASSUME NEW w \in NtWorkers, NtRecordSent(w) \/ NtFail(w) \/ NtCrash(w) PROVE FALSE
    <2>1. ntPc[w] /= "idle" /\ ntPc[v] /= "idle" /\ v /= w
       BY <1>0, <1>5 DEF NtRecordSent, NtFail, NtCrash, NtGo
    <2> QED
       BY <1>2, <2>1
  <1>6. CASE NtLeaseOver
    <2>1. ntPc[ntRow.owner] = "idle" /\ ntPc[v] /= "idle"
       BY <1>6 DEF NtLeaseOver
    <2> QED
       BY <1>2, <2>1
  <1>7. CASE NtBackoffOver
     BY <1>0, <1>2, <1>7 DEF NtBackoffOver, NtRowType
  <1>8. CASE NtGiveUp
    <2>1. ~ntRow.leased /\ ntPc[v] /= "idle"
       BY <1>8 DEF NtGiveUp
    <2> QED
       BY <1>2, <2>1
  <1>9. CASE NtRequeue \/ UNCHANGED ntVars
     BY <1>2, <1>9 DEF NtRequeue, ntVars
  <1> QED
     BY <1>2, <1>3, <1>4, <1>5, <1>6, <1>7, <1>8, <1>9 DEF NtNext, NtDeliver

(* What is recorded SENT was taken.                                        *)
LEMMA NtTakenNext ==
  ASSUME NtTypeOK, NtTaken, NtSentIsTrue, [NtNext]_ntVars
  PROVE  NtTaken' /\ NtSentIsTrue'
  <1>0. ntRow \in NtRowType /\ ntPc \in [NtWorkers -> NtPlaces] /\ ntAccepted \in Nat
     BY DEF NtTypeOK, NtRowType, NtPlaces, NtBusy
  <1>1. ntAccepted > 0 => ntAccepted' > 0
    <2>1. ntAccepted' = ntAccepted \/ ntAccepted' = ntAccepted + 1
       BY DEF NtNext, NtDeliver, NtClaim, NtPrepare, NtSend, NtRecordSent, NtFail, NtCrash, NtLeaseOver, NtBackoffOver, NtGiveUp,
          NtRequeue, ntVars
    <2> QED
       BY <1>0, <2>1
  <1>2. ASSUME NEW v \in NtWorkers, ntPc'[v] = "sent" PROVE ntAccepted' > 0
    <2>1. ntPc[v] = "sent" \/ ntAccepted' = ntAccepted + 1
       BY <1>0, <1>2 DEF NtNext, NtDeliver, NtClaim, NtPrepare, NtSend, NtRecordSent, NtFail, NtCrash, NtLeaseOver, NtBackoffOver,
          NtGiveUp, NtRequeue, NtGo, ntVars
    <2> QED
       BY <1>0, <1>1, <2>1 DEF NtTaken
  <1>3. ASSUME ntRow'.status = "SENT" PROVE ntRow.status = "SENT" \/ \E w \in NtWorkers : ntPc[w] = "sent"
    <2>1. ASSUME NEW w \in NtWorkers, NtFail(w) PROVE ntRow'.status /= "SENT"
      <3>1. ntRow'.status = IF NtDead(w) THEN "DEAD_LETTER" ELSE "FAILED"
         BY <2>1 DEF NtFail
      <3> QED
         BY <3>1
    <2> QED
       BY <1>0, <1>3, <2>1 DEF NtNext, NtDeliver, NtClaim, NtPrepare, NtSend, NtRecordSent, NtCrash, NtLeaseOver, NtBackoffOver,
          NtGiveUp, NtRequeue, NtRowType, ntVars
  <1> QED
     BY <1>1, <1>2, <1>3 DEF NtTaken, NtSentIsTrue

(* A request that is over stays over.                                      *)
LEMMA NtOverKept ==
  ASSUME NtTypeOK, NtOwns, [NtNext]_ntVars
  PROVE  NtOverStays
  <1> SUFFICES ASSUME ntRow.status \in NtOver, ~ntLate PROVE ntRow'.status = ntRow.status /\ ntCalls' = ntCalls
     BY DEF NtOverStays
  <1>0. ntRow \in NtRowType
     BY DEF NtTypeOK, NtRowType
  <1>1. \A w \in NtWorkers : ntPc[w] = "idle"
     BY DEF NtOwns, NtOver
  <1>2. (ntRow' = ntRow /\ ntCalls' = ntCalls) \/ NtLeaseOver \/ NtBackoffOver
     BY <1>1 DEF NtNext, NtDeliver, NtClaim, NtClaimable, NtPrepare, NtSend, NtRecordSent, NtFail, NtCrash, NtGiveUp, NtRequeue, NtOver, ntVars
  <1> QED
     BY <1>0, <1>2 DEF NtLeaseOver, NtBackoffOver, NtRowType

NtCounting == NtCounted /\ NtTried /\ NtStragglers /\ NtBudget

(* The counts after a worker's move.                                       *)
LEMMA NtCountsAfter ==
  ASSUME ntPc \in [NtWorkers -> NtPlaces], NEW w \in NtWorkers, NEW q \in NtPlaces, NtGo(w, q)
  PROVE  /\ NtCount({"send"})' = NtCount({"send"}) + NtOne(q = "send") - NtOne(ntPc[w] = "send")
         /\ NtCount({"prepare"})' = NtCount({"prepare"}) + NtOne(q = "prepare") - NtOne(ntPc[w] = "prepare")
         /\ NtCount({"rejected"})' = NtCount({"rejected"}) + NtOne(q = "rejected") - NtOne(ntPc[w] = "rejected")
         /\ NtCount(NtBusy)' = NtCount(NtBusy) + NtOne(q /= "idle") - NtOne(ntPc[w] /= "idle")
         /\ NtCount({"send"}) \in Nat /\ NtCount({"prepare"}) \in Nat /\ NtCount({"rejected"}) \in Nat /\ NtCount(NtBusy) \in Nat
         /\ NtCount({"send"})' \in Nat /\ NtCount({"prepare"})' \in Nat /\ NtCount({"rejected"})' \in Nat /\ NtCount(NtBusy)' \in Nat
  <1> USE DEF NtOne
  <1>1. /\ NtCount({"send"})' = NtCount({"send"}) + NtOne(q = "send") - NtOne(ntPc[w] = "send")
        /\ NtCount({"send"}) \in Nat /\ NtCount({"send"})' \in Nat
     BY NtCountGo
  <1>2. /\ NtCount({"prepare"})' = NtCount({"prepare"}) + NtOne(q = "prepare") - NtOne(ntPc[w] = "prepare")
        /\ NtCount({"prepare"}) \in Nat /\ NtCount({"prepare"})' \in Nat
     BY NtCountGo
  <1>3. /\ NtCount({"rejected"})' = NtCount({"rejected"}) + NtOne(q = "rejected") - NtOne(ntPc[w] = "rejected")
        /\ NtCount({"rejected"}) \in Nat /\ NtCount({"rejected"})' \in Nat
     BY NtCountGo
  <1>4. /\ NtCount(NtBusy)' = NtCount(NtBusy) + NtOne(q /= "idle") - NtOne(ntPc[w] /= "idle")
        /\ NtCount(NtBusy) \in Nat /\ NtCount(NtBusy)' \in Nat
    <2>1. (ntPc[w] \in NtBusy <=> ntPc[w] /= "idle") /\ (q \in NtBusy <=> q /= "idle")
       BY DEF NtPlaces, NtBusy
    <2> QED
       BY <2>1, NtCountGo
  <1> QED
     BY <1>1, <1>2, <1>3, <1>4

(* The workers that are to call the provider are in a delivery.            *)
LEMMA NtFewer ==
  ASSUME ntPc \in [NtWorkers -> NtPlaces], NEW w \in NtWorkers, ntPc[w] \notin {"idle", "prepare"}
  PROVE  NtCount({"prepare"}) + 1 <= NtCount(NtBusy)
  <1>1. NtAt({"prepare"}) \subseteq NtAt(NtBusy) \ {w} /\ w \in NtAt(NtBusy)
     BY DEF NtAt, NtPlaces, NtBusy
  <1>2. IsFiniteSet(NtAt(NtBusy)) /\ IsFiniteSet(NtAt(NtBusy) \ {w}) /\ IsFiniteSet(NtAt({"prepare"}))
    <2>1. NtAt(NtBusy) \subseteq NtWorkers /\ NtAt(NtBusy) \ {w} \subseteq NtWorkers /\ NtAt({"prepare"}) \subseteq NtWorkers
       BY DEF NtAt
    <2> QED
       BY <2>1, NtConstants, FS_Subset
  <1>3. Cardinality(NtAt({"prepare"})) <= Cardinality(NtAt(NtBusy) \ {w})
     BY <1>1, <1>2, FS_Subset
  <1>4. Cardinality(NtAt(NtBusy) \ {w}) = Cardinality(NtAt(NtBusy)) - 1
     BY <1>1, <1>2, FS_RemoveElement
  <1>5. Cardinality(NtAt({"prepare"})) \in Nat /\ Cardinality(NtAt(NtBusy)) \in Nat
     BY <1>2, FS_CardinalityType
  <1> QED
     BY <1>3, <1>4, <1>5 DEF NtCount

LEMMA NtTriedNext ==
  ASSUME NtTypeOK, NtTried, [NtNext]_ntVars
  PROVE  NtTried'
  <1>0. ntPc \in [NtWorkers -> NtPlaces] /\ ntCalls \in Nat
     BY DEF NtTypeOK, NtPlaces, NtBusy
  <1>1. ntCalls' = ntCalls \/ ntCalls' = ntCalls + 1
     BY DEF NtNext, NtDeliver, NtClaim, NtPrepare, NtSend, NtRecordSent, NtFail, NtCrash, NtLeaseOver, NtBackoffOver, NtGiveUp,
        NtRequeue, ntVars
  <1>2. ASSUME NEW v \in NtWorkers, ntPc'[v] = "failed" PROVE ntPc[v] = "failed" \/ ntCalls' = ntCalls + 1
     BY <1>0, <1>2 DEF NtNext, NtDeliver, NtClaim, NtPrepare, NtSend, NtRecordSent, NtFail, NtCrash, NtLeaseOver, NtBackoffOver,
        NtGiveUp, NtRequeue, NtGo, ntVars
  <1> QED
     BY <1>0, <1>1, <1>2 DEF NtTried

(* The counting, step by step.                                             *)
LEMMA NtCountingNext ==
  ASSUME NtTypeOK, NtCounting, [NtNext]_ntVars
  PROVE  NtCounted' /\ NtStragglers' /\ NtBudget'
  <1>0. /\ ntRow \in NtRowType /\ ntPc \in [NtWorkers -> NtPlaces]
        /\ ntCalls \in Nat /\ ntFaults \in Nat /\ ntRow.attempts \in Nat /\ NtMaxAttempts \in Nat \ {0}
        /\ ntRow.leased => ntRow.owner \in NtWorkers
     BY NtConstants DEF NtTypeOK, NtRowType, NtPlaces, NtBusy
  <1>i. NtOne(NtLive) \in 0 .. 1 /\ NtOne(NtOpen) \in 0 .. 1 /\ NtOne(NtLive)' \in 0 .. 1 /\ NtOne(NtOpen)' \in 0 .. 1
     BY DEF NtOne
  <1>s. ASSUME ntPc' = ntPc, ntRow' = ntRow, ntCalls' = ntCalls, ntFaults' = ntFaults
        PROVE  NtCounted' /\ NtStragglers' /\ NtBudget'
    <2>1. NtOne(NtLive)' = NtOne(NtLive) /\ NtOne(NtOpen)' = NtOne(NtOpen)
       BY <1>s DEF NtLive, NtOpen
    <2>2. /\ NtCount({"send"})' = NtCount({"send"}) /\ NtCount({"prepare"})' = NtCount({"prepare"})
          /\ NtCount({"rejected"})' = NtCount({"rejected"}) /\ NtCount(NtBusy)' = NtCount(NtBusy)
       BY <1>0, <1>s, NtCountStays
    <2> QED
       BY <1>s, <2>1, <2>2, Zenon DEF NtCounting, NtCounted, NtStragglers, NtBudget
  <1>1. ASSUME NEW w \in NtWorkers, NtClaim(w) PROVE NtCounted' /\ NtStragglers' /\ NtBudget'
    <2>1. CASE UNCHANGED <<ntRow, ntPc>>
       BY <1>1, <1>s, <2>1 DEF NtClaim
    <2>2. CASE NtClaimable /\ NtGo(w, "prepare") /\ ntRow' = [ntRow EXCEPT !.status = "PROCESSING", !.owner = w, !.leased = TRUE]
      <3>1. ntRow'.status = "PROCESSING" /\ ntRow'.owner = w /\ ntRow'.leased /\ ntRow'.attempts = ntRow.attempts
         BY <1>0, <2>2 DEF NtRowType
      <3>2. ~NtLive /\ NtOpen /\ NtLive' /\ ~NtOpen'
         BY <1>0, <2>2, <3>1 DEF NtClaimable, NtLive, NtOpen, NtOver, NtGo
      <3>3. NtOne(NtLive) = 0 /\ NtOne(NtOpen) = 1 /\ NtOne(NtLive)' = 1 /\ NtOne(NtOpen)' = 0
         BY <3>2 DEF NtOne
      <3>4. ntPc[w] = "idle" /\ ntCalls' = ntCalls /\ ntFaults' = ntFaults
         BY <1>1 DEF NtClaim
      <3>5. /\ NtCount({"send"})' = NtCount({"send"}) /\ NtCount({"prepare"})' = NtCount({"prepare"}) + 1
            /\ NtCount({"rejected"})' = NtCount({"rejected"}) /\ NtCount(NtBusy)' = NtCount(NtBusy) + 1
            /\ NtCount({"send"}) \in Nat /\ NtCount({"prepare"}) \in Nat /\ NtCount({"rejected"}) \in Nat /\ NtCount(NtBusy) \in Nat
         BY <1>0, <2>2, <3>4, NtCountsAfter DEF NtOne, NtPlaces, NtBusy
      <3> QED
         BY <1>0, <3>1, <3>3, <3>4, <3>5 DEF NtCounting, NtCounted, NtStragglers, NtBudget
    <2> QED
       BY <1>1, <2>1, <2>2 DEF NtClaim
  <1>2. ASSUME NEW w \in NtWorkers, NtPrepare(w) PROVE NtCounted' /\ NtStragglers' /\ NtBudget'
    <2>0. ntPc[w] = "prepare" /\ ntCalls' = ntCalls /\ ntFaults' = ntFaults
       BY <1>2 DEF NtPrepare
    <2>1. CASE NtGo(w, "rejected") /\ UNCHANGED ntRow
      <3>1. NtLive' = NtLive /\ NtOpen' = NtOpen
         BY <1>0, <2>0, <2>1 DEF NtLive, NtOpen, NtGo
      <3>2. NtOne(NtLive)' = NtOne(NtLive) /\ NtOne(NtOpen)' = NtOne(NtOpen)
         BY <3>1 DEF NtOne
      <3>3. /\ NtCount({"send"})' = NtCount({"send"}) /\ NtCount({"prepare"})' = NtCount({"prepare"}) - 1
            /\ NtCount({"rejected"})' = NtCount({"rejected"}) + 1 /\ NtCount(NtBusy)' = NtCount(NtBusy)
            /\ NtCount({"send"}) \in Nat /\ NtCount({"prepare"}) \in Nat /\ NtCount({"rejected"}) \in Nat /\ NtCount(NtBusy) \in Nat
         BY <1>0, <2>0, <2>1, NtCountsAfter DEF NtOne, NtPlaces, NtBusy
      <3>4. ntRow'.attempts = ntRow.attempts
         BY <2>1
      <3> QED
         BY <1>0, <1>i, <2>0, <3>2, <3>3, <3>4 DEF NtCounting, NtCounted, NtStragglers, NtBudget
    <2>2. CASE NtGo(w, "send") /\ ntRow' = [ntRow EXCEPT !.attempts = ntRow.attempts + 1]
      <3>1. ntRow'.status = ntRow.status /\ ntRow'.owner = ntRow.owner /\ ntRow'.leased = ntRow.leased
         BY <1>0, <2>2 DEF NtRowType
      <3>2. NtLive' = NtLive /\ NtOpen' = NtOpen
         BY <1>0, <2>0, <2>2, <3>1 DEF NtLive, NtOpen, NtGo
      <3>3. NtOne(NtLive)' = NtOne(NtLive) /\ NtOne(NtOpen)' = NtOne(NtOpen)
         BY <3>2 DEF NtOne
      <3>4. /\ NtCount({"send"})' = NtCount({"send"}) + 1 /\ NtCount({"prepare"})' = NtCount({"prepare"}) - 1
            /\ NtCount({"rejected"})' = NtCount({"rejected"}) /\ NtCount(NtBusy)' = NtCount(NtBusy)
            /\ NtCount({"send"}) \in Nat /\ NtCount({"prepare"}) \in Nat /\ NtCount({"rejected"}) \in Nat /\ NtCount(NtBusy) \in Nat
         BY <1>0, <2>0, <2>2, NtCountsAfter DEF NtOne, NtPlaces, NtBusy
      <3>5. ntRow'.attempts = ntRow.attempts + 1
         BY <1>0, <2>2 DEF NtRowType
      <3> QED
         BY <1>0, <1>i, <2>0, <3>3, <3>4, <3>5 DEF NtCounting, NtCounted, NtStragglers, NtBudget
    <2> QED
       BY <1>2, <2>1, <2>2 DEF NtPrepare
  <1>3. ASSUME NEW w \in NtWorkers, NtSend(w) PROVE NtCounted' /\ NtStragglers' /\ NtBudget'
    <2>0. ntPc[w] = "send" /\ ntCalls' = ntCalls + 1 /\ ntFaults' = ntFaults /\ ntRow' = ntRow
       BY <1>3 DEF NtSend
    <2>1. PICK q \in {"sent", "rejected", "failed"} : NtGo(w, q)
       BY <1>3 DEF NtSend
    <2>2. NtLive' = NtLive /\ NtOpen' = NtOpen
       BY <1>0, <2>0, <2>1 DEF NtLive, NtOpen, NtGo
    <2>3. NtOne(NtLive)' = NtOne(NtLive) /\ NtOne(NtOpen)' = NtOne(NtOpen)
       BY <2>2 DEF NtOne
    <2>4. /\ NtCount({"send"})' = NtCount({"send"}) - 1 /\ NtCount({"prepare"})' = NtCount({"prepare"})
          /\ NtCount({"rejected"})' \in {NtCount({"rejected"}), NtCount({"rejected"}) + 1} /\ NtCount(NtBusy)' = NtCount(NtBusy)
          /\ NtCount({"send"})' \in Nat
          /\ NtCount({"send"}) \in Nat /\ NtCount({"prepare"}) \in Nat /\ NtCount({"rejected"}) \in Nat /\ NtCount(NtBusy) \in Nat
       BY <1>0, <2>0, <2>1, NtCountsAfter DEF NtOne, NtPlaces, NtBusy
    <2>5. ntRow'.attempts = ntRow.attempts
       BY <2>0
    <2>6. ntRow.attempts > 0
       BY <1>0, <2>4 DEF NtCounting, NtCounted
    <2> QED
       BY <1>0, <1>i, <2>0, <2>3, <2>4, <2>5, <2>6 DEF NtCounting, NtCounted, NtStragglers, NtBudget
  <1>4. ASSUME NEW w \in NtWorkers, NtRecordSent(w) PROVE NtCounted' /\ NtStragglers' /\ NtBudget'
    <2>0. ntPc[w] = "sent" /\ NtGo(w, "idle") /\ ntCalls' = ntCalls /\ ntFaults' = ntFaults
       BY <1>4 DEF NtRecordSent
    <2>1. ntRow'.status = "SENT" /\ ntRow'.attempts = ntRow.attempts
       BY <1>0, <1>4 DEF NtRecordSent, NtRowType
    <2>2. NtOne(NtLive)' = 0 /\ NtOne(NtOpen)' = 0
       BY <2>1 DEF NtLive, NtOpen, NtOver, NtOne
    <2>3. /\ NtCount({"send"})' = NtCount({"send"}) /\ NtCount({"prepare"})' = NtCount({"prepare"})
          /\ NtCount({"rejected"})' = NtCount({"rejected"}) /\ NtCount(NtBusy)' = NtCount(NtBusy) - 1
          /\ NtCount({"send"}) \in Nat /\ NtCount({"prepare"}) \in Nat /\ NtCount({"rejected"}) \in Nat /\ NtCount(NtBusy) \in Nat
       BY <1>0, <2>0, NtCountsAfter DEF NtOne, NtPlaces, NtBusy
    <2> QED
       BY <1>0, <1>i, <2>0, <2>1, <2>2, <2>3 DEF NtCounting, NtCounted, NtStragglers, NtBudget
  <1>5. ASSUME NEW w \in NtWorkers, NtFail(w) PROVE NtCounted' /\ NtStragglers' /\ NtBudget'
    <2>0. ntPc[w] \in {"failed", "rejected"} /\ NtGo(w, "idle") /\ ntCalls' = ntCalls /\ ntFaults' = ntFaults
       BY <1>5 DEF NtFail
    <2>1. ntRow'.status = (IF NtDead(w) THEN "DEAD_LETTER" ELSE "FAILED")
       BY <1>5 DEF NtFail
    <2>2. ntRow'.attempts = IF ntRow.attempts = 0 THEN 1 ELSE ntRow.attempts
       BY <1>5 DEF NtFail
    <2>3. NtOne(NtLive)' = 0 /\ (NtDead(w) => NtOne(NtOpen)' = 0)
       BY <2>1 DEF NtLive, NtOpen, NtOver, NtOne
    <2>4. /\ NtCount({"send"})' = NtCount({"send"}) /\ NtCount({"prepare"})' = NtCount({"prepare"})
          /\ NtCount(NtBusy)' = NtCount(NtBusy) - 1 /\ (ntPc[w] = "rejected" => NtCount({"rejected"}) > 0)
          /\ NtCount({"send"}) \in Nat /\ NtCount({"prepare"}) \in Nat /\ NtCount({"rejected"}) \in Nat /\ NtCount(NtBusy) \in Nat
       BY <1>0, <2>0, NtCountsAfter DEF NtOne, NtPlaces, NtBusy
    <2>5. NtCounted' /\ NtStragglers'
       BY <1>0, <1>i, <2>0, <2>2, <2>3, <2>4 DEF NtCounting, NtCounted, NtStragglers
    <2>6. ntPc[w] = "failed" => ntRow.attempts > 0
       BY <1>0, <2>4 DEF NtCounting, NtTried, NtCounted
    <2>7. CASE NtDead(w)
      <3>1. ntRow.attempts = 0 => NtCount({"rejected"}) > 0
         BY <1>0, <2>0, <2>4, <2>6
      <3>2. NtOne(NtOpen)' = 0
         BY <2>3, <2>7
      <3> QED
         BY <1>0, <1>i, <2>0, <2>2, <2>4, <2>5, <3>1, <3>2 DEF NtCounting, NtBudget
    <2>8. CASE ~NtDead(w)
      <3>1. ntPc[w] = "failed" /\ ntRow.attempts < NtMaxAttempts
         BY <1>0, <2>0, <2>8 DEF NtDead
      <3>2. NtCount({"prepare"}) <= ntFaults
        <4>1. NtCount({"prepare"}) + 1 <= NtCount(NtBusy)
           BY <1>0, <3>1, NtFewer
        <4> QED
           BY <1>0, <1>i, <2>4, <4>1 DEF NtCounting, NtStragglers
      <3> QED
         BY <1>0, <1>i, <2>0, <2>2, <2>4, <2>5, <2>6, <3>1, <3>2 DEF NtBudget
    <2> QED
       BY <2>5, <2>7, <2>8
  <1>6. ASSUME NEW w \in NtWorkers, NtCrash(w) PROVE NtCounted' /\ NtStragglers' /\ NtBudget'
    <2>0. ntPc[w] /= "idle" /\ NtGo(w, "idle") /\ ntCalls' = ntCalls /\ ntFaults' = ntFaults + 1 /\ ntRow'.attempts = ntRow.attempts
       BY <1>6 DEF NtCrash, NtFault
    <2>1. /\ NtCount({"send"})' <= NtCount({"send"}) /\ NtCount({"prepare"})' <= NtCount({"prepare"})
          /\ NtCount({"rejected"})' <= NtCount({"rejected"}) /\ NtCount(NtBusy)' = NtCount(NtBusy) - 1
          /\ NtCount({"send"}) \in Nat /\ NtCount({"prepare"}) \in Nat /\ NtCount({"rejected"}) \in Nat /\ NtCount(NtBusy) \in Nat
          /\ NtCount({"send"})' \in Nat /\ NtCount({"prepare"})' \in Nat /\ NtCount({"rejected"})' \in Nat
      <3>1. "idle" \in NtPlaces
         BY DEF NtPlaces
      <3>2. \A p \in BOOLEAN : NtOne(p) \in 0 .. 1
         BY DEF NtOne
      <3>3. NtOne("idle" = "send") = 0 /\ NtOne("idle" = "prepare") = 0 /\ NtOne("idle" = "rejected") = 0 /\ NtOne("idle" /= "idle") = 0
         BY DEF NtOne
      <3>4. NtOne(ntPc[w] /= "idle") = 1
         BY <2>0 DEF NtOne
      <3> QED
         BY <1>0, <2>0, <3>1, <3>2, <3>3, <3>4, NtCountsAfter
    <2> QED
       BY <1>0, <1>i, <2>0, <2>1 DEF NtCounting, NtCounted, NtStragglers, NtBudget
  <1>7. CASE NtLeaseOver
    <2>0. ntPc' = ntPc /\ ntCalls' = ntCalls
       BY <1>7 DEF NtLeaseOver
    <2>1. ntRow.leased /\ ntRow'.status = ntRow.status /\ ~ntRow'.leased /\ ntRow'.attempts = ntRow.attempts
       BY <1>0, <1>7 DEF NtLeaseOver, NtRowType
    <2>2. NtOne(NtLive)' = 0
       BY <2>1 DEF NtLive, NtOne
    <2>3. \/ ntFaults' = ntFaults + 1
          \/ ntFaults' = ntFaults /\ NtOne(NtLive) = 0 /\ NtOne(NtOpen)' = NtOne(NtOpen)
      <3>1. CASE ntPc[ntRow.owner] = "idle"
        <4>1. ntFaults' = ntFaults
           BY <1>7, <3>1 DEF NtLeaseOver
        <4>2. ~NtLive /\ ~NtLive'
           BY <2>1, <3>1 DEF NtLive
        <4>3. NtOpen' = NtOpen
           BY <2>1, <4>2 DEF NtOpen
        <4> QED
           BY <4>1, <4>2, <4>3 DEF NtOne
      <3>2. CASE ntPc[ntRow.owner] /= "idle"
         BY <1>7, <3>2 DEF NtLeaseOver, NtFault
      <3> QED
         BY <3>1, <3>2
    <2>4. /\ NtCount({"send"})' = NtCount({"send"}) /\ NtCount({"prepare"})' = NtCount({"prepare"})
          /\ NtCount({"rejected"})' = NtCount({"rejected"}) /\ NtCount(NtBusy)' = NtCount(NtBusy)
          /\ NtCount({"send"}) \in Nat /\ NtCount({"prepare"}) \in Nat /\ NtCount({"rejected"}) \in Nat /\ NtCount(NtBusy) \in Nat
       BY <1>0, <2>0, NtCountStays
    <2>5. ntRow'.attempts = ntRow.attempts
       BY <2>1
    <2> QED
       BY <1>0, <1>i, <2>0, <2>2, <2>3, <2>4, <2>5 DEF NtCounting, NtCounted, NtStragglers, NtBudget
  <1>8. CASE NtBackoffOver \/ NtGiveUp
    <2>0. ntPc' = ntPc /\ ntCalls' = ntCalls /\ ntFaults' = ntFaults
       BY <1>8 DEF NtBackoffOver, NtGiveUp
    <2>1. /\ ntRow'.attempts = ntRow.attempts
          /\ \/ ntRow'.status = ntRow.status /\ ntRow'.leased = ntRow.leased /\ ntRow'.owner = ntRow.owner
             \/ ntRow.status = "PROCESSING" /\ ~ntRow.leased /\ ntRow'.status = "FAILED"
       BY <1>0, <1>8 DEF NtBackoffOver, NtGiveUp, NtRowType
    <2>2. NtLive' = NtLive /\ NtOpen' = NtOpen
       BY <2>0, <2>1 DEF NtLive, NtOpen, NtOver
    <2>3. NtOne(NtLive)' = NtOne(NtLive) /\ NtOne(NtOpen)' = NtOne(NtOpen)
       BY <2>2 DEF NtOne
    <2>4. /\ NtCount({"send"})' = NtCount({"send"}) /\ NtCount({"prepare"})' = NtCount({"prepare"})
          /\ NtCount({"rejected"})' = NtCount({"rejected"}) /\ NtCount(NtBusy)' = NtCount(NtBusy)
       BY <1>0, <2>0, NtCountStays
    <2>5. ntRow'.attempts = ntRow.attempts
       BY <2>1
    <2> QED
       BY <2>0, <2>3, <2>4, <2>5, Zenon DEF NtCounting, NtCounted, NtStragglers, NtBudget
  <1>9. CASE NtRequeue \/ UNCHANGED ntVars
     BY <1>9, <1>s DEF NtRequeue, ntVars
  <1> QED
     BY <1>1, <1>2, <1>3, <1>4, <1>5, <1>6, <1>7, <1>8, <1>9 DEF NtNext, NtDeliver

LEMMA NotificationInit == NtInit => NotificationInv
  <1> SUFFICES ASSUME NtInit PROVE NotificationInv
     OBVIOUS
  <1>1. NtTypeOK
    <2>1. ntRow \in NtRowType /\ ~ntRow.leased
       BY DEF NtInit, NtRowType
    <2>2. ntJobs \in 0 .. 2 /\ ntCalls \in Nat /\ ntAccepted \in 0 .. ntCalls /\ ntFaults \in 0 .. NtMaxFaults
       BY NtConstants DEF NtInit
    <2>3. ntPc \in [NtWorkers -> NtPlaces] /\ ntLate \in BOOLEAN
       BY DEF NtInit, NtPlaces
    <2> QED
       BY <2>1, <2>2, <2>3, Zenon DEF NtTypeOK, NtRowType, NtPlaces, NtBusy
  <1>2. NtOwns /\ NtTaken /\ NtSentIsTrue /\ NtTried
     BY DEF NtInit, NtOwns, NtTaken, NtSentIsTrue, NtTried
  <1>3. \A Q \in {{"send"}, {"prepare"}, {"rejected"}, NtBusy} : NtCount(Q) = 0
    <2>1. ASSUME NEW Q \in {{"send"}, {"prepare"}, {"rejected"}, NtBusy} PROVE NtAt(Q) = {}
       BY <2>1 DEF NtInit, NtAt, NtBusy
    <2> QED
       BY <2>1, FS_EmptySet DEF NtCount
  <1>4. ntRow.attempts = 0 /\ ntCalls = 0 /\ ntFaults = 0 /\ NtOne(NtLive) \in 0 .. 1 /\ NtOne(NtOpen) \in 0 .. 1
     BY DEF NtInit, NtOne
  <1>5. NtCounted /\ NtStragglers /\ NtBudget
     BY <1>3, <1>4, NtConstants DEF NtCounted, NtStragglers, NtBudget
  <1> QED
     BY <1>1, <1>2, <1>5 DEF NotificationInv

LEMMA NotificationNext == NotificationInv /\ [NtNext]_ntVars => NotificationInv'
  BY NtTyped, NtOwnsNext, NtTakenNext, NtTriedNext, NtCountingNext DEF NotificationInv, NtCounting

LEMMA NtInvSuffices == NotificationInv => NtCallsBounded
  <1> SUFFICES ASSUME NotificationInv PROVE NtCallsBounded
     OBVIOUS
  <1>1. ntPc \in [NtWorkers -> NtPlaces] /\ ntCalls \in Nat /\ ntFaults \in Nat /\ ntRow.attempts \in Nat /\ NtMaxAttempts \in Nat
     BY NtConstants DEF NotificationInv, NtTypeOK, NtPlaces, NtBusy
  <1>2. NtCount({"send"}) \in Nat /\ NtCount({"prepare"}) \in Nat /\ NtCount({"rejected"}) \in Nat
    <2>1. ASSUME NEW Q \in {{"send"}, {"prepare"}, {"rejected"}} PROVE NtCount(Q) \in Nat
      <3>1. NtAt(Q) \subseteq NtWorkers
         BY DEF NtAt
      <3> QED
         BY <3>1, NtConstants, FS_Subset, FS_CardinalityType DEF NtCount
    <2> QED
       BY <2>1
  <1>3. NtOne(NtOpen) \in 0 .. 1
     BY DEF NtOne
  <1> QED
     BY <1>1, <1>2, <1>3 DEF NotificationInv, NtCounted, NtBudget, NtCallsBounded

(* For any number of workers and any limit of attempts: the provider is    *)
(* called at most NOTIFICATION_MAX_ATTEMPTS times and once more for each   *)
(* crash or lease that ran out under a live worker; what is recorded SENT  *)
(* was taken; and while no lease ran out so, a request that is over stays  *)
(* over and is not sent again (NotificationProcessor.deliver, the          *)
(* reconciler of notifications).                                           *)
THEOREM NotificationsAreBounded == NtSpec => [](NtTypeOK /\ NtCallsBounded /\ NtSentIsTrue) /\ [][NtOverStays]_ntVars
  <1>1. NotificationInv => NtTypeOK /\ NtCallsBounded /\ NtSentIsTrue
     BY NtInvSuffices DEF NotificationInv
  <1>2. NotificationInv /\ [NtNext]_ntVars => [NtOverStays]_ntVars
     BY NtOverKept DEF NotificationInv
  <1> QED
     BY <1>1, <1>2, NotificationInit, NotificationNext, PTL DEF NtSpec

-----------------------------------------------------------------------------
(***************************************************************************)
(* EventChain, for any set of triggers and any limits: along causes that   *)
(* are passed on, the depth of an event is the number of its causes, and   *)
(* the counter of a chain is the number of its events.                     *)
(***************************************************************************)

\* Events and what caused an execution, which is one.
EcEventOK(e) ==
  /\ e.root \in EcRoots /\ e.depth \in 0 .. EcMaxDepth /\ e.n \in Nat /\ e.causes \in Nat
  /\ e.root = 1 => e.causes = e.depth

EcRunOK(x) ==
  /\ x = [cause |-> x.cause, trigger |-> x.trigger, todo |-> x.todo]
  /\ EcEventOK(x.cause) /\ x.trigger \in ecTriggers /\ x.todo \subseteq x.trigger.emits

ChainInv ==
  /\ ecTriggers \in EcTriggerSets
  /\ ecCount \in [EcRoots -> 0 .. EcMaxEvents] /\ ecMade = ecCount
  /\ ecCount[1] > 0
  /\ \A e \in ecEvents : EcEventOK(e)
  /\ \A x \in ecRuns : EcRunOK(x)

LEMMA ChainInit == EcInit => ChainInv
  <1> SUFFICES ASSUME EcInit PROVE ChainInv
     OBVIOUS
  <1>1. 1 \in EcRoots
     BY EcConstants DEF EcRoots
  <1>2. ecCount \in [EcRoots -> 0 .. EcMaxEvents] /\ ecMade = ecCount /\ ecCount[1] > 0
     BY <1>1, EcConstants DEF EcInit
  <1>3. \A e \in ecEvents : EcEventOK(e)
     BY <1>1, EcConstants DEF EcInit, EcEventOK
  <1> QED
     BY <1>2, <1>3 DEF EcInit, ChainInv

(* A set of naturals has a least element.                                  *)
EcLess == {pair \in Nat \X Nat : pair[1] < pair[2]}

LEMMA EcLeast ==
  ASSUME NEW S, S \subseteq Nat, S /= {}
  PROVE  \E q \in S : \A p \in S : q <= p
  <1>1. IsWellFoundedOn(EcLess, Nat)
     BY NatLessThanWellFounded DEF OpToRel, EcLess
  <1>2. PICK q \in S : \A p \in S : <<p, q>> \notin EcLess
     BY <1>1, WFMin
  <1>3. \A p \in S : ~(p < q)
     BY <1>2 DEF EcLess
  <1> QED
     BY <1>3

(* The chain that is begun is a new one.                                   *)
LEMMA EcFreeRoot ==
  ASSUME ChainInv, NEW free, free = EcRoots \ EcStarted, free /= {}
  PROVE  (CHOOSE q \in free : \A p \in free : q <= p) \in free \ {1}
  <1>1. free \subseteq Nat
     BY DEF EcRoots
  <1>2. \E q \in free : \A p \in free : q <= p
     BY <1>1, EcLeast
  <1>3. 1 \notin free
     BY DEF ChainInv, EcStarted
  <1> QED
     BY <1>2, <1>3

LEMMA ChainDispatch == ASSUME ChainInv, EcDispatch PROVE ChainInv'
  <1>1. PICK e \in ecEvents :
          /\ ecEvents' = ecEvents \ {e}
          /\ ecRuns' = ecRuns \union {[cause |-> e, trigger |-> t, todo |-> t.emits] : t \in {u \in ecTriggers : u.on = e.type}}
          /\ UNCHANGED <<ecTriggers, ecCount, ecMade>>
     BY DEF EcDispatch
  <1>2. ASSUME NEW x \in ecRuns' PROVE EcRunOK(x)'
    <2>1. CASE x \in ecRuns
       BY <1>1, <2>1 DEF ChainInv, EcRunOK
    <2>2. CASE x \notin ecRuns
      <3>1. PICK t \in ecTriggers : x = [cause |-> e, trigger |-> t, todo |-> t.emits]
         BY <1>1, <1>2, <2>2
      <3>2. EcEventOK(e)
         BY DEF ChainInv
      <3> QED
         BY <1>1, <3>1, <3>2 DEF EcRunOK
    <2> QED
       BY <2>1, <2>2
  <1> QED
     BY <1>1, <1>2 DEF ChainInv

LEMMA ChainEmit == ASSUME ChainInv, EcEmit PROVE ChainInv'
  <1>1. PICK x \in ecRuns : \E type \in x.todo :
          /\ IF EcCausal(type) THEN EcFollow(type, x.cause) ELSE EcBegin(type, x.cause)
          /\ ecRuns' = (ecRuns \ {x}) \union (IF x.todo = {type} THEN {} ELSE {[x EXCEPT !.todo = x.todo \ {type}]})
          /\ UNCHANGED ecTriggers
     BY DEF EcEmit
  <1>2. PICK type \in x.todo :
          /\ IF EcCausal(type) THEN EcFollow(type, x.cause) ELSE EcBegin(type, x.cause)
          /\ ecRuns' = (ecRuns \ {x}) \union (IF x.todo = {type} THEN {} ELSE {[x EXCEPT !.todo = x.todo \ {type}]})
          /\ UNCHANGED ecTriggers
     BY <1>1
  <1>3. EcRunOK(x)
     BY DEF ChainInv
  <1>4. ASSUME NEW y \in ecRuns' PROVE EcRunOK(y)'
    <2>1. CASE y \in ecRuns
       BY <1>2, <2>1 DEF ChainInv, EcRunOK
    <2>2. CASE y \notin ecRuns
      <3>1. y = [x EXCEPT !.todo = x.todo \ {type}]
         BY <1>2, <1>4, <2>2
      <3>2. y = [cause |-> x.cause, trigger |-> x.trigger, todo |-> x.todo \ {type}]
         BY <1>3, <3>1 DEF EcRunOK
      <3> QED
         BY <1>2, <1>3, <3>2 DEF EcRunOK
    <2> QED
       BY <2>1, <2>2
  <1> DEFINE c == x.cause
  <1>5. EcEventOK(c)
     BY <1>3 DEF EcRunOK
  <1>6. CASE UNCHANGED <<ecCount, ecEvents, ecMade>>
     BY <1>2, <1>4, <1>6 DEF ChainInv
  <1>7. ASSUME NEW r \in EcRoots, NEW e, EcEventOK(e), ecEvents' = ecEvents \union {e}, ecMade' = ecCount',
               NEW m \in 1 .. EcMaxEvents, ecCount' = [ecCount EXCEPT ![r] = m]
        PROVE  ChainInv'
    <2>1. ecCount' \in [EcRoots -> 0 .. EcMaxEvents]
       BY <1>7, EcConstants DEF ChainInv
    <2>2. ecCount'[1] > 0
       BY <1>7, EcConstants DEF ChainInv, EcRoots
    <2> QED
       BY <1>2, <1>4, <1>7, <2>1, <2>2 DEF ChainInv
  <1>8. CASE EcFollow(type, c) /\ ~UNCHANGED <<ecCount, ecEvents, ecMade>>
    <2>1. /\ ~EcTooDeep(c.depth + 1) /\ EcClaim(c.root)
          /\ ecEvents' = ecEvents \union {[type |-> type, root |-> c.root, n |-> ecMade[c.root] + 1,
                                           depth |-> c.depth + 1, causes |-> c.causes + 1]}
          /\ ecMade' = [ecMade EXCEPT ![c.root] = ecMade[c.root] + 1]
       BY <1>8 DEF EcFollow
    <2>2. c.root \in EcRoots /\ c.depth \in 0 .. EcMaxDepth /\ c.causes \in Nat /\ (c.root = 1 => c.causes = c.depth)
       BY <1>5 DEF EcEventOK
    <2>3. ecCount[c.root] \in 0 .. EcMaxEvents /\ ecMade = ecCount
       BY <2>2 DEF ChainInv
    <2>4. ecCount[c.root] + 1 \in 1 .. EcMaxEvents /\ ecMade' = ecCount' /\ ecCount' = [ecCount EXCEPT ![c.root] = ecCount[c.root] + 1]
      <3>1. ecCount[c.root] < EcMaxEvents /\ ecCount' = [ecCount EXCEPT ![c.root] = ecCount[c.root] + 1]
         BY <2>1 DEF EcClaim
      <3>2. ecMade' = ecCount'
         BY <2>1, <2>3, <3>1
      <3>3. ecCount[c.root] + 1 \in 1 .. EcMaxEvents
         BY <2>3, <3>1, EcConstants
      <3> QED
         BY <3>1, <3>2, <3>3
    <2>5. c.depth + 1 \in 0 .. EcMaxDepth /\ c.causes + 1 \in Nat /\ ecMade[c.root] + 1 \in Nat
      <3>1. ~(c.depth + 1 > EcMaxDepth)
         BY <2>1 DEF EcTooDeep
      <3>2. c.depth + 1 \in 0 .. EcMaxDepth
         BY <2>2, <3>1, EcConstants
      <3>3. c.causes + 1 \in Nat
         BY <2>2
      <3>4. ecMade[c.root] + 1 \in Nat
         BY <2>3, EcConstants
      <3> QED
         BY <3>2, <3>3, <3>4
    <2> DEFINE e == [type |-> type, root |-> c.root, n |-> ecMade[c.root] + 1, depth |-> c.depth + 1, causes |-> c.causes + 1]
    <2>6. EcEventOK(e)
       BY <2>2, <2>5 DEF EcEventOK
    <2> QED
       BY <1>7, <2>1, <2>2, <2>4, <2>6
  <1>9. CASE EcBegin(type, c) /\ ~UNCHANGED <<ecCount, ecEvents, ecMade>>
    <2> DEFINE free == EcRoots \ EcStarted
               r == CHOOSE q \in free : \A p \in free : q <= p
    <2>1. /\ free /= {} /\ ecCount' = [ecCount EXCEPT ![r] = 1] /\ ecMade' = [ecMade EXCEPT ![r] = 1]
          /\ ecEvents' = ecEvents \union {[type |-> type, root |-> r, n |-> 1, depth |-> 0, causes |-> c.causes + 1]}
       BY <1>9 DEF EcBegin
    <2>2. r \in EcRoots /\ r /= 1
       BY <2>1, EcFreeRoot
    <2> HIDE DEF r
    <2>3. ecMade' = ecCount' /\ 1 \in 1 .. EcMaxEvents
       BY <2>1, EcConstants DEF ChainInv
    <2>4. c.causes + 1 \in Nat /\ 0 \in 0 .. EcMaxDepth /\ 1 \in Nat
       BY <1>5, EcConstants DEF EcEventOK
    <2> DEFINE e == [type |-> type, root |-> r, n |-> 1, depth |-> 0, causes |-> c.causes + 1]
    <2>5. EcEventOK(e)
       BY <2>2, <2>4 DEF EcEventOK
    <2> QED
       BY <1>7, <2>1, <2>2, <2>3, <2>5
  <1> QED
     BY <1>2, <1>6, <1>8, <1>9

LEMMA ChainNext == ChainInv /\ [EcNext]_ecVars => ChainInv'
  <1>1. ASSUME ChainInv, UNCHANGED ecVars PROVE ChainInv'
     BY <1>1 DEF ChainInv, EcRunOK, ecVars
  <1> QED
     BY <1>1, ChainDispatch, ChainEmit DEF EcNext

(* For any triggers and limits: a chain has at most maxChainEvents events, *)
(* however its branches interleave, and along causes that are passed on an *)
(* event has the depth of its causes, within maxDepth                      *)
(* (InternalEventEmitter.emit).                                            *)
THEOREM ChainsAreBounded == EcSpec => [](EcTypeOK /\ EcWithinLimits)
  <1>1. ChainInv => EcTypeOK /\ EcWithinLimits
    <2> SUFFICES ASSUME ChainInv PROVE EcTypeOK /\ EcWithinLimits
       OBVIOUS
    <2>1. \A e \in ecEvents : EcEventOK(e)
       BY DEF ChainInv
    <2>2. \A x \in ecRuns : x.cause.root \in EcRoots /\ x.trigger \in ecTriggers /\ x.todo \subseteq x.trigger.emits
       BY DEF ChainInv, EcRunOK, EcEventOK
    <2>3. ecCount \in [EcRoots -> 0 .. EcMaxEvents] /\ ecMade \in [EcRoots -> Nat] /\ \A r \in EcRoots : ecMade[r] <= EcMaxEvents
       BY EcConstants DEF ChainInv
    <2>4. EcTypeOK
       BY <2>1, <2>2, <2>3 DEF EcTypeOK, EcEventOK, ChainInv
    <2>5. \A e \in ecEvents : e.root = 1 => e.causes = e.depth /\ e.depth <= EcMaxDepth
       BY <2>1, EcConstants DEF EcEventOK
    <2> QED
       BY <2>3, <2>4, <2>5 DEF EcWithinLimits
  <1> QED
     BY <1>1, ChainInit, ChainNext, PTL DEF EcSpec
=============================================================================
