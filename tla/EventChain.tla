----------------------------- MODULE EventChain -----------------------------
(***************************************************************************)
(* Chains of internal events: an event starts the executions of its        *)
(* triggers, an execution emits events, and InternalEventEmitter.emit      *)
(* keeps a chain within a depth and a number of events.  The dispatch of   *)
(* one event is EventOutbox; here it is one step.                          *)
(***************************************************************************)
EXTENDS Naturals, FiniteSets

CONSTANTS
  EcTriggerSets,\* sets of event triggers to explore: for each trigger the type it is on and those its workflow emits
  EcMaxDepth,   \* INTERNAL_EVENT_LIMITS.maxDepth, 8 in the code
  EcMaxEvents,  \* INTERNAL_EVENT_LIMITS.maxChainEvents, 100 in the code
  EcMaxRoots    \* bound on the chains that are started

ASSUME EcConstants == EcMaxDepth \in Nat /\ EcMaxEvents \in Nat \ {0} /\ EcMaxRoots \in Nat \ {0}

VARIABLES
  ecTriggers,\* the event triggers of this behaviour
  ecCount,   \* internal_event_chains: for each root its eventCount
  ecEvents,  \* persisted events not dispatched yet
  ecRuns,    \* executions started by them, with the types they still have to emit
  ecMade     \* how many events each chain has had

ecVars == <<ecTriggers, ecCount, ecEvents, ecRuns, ecMade>>

EcRoots == 1 .. EcMaxRoots
EcStarted == {r \in EcRoots : ecCount[r] > 0}
\* The types whose emitter passes the execution's eventRootId on: the end of an
\* execution, a decision on an approval, a write to a data store; the request
\* for an approval passes a correlation id only (approval.handler.ts:56).
EcCausal(type) == type /= "ASKED"

EcTypeOK ==
  /\ ecTriggers \in EcTriggerSets /\ ecCount \in [EcRoots -> 0 .. EcMaxEvents]
  /\ \A e \in ecEvents : e.root \in EcRoots /\ e.depth \in 0 .. EcMaxDepth /\ e.n \in Nat /\ e.causes \in Nat
  /\ \A x \in ecRuns : x.cause.root \in EcRoots /\ x.trigger \in ecTriggers /\ x.todo \subseteq x.trigger.emits
  /\ ecMade \in [EcRoots -> Nat]

\* One event that no other event caused.
EcInit ==
  /\ ecTriggers \in EcTriggerSets
  /\ \E t \in ecTriggers : ecEvents = {[type |-> t.on, root |-> 1, n |-> 1, depth |-> 0, causes |-> 0]}
  /\ ecCount = [r \in EcRoots |-> IF r = 1 THEN 1 ELSE 0]
  /\ ecMade = ecCount /\ ecRuns = {}

\* The dispatcher: one execution for each trigger on the type, carrying the
\* root and the depth of the event.
EcDispatch ==
  \E e \in ecEvents :
    /\ ecEvents' = ecEvents \ {e}
    /\ ecRuns' = ecRuns \union {[cause |-> e, trigger |-> t, todo |-> t.emits] : t \in {u \in ecTriggers : u.on = e.type}}
    /\ UNCHANGED <<ecTriggers, ecCount, ecMade>>

EcTooDeep(depth) == depth > EcMaxDepth
\* The count of the chain is increased while it is below the limit.
EcClaim(root) == ecCount[root] < EcMaxEvents /\ ecCount' = [ecCount EXCEPT ![root] = @ + 1]

\* emit, within a chain: suppressed beyond the depth and beyond the count (the
\* diagnostic event it writes fires no trigger), else one more event.
EcFollow(type, e) ==
  IF EcTooDeep(e.depth + 1) \/ ecCount[e.root] >= EcMaxEvents
  THEN UNCHANGED <<ecCount, ecEvents, ecMade>>
  ELSE /\ EcClaim(e.root)
       /\ ecEvents' = ecEvents \union {[type |-> type, root |-> e.root, n |-> ecMade[e.root] + 1,
                                        depth |-> e.depth + 1, causes |-> e.causes + 1]}
       /\ ecMade' = [ecMade EXCEPT ![e.root] = @ + 1]

\* emit with no root: the event begins a chain.  Beyond EcMaxRoots it is left out.
EcBegin(type, e) ==
  LET free == EcRoots \ EcStarted IN
  IF free = {} THEN UNCHANGED <<ecCount, ecEvents, ecMade>>
  ELSE LET r == CHOOSE q \in free : \A p \in free : q <= p IN
       /\ ecCount' = [ecCount EXCEPT ![r] = 1]
       /\ ecEvents' = ecEvents \union {[type |-> type, root |-> r, n |-> 1, depth |-> 0, causes |-> e.causes + 1]}
       /\ ecMade' = [ecMade EXCEPT ![r] = 1]

\* An execution emits one of its events; after the last it has ended.
EcEmit ==
  \E x \in ecRuns : \E type \in x.todo :
    /\ IF EcCausal(type) THEN EcFollow(type, x.cause) ELSE EcBegin(type, x.cause)
    /\ ecRuns' = (ecRuns \ {x}) \union (IF x.todo = {type} THEN {} ELSE {[x EXCEPT !.todo = @ \ {type}]})
    /\ UNCHANGED ecTriggers

EcNext == EcDispatch \/ EcEmit
EcSpec == EcInit /\ [][EcNext]_ecVars

-----------------------------------------------------------------------------
(* Properties. *)

\* A chain never has more events than the limit, whatever its branches emit
\* (23-24), and along causes that are passed on its depth is the true one and
\* within the limit (15, 20).
EcWithinLimits ==
  /\ \A r \in EcRoots : ecMade[r] <= EcMaxEvents
  /\ \A e \in ecEvents : e.root = 1 => e.causes = e.depth /\ e.depth <= EcMaxDepth

=============================================================================
