---------------------------- MODULE WebhookIngress ----------------------------
(***************************************************************************)
(* WebhooksService.receive beside the engine: the API handlers of several  *)
(* deliveries of one webhook request, which carry the same idempotency     *)
(* key, publish the job of the execution they share and then write to its  *)
(* row, while workers and reconcilers already act on it.                   *)
(***************************************************************************)
EXTENDS ExecutionEngine

CONSTANT Requests  \* the deliveries of the request

ASSUME RequestsAssumption == Requests # {} /\ IsFiniteSet(Requests)

VARIABLES
  api,  \* where receive() is, by delivery
  key   \* IdempotencyKey.status

ingressVars == <<api, key>>
allVars == <<vars, ingressVars>>

(* A delivery is answered with accepted or with an error, or not at all.   *)
Answered == {"accepted", "refused"}
ApiPC == Answered \cup
         {"received", "enqueue", "promote", "reject", "reenqueue", "requeue"}

(* Every handler keeps its place, and the key its status.                  *)
IngressTypeOK ==
  /\ TypeOK
  /\ api \in [Requests -> ApiPC]
  /\ key \in {"PROCESSING", "ENQUEUED", "FAILED"}

(* One delivery has committed key, event and execution in a transaction.   *)
(* Each other one either found no key before that, so that its own claim   *)
(* hits the unique index and it goes on with the committed execution, or   *)
(* has still to look the key up.                                           *)
IngressInit ==
  /\ Init /\ status = "PENDING"
  /\ api \in [Requests -> {"received", "enqueue"}]
  /\ \E q \in Requests : api[q] = "enqueue"
  /\ key = "PROCESSING"

ApiGoto(q, label) == api' = [api EXCEPT ![q] = label]

(* What none of the handlers touches.                                      *)
OthersUnchanged ==
  UNCHANGED <<lockedBy, lease, runAttempt, stepVars, deadLetters, timeVars, pc,
              localVars, recVars, calls>>
QueueUnchanged == UNCHANGED queueVars
QueueAdd ==
  Enqueue(CanonicalJob) /\ UNCHANGED <<delayed, active, finished, stalledOnce>>

(* A key that exists is answered from the response that was stored with    *)
(* the claim, unless publishing failed: then it is published again.        *)
FindExisting(q) ==
  /\ api[q] = "received"
  /\ ApiGoto(q, IF key = "FAILED" THEN "reenqueue" ELSE "accepted")
  /\ QueueUnchanged /\ OthersUnchanged
  /\ UNCHANGED <<status, terminalEvents, faults, key>>

(* Where a queue call leads, and where its failure does.                   *)
AfterAdd(from) == IF from = "enqueue" THEN "promote" ELSE "requeue"
PromoteAnyway(from) == AfterAdd(from)  \* a variant: the failure is swallowed
AfterAddFails(from) == IF from = "enqueue" THEN "reject" ELSE "refused"

EnqueueExecution(q) ==
  /\ api[q] \in {"enqueue", "reenqueue"}
  /\ \/ /\ QueueAdd /\ ApiGoto(q, AfterAdd(api[q]))
        /\ UNCHANGED faults
     \/ /\ Fault("redis") /\ QueueUnchanged
        /\ ApiGoto(q, AfterAddFails(api[q]))
  /\ OthersUnchanged
  /\ UNCHANGED <<status, terminalEvents, key>>

(* The transaction after the queue call: QUEUED, whatever the row says     *)
(* now. receive() and retryFailedEnqueue() end with the same update; only  *)
(* receive() catches its failure.                                          *)
MarkQueued(q) ==
  /\ api[q] \in {"promote", "requeue"}
  /\ \/ /\ status' = "QUEUED" /\ key' = "ENQUEUED"
        /\ ApiGoto(q, "accepted") /\ UNCHANGED faults
     \/ /\ Fault("api")
        /\ ApiGoto(q, IF api[q] = "promote" THEN "reject" ELSE "refused")
        /\ UNCHANGED <<status, key>>
  /\ QueueUnchanged /\ OthersUnchanged
  /\ UNCHANGED terminalEvents

(* The catch block fails the execution if no worker has it yet.            *)
Unstarted == {"PENDING", "QUEUED"}

RejectRequest(q) ==
  /\ api[q] = "reject"
  /\ IF status \in Unstarted
       THEN status' = "FAILED" /\ terminalEvents' = terminalEvents + 1
       ELSE UNCHANGED <<status, terminalEvents>>
  /\ key' = "FAILED"
  /\ ApiGoto(q, "refused")
  /\ QueueUnchanged /\ OthersUnchanged
  /\ UNCHANGED faults

(* The API process dies, or the catch block's own transaction fails.       *)
AbandonRequest(q) ==
  /\ api[q] \notin Answered /\ Fault("api")
  /\ ApiGoto(q, "refused")
  /\ QueueUnchanged /\ OthersUnchanged
  /\ UNCHANGED <<status, terminalEvents, key>>

ApiStep(q) ==
  \/ FindExisting(q) \/ EnqueueExecution(q) \/ MarkQueued(q)
  \/ RejectRequest(q) \/ AbandonRequest(q)

IngressNext ==
  \/ SystemStep /\ UNCHANGED ingressVars
  \/ \E q \in Requests : ApiStep(q)

IngressSpec == IngressInit /\ [][IngressNext]_allVars

(* The engine's scheduling; a handler may stop, as its process may.        *)
IngressFairSpec == IngressSpec /\ Fairness
-----------------------------------------------------------------------------
(* The idempotency key says ENQUEUED only when the queue has the job,      *)
(* whichever of the deliveries wrote it last.                              *)
AcceptedIsPublished == key = "ENQUEUED" => CanonicalJob \in Known

(* Whatever the handlers write to the row, and however late, an execution  *)
(* that nobody cancels comes to rest: MarkQueued may start it over, the    *)
(* reconciler then finds it again, and it ends.                            *)
Settles == [](status # "CANCELLED") => <>[](status \in Terminal)

(* Rows, queue and handlers are well formed, and an accepted delivery is   *)
(* one whose job was published.                                            *)
IngressInv == IngressTypeOK /\ AcceptedIsPublished
=============================================================================
