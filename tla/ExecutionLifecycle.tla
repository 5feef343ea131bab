-------------------------- MODULE ExecutionLifecycle --------------------------
(***************************************************************************)
(* What an execution promises to the parties that read its row: the web    *)
(* client, the event triggers and the operator of the dead letter queue.   *)
(***************************************************************************)
EXTENDS Naturals

VARIABLES
  status,   \* Execution.status
  events,   \* EXECUTION_COMPLETED and EXECUTION_FAILED internal events
  letters   \* unresolved DeadLetterExecution rows

lifecycleVars == <<status, events, letters>>

VALID_TRANSITIONS ==
  [PENDING   |-> {"QUEUED", "RUNNING", "FAILED", "CANCELLED"},
   QUEUED    |-> {"RUNNING", "RETRYING", "FAILED", "CANCELLED"},
   RUNNING   |-> {"RETRYING", "COMPLETED", "FAILED", "CANCELLED", "QUEUED"},
   RETRYING  |-> {"QUEUED", "RUNNING", "FAILED", "CANCELLED"},
   COMPLETED |-> {}, FAILED |-> {}, CANCELLED |-> {}]

CanTransitionExecution(from, to) == to \in VALID_TRANSITIONS[from]

Init == status \in {"PENDING", "QUEUED"} /\ events = 0 /\ letters = 0

Transition(to) ==
  /\ CanTransitionExecution(status, to)
  /\ status' = to
  /\ events' = IF to \in {"COMPLETED", "FAILED"} THEN events + 1 ELSE events
  /\ UNCHANGED letters

DeadLetter ==
  /\ status = "FAILED" /\ letters = 0
  /\ letters' = 1
  /\ UNCHANGED <<status, events>>

Next == DeadLetter \/ \E to \in DOMAIN VALID_TRANSITIONS : Transition(to)

Spec == Init /\ [][Next]_lifecycleVars
=============================================================================
