--------------------------- MODULE MCWebhookIngress ---------------------------
(***************************************************************************)
(* Instances of WebhookIngress for TLC.                                    *)
(***************************************************************************)
EXTENDS WebhookIngress, TLC

NoRetry == [s \in 1..StepCount |-> 1]
FirstRetries == [s \in 1..StepCount |-> IF s = 1 THEN 2 ELSE 1]

=============================================================================
