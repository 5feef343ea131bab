-------------------------- MODULE MCExecutionEngine --------------------------
(***************************************************************************)
(* Instances of ExecutionEngine for TLC.                                   *)
(***************************************************************************)
EXTENDS ExecutionEngine, TLC

(* The retry policies of the instances' steps.                             *)
NoRetry == [s \in 1..StepCount |-> 1]
LastRetries == [s \in 1..StepCount |-> IF s = StepCount THEN 2 ELSE 1]
FirstRetries == [s \in 1..StepCount |-> IF s = 1 THEN 2 ELSE 1]

(* The worker processes are interchangeable in safety runs.                *)
WorkerSymmetry == Permutations(Workers)
=============================================================================
