--------------------------- MODULE MCExecutionJob ---------------------------
(***************************************************************************)
(* Instances of ExecutionJob for TLC: one Job and two workers.              *)
(***************************************************************************)
EXTENDS ExecutionJob

CONSTANTS j1, w1, w2

MCJobs == {j1}
MCWorkers == {w1, w2}
=============================================================================
