---------------------------- MODULE MCExecutionForm ----------------------------
(* ExecutionForm on small instances. *)
EXTENDS ExecutionForm

CONSTANTS d1, d2

DeviceSymmetry == Permutations(Device)
=============================================================================
