-------------------------- MODULE MCSecureSession ---------------------------
(* SecureSession on small instances. *)
EXTENDS SecureSession, TLC

CONSTANTS a, b

CallerSymmetry == Permutations(Caller)
=============================================================================
