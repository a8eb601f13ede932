---------------------------- MODULE MCEnrollment ----------------------------
(* Enrollment on small instances.  The run also evaluates the assumptions  *)
(* of MCHandshake: the handshake that comes before a registration.         *)
EXTENDS Enrollment, MCHandshake

CONSTANTS k1, k2, t1, t2
=============================================================================
