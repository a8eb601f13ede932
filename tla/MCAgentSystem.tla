--------------------------- MODULE MCAgentSystem ----------------------------
(* AgentSystem on a small instance. *)
EXTENDS AgentSystem

CONSTANTS d1, c1, t1
=============================================================================
