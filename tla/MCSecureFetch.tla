--------------------------- MODULE MCSecureFetch ----------------------------
(* SecureFetch on small instances. *)
EXTENDS SecureFetch

CONSTANTS c1, c2, c3
=============================================================================
