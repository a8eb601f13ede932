--------------------------- MODULE MCCommandQueue ---------------------------
(* CommandQueue on small instances. *)
EXTENDS CommandQueue, TLC

CONSTANTS d1, d2, c1, c2, t1, t2

(* Threads are interchangeable, in the safety runs only. *)
ThreadSymmetry == Permutations(Thread)
=============================================================================
