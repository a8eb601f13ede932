----------------------------- MODULE MCAccounts -----------------------------
(* Accounts on small instances. *)
EXTENDS Accounts, TLC

CONSTANTS t1, t2, here, bob, good, better, weak, lower

Symmetry == Permutations(Thread) \cup Permutations(Strong)
LowerOf(e) == lower
LimitOf == [b \in Bucket |-> IF b \in {"signup:ip", "signup:account"} THEN 2 ELSE 1]
WindowOf == [b \in Bucket |-> IF b \in {"signup:ip", "signup:account"} THEN 1 ELSE 2]
=============================================================================
