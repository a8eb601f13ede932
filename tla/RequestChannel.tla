--------------------------- MODULE RequestChannel ---------------------------
(***************************************************************************)
(* The promise of the encrypted transport: what the code that calls        *)
(* forward_secure_backend_iot_request or SecureAgentTransport.request may  *)
(* count on, whatever sessions, locks and attempts it takes.               *)
(*                                                                         *)
(* A caller issues its requests one after another.  Each is executed at    *)
(* most once, and ends with an answer, after it was executed, or with an   *)
(* error, which says nothing: a request may have been executed, or may     *)
(* still be, after its caller was told that it failed and has issued       *)
(* others.                                                                 *)
(***************************************************************************)
EXTENDS Naturals

CONSTANTS
  Caller,    \* those who issue requests
  MaxCall    \* bound on the requests of each

VARIABLES
  issued,    \* issued[c]: how many requests c has issued
  executed,  \* executed[c, k]: how often the k-th of them was executed
  outcome    \* outcome[c, k]: what c was told of it

ChannelInit ==
  /\ issued = [c \in Caller |-> 0]
  /\ executed = [r \in Caller \X (1..MaxCall) |-> 0]
  /\ outcome = [r \in Caller \X (1..MaxCall) |-> "none"]

Open(c) == issued[c] # 0 /\ outcome[<<c, issued[c]>>] = "none"

Issue(c) ==
  /\ issued[c] < MaxCall /\ ~Open(c)
  /\ issued' = [issued EXCEPT ![c] = @ + 1]
  /\ UNCHANGED <<executed, outcome>>

Execute(c, k) ==
  /\ k <= issued[c] /\ executed[<<c, k>>] = 0
  /\ executed' = [executed EXCEPT ![<<c, k>>] = 1]
  /\ UNCHANGED <<issued, outcome>>

Conclude(c, o) ==
  /\ Open(c)
  /\ o = "ok" => executed[<<c, issued[c]>>] = 1
  /\ outcome' = [outcome EXCEPT ![<<c, issued[c]>>] = o]
  /\ UNCHANGED <<issued, executed>>

ChannelNext ==
  \E c \in Caller :
    \/ Issue(c)
    \/ \E k \in 1..MaxCall : Execute(c, k)
    \/ \E o \in {"ok", "failed"} : Conclude(c, o)

ChannelSpec == ChannelInit /\ [][ChannelNext]_<<issued, executed, outcome>>
=============================================================================
