----------------------------- MODULE CommandLog -----------------------------
(***************************************************************************)
(* The promise of the command log: what the dashboard and the REST clients *)
(* may observe of one queued command, through the status column of the     *)
(* view v_command_log, whatever the requests that race behind it.          *)
(*                                                                         *)
(*     absent -> queued -> running -> done | error                         *)
(*                     \-> cancelled                                       *)
(*                                                                         *)
(* done, error and cancelled are final.  CommandQueue is shown to          *)
(* implement this module.                                                  *)
(***************************************************************************)

CONSTANT Entry      \* the queue entries

VARIABLE log        \* log[e] is what v_command_log says of entry e

Final == {"done", "error", "cancelled"}

LogValue == {"absent", "queued", "running"} \cup Final

LogInit == log = [e \in Entry |-> "absent"]

Move(e, from, to) ==
  /\ log[e] = from
  /\ log' = [log EXCEPT ![e] = to]

LogNext ==
  \E e \in Entry :
    \/ Move(e, "absent", "queued")
    \/ Move(e, "queued", "running")
    \/ Move(e, "queued", "cancelled")
    \/ Move(e, "running", "done")
    \/ Move(e, "running", "error")

LogSpec == LogInit /\ [][LogNext]_log
=============================================================================
