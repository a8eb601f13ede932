------------------------------- MODULE Dispatch -------------------------------
(***************************************************************************)
(* Submitting a command through the backend: the routes execute,           *)
(* execute/any and status of backend/app/routers/commands.py, and the      *)
(* routes of the IoT server they forward to.                               *)
(*                                                                         *)
(* The backend keeps nothing: execute/any asks for the devices, then for   *)
(* the queue of each, and then queues the command, in requests of its own  *)
(* to a server on which others go on.  What the others do to an entry is   *)
(* what CommandLog promises; CommandQueue is shown to implement it.        *)
(***************************************************************************)
EXTENDS Integers, FiniteSets

CONSTANTS
  Device,
  MaxEntry,      \* bound on the entries
  Limit,     \* entries of a device that the IoT server lists
  MaxStatus, \* bound on the changes of a device's status
  None

ASSUME DispatchAssumption ==
  /\ {MaxEntry, Limit, MaxStatus} \subseteq Nat
  /\ None \notin Device

Entry == 1..MaxEntry  \* queue ids, in the order of queued_at

VARIABLES
  log,     \* what v_command_log says of each entry
  owner,   \* the device it was queued for
  status,  \* devices.status, or deleted
  changes, \* of status
  request, \* the submission that the backend serves
  slack    \* what the loads it reads may be wrong by: changes of others
           \* since the first, and active entries beyond those listed

server == <<log, owner, status, changes>>

Log == INSTANCE CommandLog

Queued == {e \in Entry : log[e] # "absent"}
NextId == Cardinality(Queued) + 1

(* v_command_log of a device: the active entries, and those that are listed *)
ActiveOf(d) == {e \in Queued : owner[e] = d /\ log[e] \in {"queued", "running"}}
Newer(e) == {f \in Queued : owner[f] = owner[e] /\ f > e}
ListedActive(d) == {e \in ActiveOf(d) : Cardinality(Newer(e)) < Limit}

Idle == [pc |-> "idle", device |-> None, todo |-> {}, loads |-> <<>>, entry |-> None]

ServerInit ==
  /\ Log!LogInit
  /\ owner = [e \in Entry |-> None]
  /\ status \in [Device -> {"online", "offline"}]
  /\ changes = 0
  /\ request = Idle
  /\ slack = 0

-----------------------------------------------------------------------------
Serving(pc) == request.pc = pc

(* POST execute, for a device, or execute/any, for None; 401 and 429 aside  *)
BeginExecute(d) ==
  /\ Serving("idle")
  /\ request' = [Idle EXCEPT !.pc = IF d = None THEN "list" ELSE "execute", !.device = d]
  /\ UNCHANGED <<server, slack>>

Fail == request' = [Idle EXCEPT !.pc = "failed"]

(* GET /devices: 404 when none is online or busy                           *)
Available == {d \in Device : status[d] \in {"online", "busy"}}

ListDevices ==
  /\ Serving("list")
  /\ IF Available = {} THEN Fail
     ELSE request' = [request EXCEPT !.pc = "queues", !.todo = Available]
  /\ UNCHANGED <<server, slack>>

(* running commands are not counted *)
OnlyQueuedMutant(d) == Cardinality({e \in ListedActive(d) : log[e] = "queued"})

ActiveCount(d) == Cardinality(ListedActive(d))

(* GET /devices/{id}/queue, one device after the other, in any order: 404  *)
(* when it has been deleted since.                                         *)
ReadQueue(d) ==
  /\ Serving("queues") /\ d \in request.todo
  /\ IF status[d] = "deleted"
     THEN Fail /\ slack' = 0
     ELSE /\ request' = [request EXCEPT
               !.pc = IF request.todo = {d} THEN "execute" ELSE "queues",
               !.todo = @ \ {d},
               !.loads = [x \in DOMAIN @ \cup {d} |-> IF x = d THEN ActiveCount(d) ELSE @[x]]]
          /\ slack' = slack + Cardinality(ActiveOf(d) \ ListedActive(d))
  /\ UNCHANGED server

(* min takes the first of the smallest loads.                              *)
Selected ==
  IF request.device # None THEN {request.device}
  ELSE {d \in DOMAIN request.loads :
          \A x \in DOMAIN request.loads : request.loads[d] <= request.loads[x]}

(* execute_command of the IoT server                                       *)
Enqueue(d) ==
  /\ status[d] # "deleted" /\ NextId \in Entry
  /\ Log!Move(NextId, "absent", "queued")
  /\ owner' = [owner EXCEPT ![NextId] = d]
  /\ UNCHANGED <<status, changes>>

(* POST /execute, whose answer can be lost                                 *)
Execute(d) ==
  /\ Serving("execute") /\ d \in Selected
  /\ Enqueue(d)
  /\ request' \in {[Idle EXCEPT !.pc = "queued", !.entry = NextId],
                   [Idle EXCEPT !.pc = "failed"]}
  /\ slack' = 0

(* No answer or one that is not in order (502, 503), or the command or the *)
(* device is gone or the parameters are wrong (404, 400): no second try.   *)
ForwardFails ==
  /\ request.pc \in {"list", "queues", "execute"}
  /\ Fail
  /\ slack' = 0
  /\ UNCHANGED server

-----------------------------------------------------------------------------
(* Other users, the agents, and a submission whose caller has given up     *)
Others ==
  /\ \/ \E d \in Device : Enqueue(d)
     \/ Log!LogNext /\ Queued' = Queued /\ UNCHANGED <<owner, status, changes>>
  /\ slack' = IF request.loads = <<>> THEN 0 ELSE slack + 1
  /\ UNCHANGED request

(* Registration, polls, the monitor, and an administrator                  *)
StatusChanges ==
  /\ changes < MaxStatus
  /\ changes' = changes + 1
  /\ \E d \in Device, s \in {"online", "busy", "offline", "deleted"} :
       s # status[d] /\ status' = [status EXCEPT ![d] = s]
  /\ UNCHANGED <<log, owner, request, slack>>

ServerNext ==
  \/ ListDevices \/ ForwardFails
  \/ \E d \in Device : ReadQueue(d) \/ Execute(d)
  \/ Others \/ StatusChanges

-----------------------------------------------------------------------------
ServerTypeOK ==
  /\ log \in [Entry -> Log!LogValue]
  /\ owner \in [Entry -> Device \cup {None}]
  /\ \A e \in Entry : e \in Queued <=> owner[e] # None
  /\ status \in [Device -> {"online", "busy", "offline", "deleted"}]
  /\ changes \in 0..MaxStatus
  /\ request.pc \in {"idle", "list", "queues", "execute", "queued", "failed"}
  /\ request.device \in Device \cup {None} /\ request.todo \subseteq Device
  /\ request.loads = <<>> \/ request.loads \in [DOMAIN request.loads -> 0..Limit]
  /\ request.entry \in Queued \cup {None}
  /\ slack \in Nat

(* While execute/any is about to queue the command, no device it can have  *)
(* chosen is more loaded than any other it asked, except for what others   *)
(* did to the queues since it asked the first, and the active entries that *)
(* the lists left out (backend/app/routers/commands.py:188-213).           *)
ChosenLeastLoaded ==
  Serving("execute") /\ request.device = None =>
    \A chosen \in Selected, d \in DOMAIN request.loads :
      Cardinality(ActiveOf(chosen)) <= Cardinality(ActiveOf(d)) + slack
=============================================================================
