---------------------------- MODULE CommandQueue ----------------------------
(***************************************************************************)
(* The IoT server: the handlers of server-iot/app/routers and the device   *)
(* monitor of main.py, over the tables command_queue, command_executions,  *)
(* command_results and devices.                                            *)
(*                                                                         *)
(* Every request is served by a thread of its own with a database session  *)
(* of its own at READ COMMITTED, so the handlers interleave between their  *)
(* queries.  A handler is a sequence of steps, one per query whose answer  *)
(* the rest of the handler depends on, and a last one that is its COMMIT.  *)
(* Changes are flushed at commit (autoflush is off): a handler that raises *)
(* leaves no trace.                                                        *)
(*                                                                         *)
(* Entries are numbered in the order of queued_at, which is the start of   *)
(* the inserting transaction and not its commit.                           *)
(*                                                                         *)
(* What surrounds the server is the weakest environment it is used in:     *)
(* agents that poll at any time, lose answers, and report any number of    *)
(* times on what they were handed (AgentSystem is the real agent), users   *)
(* who queue and cancel at any time, and an operator who soft-deletes rows *)
(* in the database.                                                        *)
(*                                                                         *)
(* Operators whose name ends in Mutant are plausible mistakes that the     *)
(* properties are tried against; nothing else uses them.                   *)
(***************************************************************************)
EXTENDS Integers, FiniteSets

CONSTANTS
  Device,           \* names an agent can register
  Command,          \* rows of table commands
  MaxEntry,         \* bound on the number of queue entries
  Thread,           \* concurrently served requests
  DeletableDevice,  \* devices and commands that an operator may
  DeletableCommand, \* soft-delete
  MaxRestart,       \* bound on the restarts of the server process
  None              \* neither a device nor a command

ASSUME CommandQueueAssumption ==
  /\ MaxEntry \in Nat
  /\ MaxRestart \in Nat
  /\ DeletableDevice \subseteq Device
  /\ DeletableCommand \subseteq Command
  /\ None \notin Device \cup Command

VARIABLES
  begun,      \* number of execute transactions started so far
  target,     \* target[e], what[e]: device and command of entry e
  what,
  rows,       \* entries committed to command_queue
  execution,  \* command_executions: "none", "started" or "cancelled"
  result,     \* command_results: "none", "ok" or "error"
  registered, \* devices with a row in table devices
  deletedDev, \* devices and commands with is_deleted
  deletedCmd,
  status,     \* devices.status
  seen,       \* devices.last_seen, as the monitor will compare it
  req,        \* the request each thread is serving
  scan,       \* devices the monitor has read as stale and not yet updated
  offered,    \* offered[d]: entries that answers to polls handed to agent d
  restarts

tables == <<begun, target, what, rows, execution, result>>
devices == <<registered, status, seen>>
deleted == <<deletedDev, deletedCmd>>
vars == <<tables, devices, deleted, req, scan, offered, restarts>>

Entry == 1..MaxEntry
NoEntry == 0
Status == {"online", "busy", "offline"}

-----------------------------------------------------------------------------
(* The request of a thread: where it stands (pc), the device and the entry *)
(* it is about, the status it loaded with the device row, and whether the  *)
(* entry had no execution row when it was selected.                        *)

PC == {"idle", "execute", "register", "pollSelect", "pollCommit", "reply",
       "callback", "cancel"}

Request == [pc : PC, dev : Device \cup {None}, ent : Entry \cup {NoEntry},
            saw : Status \cup {"unloaded"}, fresh : BOOLEAN]

Idle == [pc |-> "idle", dev |-> None, ent |-> NoEntry,
         saw |-> "unloaded", fresh |-> FALSE]

Live(d) == d \in registered /\ d \notin deletedDev

(* An UPDATE writes only the columns whose value differs from the loaded   *)
(* one (SQLAlchemy's net change): setting status back to what was loaded   *)
(* leaves what another transaction wrote meanwhile.                        *)
Flushed(loaded, new, stored) == IF loaded = new THEN stored ELSE new

(* v_command_log.status *)
LogStatus(e) ==
  IF e \notin rows THEN "absent"
  ELSE IF result[e] = "ok" THEN "done"
  ELSE IF result[e] = "error" THEN "error"
  ELSE IF execution[e] = "started" THEN "running"
  ELSE IF execution[e] = "cancelled" THEN "cancelled"
  ELSE "queued"

(* redelivery forgotten: only entries that were never started *)
StartedLostMutant(d) ==
  {e \in rows : target[e] = d /\ execution[e] = "none" /\ result[e] = "none"}

(* the coalesce on is_cancelled forgotten *)
CancelledKeptMutant(d) == {e \in rows : target[e] = d /\ result[e] = "none"}

(* The rows the poll's query keeps: of the device, not cancelled and       *)
(* without a result; it takes the one with the least queued_at.            *)
Pending(d) ==
  {e \in rows : target[e] = d /\ execution[e] # "cancelled" /\ result[e] = "none"}

(* no ORDER BY *)
AnyRowMutant(e, d) == e \in Pending(d)

IsHead(e, d) == e \in Pending(d) /\ \A f \in Pending(d) : e <= f

-----------------------------------------------------------------------------
Init ==
  /\ begun = 0
  /\ target = [e \in Entry |-> None]
  /\ what = [e \in Entry |-> None]
  /\ rows = {}
  /\ execution = [e \in Entry |-> "none"]
  /\ result = [e \in Entry |-> "none"]
  /\ registered = {}
  /\ deletedDev = {}
  /\ deletedCmd = {}
  /\ status = [d \in Device |-> "offline"]
  /\ seen = [d \in Device |-> "null"]
  /\ req = [t \in Thread |-> Idle]
  /\ scan = {}
  /\ offered = [d \in Device |-> {}]
  /\ restarts = 0

Start(t, r) == req[t] = Idle /\ req' = [req EXCEPT ![t] = r]
Finish(t) == req' = [req EXCEPT ![t] = Idle]

(***************************************************************************)
(* POST /agent/register.  The key checks of secure mode are the subject of *)
(* module Enrollment.                                                      *)
(***************************************************************************)
RegisterLoad(t, d) ==
  /\ d \notin deletedDev                              \* otherwise 400
  /\ Start(t, [Idle EXCEPT !.pc = "register", !.dev = d,
                 !.saw = IF d \in registered THEN status[d] ELSE "unloaded"])
  /\ UNCHANGED <<tables, devices, deleted, scan, offered, restarts>>

RestoreDevice(t) ==
  LET d == req[t].dev IN
  /\ req[t].pc = "register" /\ req[t].saw # "unloaded"
  /\ status' = [status EXCEPT ![d] = Flushed(req[t].saw, "online", @)]
  /\ seen' = [seen EXCEPT ![d] = "fresh"]
  /\ Finish(t)
  /\ UNCHANGED <<tables, registered, deleted, scan, offered, restarts>>

(* The insert of a new device leaves last_seen NULL; it fails if another   *)
(* request has inserted the name meanwhile.                                *)
InsertDevice(t) ==
  LET d == req[t].dev IN
  /\ req[t].pc = "register" /\ req[t].saw = "unloaded"
  /\ IF d \in registered
     THEN UNCHANGED devices
     ELSE /\ registered' = registered \cup {d}
          /\ status' = [status EXCEPT ![d] = "online"]
          /\ seen' = [seen EXCEPT ![d] = "null"]
  /\ Finish(t)
  /\ UNCHANGED <<tables, deleted, scan, offered, restarts>>

(***************************************************************************)
(* POST /execute.  The handler is async and awaits nothing: it has the     *)
(* event loop for itself, and two of them never overlap, in secure mode    *)
(* neither, where local_client sends the request to the same process       *)
(* (routers/secure.py:59).                                                 *)
(***************************************************************************)
ExecuteBegin(t, d, c) ==
  /\ begun < MaxEntry
  /\ \A u \in Thread : req[u].pc # "execute"
  /\ Live(d)                                           \* otherwise 404
  /\ c \notin deletedCmd                               \* otherwise 404
  /\ begun' = begun + 1
  /\ target' = [target EXCEPT ![begun + 1] = d]
  /\ what' = [what EXCEPT ![begun + 1] = c]
  /\ Start(t, [Idle EXCEPT !.pc = "execute", !.ent = begun + 1])
  /\ UNCHANGED <<rows, execution, result, devices, deleted, scan, offered, restarts>>

ExecuteCommit(t) ==
  /\ req[t].pc = "execute"
  /\ rows' = rows \cup {req[t].ent}
  /\ Finish(t)
  /\ UNCHANGED <<begun, target, what, execution, result, devices, deleted, scan,
                 offered, restarts>>

(***************************************************************************)
(* GET /agent/{device_id}/commands                                         *)
(***************************************************************************)
PollLoadDevice(t, d) ==
  /\ Live(d)                                           \* otherwise 404
  /\ Start(t, [Idle EXCEPT !.pc = "pollSelect", !.dev = d, !.saw = status[d]])
  /\ UNCHANGED <<tables, devices, deleted, scan, offered, restarts>>

(* One statement selects the head and whether it has an execution row.     *)
PollSelect(t) ==
  LET d == req[t].dev IN
  /\ req[t].pc = "pollSelect"
  /\ \/ /\ Pending(d) = {}
        /\ req' = [req EXCEPT ![t].pc = "pollCommit"]
     \/ \E e \in Entry :
        /\ IsHead(e, d)
        /\ req' = [req EXCEPT ![t].pc = "pollCommit", ![t].ent = e,
                              ![t].fresh = execution[e] = "none"]
  /\ UNCHANGED <<tables, devices, deleted, scan, offered, restarts>>

(* the poll records last_seen only *)
OnlySeenMutant(t, final) ==
  /\ seen' = [seen EXCEPT ![req[t].dev] = "fresh"]
  /\ UNCHANGED status

PollWrites(t, final) ==
  LET d == req[t].dev IN
  /\ status' = [status EXCEPT ![d] = Flushed(req[t].saw, final, @)]
  /\ seen' = [seen EXCEPT ![d] = "fresh"]

(* Nothing to do, or a head whose command is deleted: no task is handed    *)
(* out, the entry stays as it is.                                          *)
PollEmpty(t) ==
  /\ req[t].pc = "pollCommit"
  /\ req[t].ent # NoEntry => what[req[t].ent] \in deletedCmd
  /\ PollWrites(t, "online")
  /\ Finish(t)
  /\ UNCHANGED <<tables, registered, deleted, scan, offered, restarts>>

(* INSERT ... ON CONFLICT DO NOTHING *)
ConflictIgnoredMutant(t) ==
  LET e == req[t].ent IN
  /\ req[t].pc = "pollCommit" /\ e # NoEntry /\ what[e] \notin deletedCmd
  /\ execution' = IF execution[e] = "none" THEN [execution EXCEPT ![e] = "started"]
                  ELSE execution
  /\ PollWrites(t, "busy")
  /\ req' = [req EXCEPT ![t].pc = "reply"]
  /\ UNCHANGED <<begun, target, what, rows, result, registered, deleted, scan,
                 offered, restarts>>

PollDispatch(t) ==
  LET e == req[t].ent IN
  /\ req[t].pc = "pollCommit"
  /\ e # NoEntry /\ what[e] \notin deletedCmd
  /\ IF req[t].fresh
     THEN /\ execution[e] = "none"
          /\ execution' = [execution EXCEPT ![e] = "started"]
     ELSE UNCHANGED execution
  /\ PollWrites(t, "busy")
  /\ req' = [req EXCEPT ![t].pc = "reply"]
  /\ UNCHANGED <<begun, target, what, rows, result, registered, deleted, scan,
                 offered, restarts>>

(* The INSERT meets an execution row committed since the select: the       *)
(* primary key refuses it, the transaction is rolled back, 500.            *)
PollConflict(t) ==
  LET e == req[t].ent IN
  /\ req[t].pc = "pollCommit"
  /\ e # NoEntry /\ what[e] \notin deletedCmd
  /\ req[t].fresh /\ execution[e] # "none"
  /\ Finish(t)
  /\ UNCHANGED <<tables, devices, deleted, scan, offered, restarts>>

(* The answer reaches the agent, or the agent no longer waits for it.      *)
Deliver(t) ==
  /\ req[t].pc = "reply"
  /\ offered' = [offered EXCEPT ![req[t].dev] = @ \cup {req[t].ent}]
  /\ Finish(t)
  /\ UNCHANGED <<tables, devices, deleted, scan, restarts>>

Lose(t) ==
  /\ req[t].pc = "reply"
  /\ Finish(t)
  /\ UNCHANGED <<tables, devices, deleted, scan, offered, restarts>>

(***************************************************************************)
(* POST /agent/callback                                                    *)
(***************************************************************************)
ReceiveCallback(t, d, e) ==
  /\ e \in rows                                        \* otherwise 404
  /\ Start(t, [Idle EXCEPT !.pc = "callback", !.dev = d, !.ent = e, !.saw = status[d]])
  /\ UNCHANGED <<tables, devices, deleted, scan, offered, restarts>>

(* What is assumed of an agent: it reports on entries it was handed.       *)
CallbackLoad(t, d, e) == e \in offered[d] /\ ReceiveCallback(t, d, e)

(* A second result for the entry is refused by the primary key, and the    *)
(* change of status is rolled back with it.                                *)
CallbackCommit(t, outcome) ==
  LET d == req[t].dev  e == req[t].ent IN
  /\ req[t].pc = "callback"
  /\ IF result[e] = "none"
     THEN /\ result' = [result EXCEPT ![e] = outcome]
          /\ status' = [status EXCEPT ![d] = Flushed(req[t].saw, "online", @)]
     ELSE UNCHANGED <<result, status>>
  /\ Finish(t)
  /\ UNCHANGED <<begun, target, what, rows, execution, registered, seen, deleted,
                 scan, offered, restarts>>

(***************************************************************************)
(* POST /devices/{device_id}/queue/{queue_id}/cancel                       *)
(***************************************************************************)
(* the queue id is not kept *)
EntryForgottenMutant(t, e) ==
  /\ LogStatus(e) = "queued"
  /\ Start(t, [Idle EXCEPT !.pc = "cancel"])
  /\ UNCHANGED <<tables, devices, deleted, scan, offered, restarts>>

CancelRead(t, e) ==
  /\ LogStatus(e) = "queued"                           \* otherwise 404 or 409
  /\ Start(t, [Idle EXCEPT !.pc = "cancel", !.ent = e])
  /\ UNCHANGED <<tables, devices, deleted, scan, offered, restarts>>

(* the execution row is written over *)
CancelOverwritesMutant(t) ==
  /\ req[t].pc = "cancel"
  /\ execution' = [execution EXCEPT ![req[t].ent] = "cancelled"]
  /\ Finish(t)
  /\ UNCHANGED <<begun, target, what, rows, result, devices, deleted, scan, offered,
                 restarts>>

CancelCommit(t) ==
  LET e == req[t].ent IN
  /\ req[t].pc = "cancel"
  /\ execution' = IF execution[e] = "none"             \* otherwise 500
                  THEN [execution EXCEPT ![e] = "cancelled"] ELSE execution
  /\ Finish(t)
  /\ UNCHANGED <<begun, target, what, rows, result, devices, deleted, scan, offered,
                 restarts>>

(***************************************************************************)
(* The device monitor: one pass at a time, read then write.                *)
(***************************************************************************)
(* busy devices are overlooked *)
OnlyOnlineMutant(d) == Live(d) /\ status[d] = "online" /\ seen[d] = "stale"

Stale(d) == Live(d) /\ status[d] # "offline" /\ seen[d] = "stale"

MonitorRead ==
  /\ scan = {}
  /\ scan' = {d \in Device : Stale(d)}
  /\ UNCHANGED <<tables, devices, deleted, req, offered, restarts>>

MonitorCommit ==
  /\ scan # {}
  /\ status' = [d \in Device |-> IF d \in scan THEN "offline" ELSE status[d]]
  /\ scan' = {}
  /\ UNCHANGED <<tables, registered, seen, deleted, req, offered, restarts>>

(***************************************************************************)
(* The environment.                                                        *)
(***************************************************************************)

(* The monitor interval has passed since last_seen of d.                   *)
Age(d) ==
  /\ seen[d] = "fresh"
  /\ seen' = [seen EXCEPT ![d] = "stale"]
  /\ UNCHANGED <<tables, registered, status, deleted, req, scan, offered, restarts>>

DeleteCommand(c) ==
  /\ c \in DeletableCommand \ deletedCmd
  /\ deletedCmd' = deletedCmd \cup {c}
  /\ UNCHANGED <<tables, devices, deletedDev, req, scan, offered, restarts>>

DeleteDevice(d) ==
  /\ d \in DeletableDevice \cap registered
  /\ d \notin deletedDev
  /\ deletedDev' = deletedDev \cup {d}
  /\ UNCHANGED <<tables, devices, deletedCmd, req, scan, offered, restarts>>

(* The server process stops: transactions in flight are rolled back.       *)
Restart ==
  /\ restarts < MaxRestart
  /\ restarts' = restarts + 1
  /\ req' = [t \in Thread |-> Idle]
  /\ scan' = {}
  /\ UNCHANGED <<tables, devices, deleted, offered>>

-----------------------------------------------------------------------------
Step(t) ==
  \/ RestoreDevice(t) \/ InsertDevice(t)
  \/ ExecuteCommit(t)
  \/ PollSelect(t) \/ PollEmpty(t) \/ PollDispatch(t) \/ PollConflict(t)
  \/ \E outcome \in {"ok", "error"} : CallbackCommit(t, outcome)
  \/ CancelCommit(t)

Answer(t) == Deliver(t) \/ Lose(t)

Arrive(t) ==
  \/ \E d \in Device : RegisterLoad(t, d) \/ PollLoadDevice(t, d)
  \/ \E d \in Device, c \in Command : ExecuteBegin(t, d, c)
  \/ \E d \in Device, e \in Entry : CallbackLoad(t, d, e)
  \/ \E e \in Entry : CancelRead(t, e)

Monitor == MonitorRead \/ MonitorCommit

Environment ==
  \/ \E d \in Device : Age(d) \/ DeleteDevice(d)
  \/ \E c \in Command : DeleteCommand(c)
  \/ Restart

Next ==
  \/ \E t \in Thread : Arrive(t) \/ Step(t) \/ Answer(t)
  \/ Monitor
  \/ Environment

Spec == Init /\ [][Next]_vars

(***************************************************************************)
(* Fairness: a thread that serves a request goes on with it; the monitor   *)
(* loop runs for ever; an agent polls again and again and, having been     *)
(* handed an entry, reports on it while it has no result; the network does *)
(* not lose every answer.  Threads are shared, so an agent's requests are  *)
(* not continuously enabled: hence strong fairness.  Nothing is assumed of *)
(* users, of the operator or of restarts.                                  *)
(***************************************************************************)
Fairness ==
  /\ \A t \in Thread : WF_vars(Step(t)) /\ WF_vars(Answer(t))
  /\ WF_vars(MonitorRead) /\ WF_vars(MonitorCommit)

AgentFairness ==
  /\ \A d \in Device : SF_vars(\E t \in Thread : PollLoadDevice(t, d))
  /\ \A e \in Entry :
       /\ SF_vars(\E t \in Thread : req[t].ent = e /\ Deliver(t))
       /\ SF_vars(\E t \in Thread, d \in Device :
                     result[e] = "none" /\ CallbackLoad(t, d, e))

ServerFairSpec == Spec /\ Fairness
FairSpec == Spec /\ Fairness /\ AgentFairness

-----------------------------------------------------------------------------
TablesOK ==
  /\ begun \in 0..MaxEntry
  /\ target \in [Entry -> Device \cup {None}]
  /\ what \in [Entry -> Command \cup {None}]
  /\ rows \subseteq Entry
  /\ execution \in [Entry -> {"none", "started", "cancelled"}]
  /\ result \in [Entry -> {"none", "ok", "error"}]
  /\ registered \subseteq Device
  /\ deletedDev \subseteq Device
  /\ deletedCmd \subseteq Command
  /\ status \in [Device -> Status]
  /\ seen \in [Device -> {"null", "fresh", "stale"}]
  /\ scan \subseteq Device
  /\ offered \in [Device -> SUBSET Entry]
  /\ restarts \in 0..MaxRestart

(* A request has the fields that the rest of its handler needs.            *)
RequestOK(r) ==
  /\ r \in Request
  /\ r.pc \in {"register", "pollSelect", "pollCommit", "reply", "callback"} => r.dev \in Device
  /\ r.pc \in {"execute", "reply", "callback", "cancel"} => r.ent \in Entry

RequestsOK == req \in [Thread -> Request] /\ \A t \in Thread : RequestOK(req[t])

TypeOK == TablesOK /\ RequestsOK

Settled(e) == execution[e] = "cancelled" \/ result[e] # "none"

(* An agent is never handed an entry whose cancellation was acknowledged,  *)
(* nor can an entry it holds be cancelled any more, however the poll and   *)
(* the cancel request interleave (agent.py:226-281, devices.py:67-81).     *)
CancelledNeverOffered ==
  \A d \in Device : \A e \in offered[d] : execution[e] # "cancelled"

(* Entries of a device are started in the order of their queued_at, each   *)
(* after the previous one was settled: a task starts only when no other    *)
(* one of its device is waiting ahead of it or running (agent.py:235-236). *)
(* It needs the execute handlers not to overlap: queued_at is the start of *)
(* the inserting transaction, not its commit.                              *)
DispatchInOrder ==
  \A e, f \in rows :
    (e < f /\ target[e] = target[f] /\ execution[f] = "started") => Settled(e)

(* The status column of v_command_log goes through the life cycle of an    *)
(* entry and nothing else (02_schema.sql:85-91): a done, failed or         *)
(* cancelled entry stays so, and only a started one gets a result.         *)
Log == INSTANCE CommandLog WITH log <- [e \in Entry |-> LogStatus(e)]

ImplementsCommandLog == Log!LogSpec

(* Every queued entry is settled in the end: it is handed out again after  *)
(* lost answers, agents that vanish with it and restarts of the server,    *)
(* until its agent reports or a user cancels it (agent.py:226-281).        *)
EveryEntrySettles == \A e \in Entry : (e \in rows) ~> Settled(e)

(* ... and here it is enough that agents poll and report.                  *)
FairAgentsSettle == AgentFairness => EveryEntrySettles

(* The same for one entry whose command is not deleted, whatever happens   *)
(* to the others: agent.py:253 says that an entry whose command is missing *)
(* or deleted is skipped.                                                  *)
DeletedCommandIsSkipped ==
  \A e \in Entry :
    (e \in rows /\ what[e] \notin DeletableCommand) ~> Settled(e)

(* A device whose agent keeps polling does not stay marked offline, even   *)
(* when the monitor's update crosses a poll (main.py:29-40,                *)
(* agent.py:223-224).                                                      *)
PollingAgentComesBack ==
  AgentFairness =>
  \A d \in Device : []<>(d \in registered => status[d] # "offline" \/ d \in deletedDev)

(* A device that has polled once and then falls silent is marked offline,  *)
(* even if a late callback has set it online again (main.py:29-40,         *)
(* agent.py:318).                                                          *)
StaleGoesOffline ==
  \A d \in Device :
    seen[d] = "stale" ~> (status[d] = "offline" \/ seen[d] # "stale" \/ d \in deletedDev)

(* README.md:110 has the monitor "mark inactive agents offline": a         *)
(* registered device is marked offline in the end unless it polls.         *)
SilentGoesOffline ==
  \A d \in Device :
    d \in registered ~> (status[d] = "offline" \/ seen[d] = "fresh" \/ d \in deletedDev)

-----------------------------------------------------------------------------
(***************************************************************************)
(* The inductive invariant behind CancelledNeverOffered, DispatchInOrder   *)
(* and ImplementsCommandLog (proved in CommandQueue_proofs).               *)
(***************************************************************************)

(* Only a committed entry has execution and result rows (foreign keys),    *)
(* and only a started one a result.                                        *)
RowsInv ==
  \A e \in Entry :
    /\ e \in rows => e <= begun /\ target[e] \in Device
    /\ e \notin rows => execution[e] = "none" /\ result[e] = "none"
    /\ result[e] # "none" => execution[e] = "started"

OfferedInv ==
  \A d \in Device : \A e \in offered[d] :
    e \in rows /\ target[e] = d /\ execution[e] = "started"

(* One entry at most is being inserted, and it is the last one.            *)
ExecuteInv ==
  /\ \A t \in Thread : req[t].pc = "execute" =>
       /\ req[t].ent = begun /\ begun \in Entry /\ begun \notin rows
       /\ target[begun] \in Device
  /\ \A t, u \in Thread : req[t].pc = "execute" /\ req[u].pc = "execute" => t = u

(* What a poll, a callback or a cancel still knows after its last query.   *)
Knows(r) ==
  /\ r.pc \in {"reply", "callback"} =>
       r.ent \in rows /\ target[r.ent] = r.dev /\ execution[r.ent] = "started"
  /\ r.pc = "pollCommit" /\ r.ent # NoEntry =>
       /\ r.ent \in rows /\ target[r.ent] = r.dev
       /\ ~r.fresh => execution[r.ent] = "started"
       /\ \A f \in rows : f < r.ent /\ target[f] = target[r.ent] => Settled(f)
  /\ r.pc = "pollSelect" => r.ent = NoEntry
  /\ r.pc = "cancel" => r.ent \in rows

ThreadInv == \A t \in Thread : Knows(req[t])

IInv == RowsInv /\ OfferedInv /\ ExecuteInv /\ ThreadInv /\ DispatchInOrder
=============================================================================
