---------------------------- MODULE AgentSystem -----------------------------
(***************************************************************************)
(* The IoT server of CommandQueue with the agents of agents/main.py in     *)
(* place of its abstract environment.  An agent is a process with two      *)
(* threads that share current_task and task_event under task_lock:         *)
(*                                                                         *)
(*   heartbeat: poll the server, take the task it offers if there is no    *)
(*              current one, sleep, and so on;                             *)
(*   worker:    wait for the event, clear it, read the current task, run   *)
(*              it, report, and release it in the finally clause.          *)
(*                                                                         *)
(* Calls are synchronous HTTP with a timeout: the caller may stop waiting  *)
(* (or never reach the server) while the server goes on with the request.  *)
(***************************************************************************)
EXTENDS CommandQueue

CONSTANTS
  MaxCrash,   \* bound on the crashes of agent processes and the deaths of worker threads
  NoThread    \* not a thread

ASSUME AgentSystemAssumption ==
  /\ MaxCrash \in Nat
  /\ NoThread \notin Thread

VARIABLES
  hb,        \* main and heartbeat thread: pc, the server thread waited for, the offer
  worker,    \* worker thread: pc, the server thread it waits for, its task
  current,   \* current_task, NoEntry for None
  event,     \* task_event
  crashes

agent == <<hb, worker, current, event, crashes>>
allVars == <<vars, agent>>

Down == [pc |-> "down", call |-> NoThread, offer |-> NoEntry]
Sleeping == [pc |-> "sleep", call |-> NoThread, offer |-> NoEntry]
Waiting == [pc |-> "wait", call |-> NoThread, task |-> NoEntry]

AgentInit ==
  /\ Init
  /\ hb = [d \in Device |-> Down]
  /\ worker = [d \in Device |-> Waiting]
  /\ current = [d \in Device |-> NoEntry]
  /\ event = [d \in Device |-> FALSE]
  /\ crashes = 0

-----------------------------------------------------------------------------
(* Registration precedes both threads and is retried until it succeeds.    *)
Register(t, d) ==
  /\ hb[d] = Down
  /\ RegisterLoad(t, d)
  /\ hb' = [hb EXCEPT ![d] = [@ EXCEPT !.pc = "register", !.call = t]]
  /\ UNCHANGED <<worker, current, event, crashes>>

(* heartbeat_loop *)
Poll(t, d) ==
  /\ hb[d] = Sleeping
  /\ PollLoadDevice(t, d)
  /\ hb' = [hb EXCEPT ![d] = [@ EXCEPT !.pc = "wait", !.call = t]]
  /\ UNCHANGED <<worker, current, event, crashes>>

(* the server answers before it commits *)
EarlyAnswerMutant(t) ==
  LET d == req[t].dev IN
  /\ req[t].pc = "pollCommit" /\ req[t].ent # NoEntry /\ hb[d].call = t
  /\ hb' = [hb EXCEPT ![d] = [pc |-> "offered", call |-> NoThread, offer |-> req[t].ent]]
  /\ UNCHANGED <<vars, worker, current, event, crashes>>

Offer(t) ==
  LET d == req[t].dev IN
  /\ req[t].pc = "reply" /\ hb[d].call = t
  /\ Deliver(t)
  /\ hb' = [hb EXCEPT ![d] = [pc |-> "offered", call |-> NoThread, offer |-> req[t].ent]]
  /\ UNCHANGED <<worker, current, event, crashes>>

LateOffer(t) ==
  /\ req[t].pc = "reply" /\ hb[req[t].dev].call # t
  /\ Lose(t)
  /\ UNCHANGED agent

Timeout(d) ==
  /\ hb[d].pc \in {"register", "wait"}
  /\ hb' = [hb EXCEPT ![d] = IF @.pc = "register" THEN Down ELSE Sleeping]
  /\ UNCHANGED <<vars, worker, current, event, crashes>>

(* a busy agent takes the new task *)
TaskReplacedMutant(d) ==
  /\ hb[d].pc = "offered"
  /\ hb' = [hb EXCEPT ![d] = Sleeping]
  /\ current' = [current EXCEPT ![d] = hb[d].offer]
  /\ event' = [event EXCEPT ![d] = TRUE]
  /\ UNCHANGED <<vars, worker, crashes>>

(* the event is not set *)
EventForgottenMutant(d) ==
  /\ hb[d].pc = "offered"
  /\ hb' = [hb EXCEPT ![d] = Sleeping]
  /\ current' = [current EXCEPT ![d] = IF @ = NoEntry THEN hb[d].offer ELSE @]
  /\ UNCHANGED <<vars, worker, event, crashes>>

TakeOffer(d) ==
  /\ hb[d].pc = "offered"
  /\ hb' = [hb EXCEPT ![d] = Sleeping]
  /\ IF current[d] = NoEntry
     THEN /\ current' = [current EXCEPT ![d] = hb[d].offer]
          /\ event' = [event EXCEPT ![d] = TRUE]
     ELSE UNCHANGED <<current, event>>
  /\ UNCHANGED <<vars, worker, crashes>>

(* worker_loop *)
WakeUp(d) ==
  /\ worker[d].pc = "wait" /\ event[d]
  /\ event' = [event EXCEPT ![d] = FALSE]
  /\ worker' = [worker EXCEPT ![d].pc = "woken"]
  /\ UNCHANGED <<vars, hb, current, crashes>>

ReadTask(d) ==
  /\ worker[d].pc = "woken"
  /\ worker' = [worker EXCEPT ![d] =
       IF current[d] = NoEntry THEN Waiting ELSE [@ EXCEPT !.pc = "run", !.task = current[d]]]
  /\ UNCHANGED <<vars, hb, current, event, crashes>>

(* no finally: a failed callback leaves the task current *)
TaskKeptMutant(d) ==
  /\ worker[d].pc = "run"
  /\ \E t \in Thread : req[t] = Idle
  /\ worker' = [worker EXCEPT ![d] = Waiting]
  /\ UNCHANGED <<vars, hb, current, event, crashes>>

(* execute_command returns a result, also for an Exception of the command; *)
(* the callback goes out, or fails before it reaches the server.           *)
Report(t, d) ==
  /\ worker[d].pc = "run"
  /\ ReceiveCallback(t, d, worker[d].task)
  /\ worker' = [worker EXCEPT ![d].pc = "report", ![d].call = t]
  /\ UNCHANGED <<hb, current, event, crashes>>

LoseReport(d) ==
  /\ worker[d].pc = "run"
  /\ \E t \in Thread : req[t] = Idle         \* a busy server keeps the call waiting
  /\ worker' = [worker EXCEPT ![d].pc = "release"]
  /\ UNCHANGED <<vars, hb, current, event, crashes>>

ReportTimeout(d) ==
  /\ worker[d].pc = "report"
  /\ worker' = [worker EXCEPT ![d].pc = "release", ![d].call = NoThread]
  /\ UNCHANGED <<vars, hb, current, event, crashes>>

(* finally: current_task = None *)
Release(d) ==
  /\ worker[d].pc = "release"
  /\ current' = [current EXCEPT ![d] = NoEntry]
  /\ worker' = [worker EXCEPT ![d] = Waiting]
  /\ UNCHANGED <<vars, hb, event, crashes>>

(* "except Exception" does not hold a BaseException of the command, such   *)
(* as SystemExit: the finally clause runs and the thread ends.             *)
WorkerDies(d) ==
  /\ worker[d].pc = "run" /\ crashes < MaxCrash
  /\ crashes' = crashes + 1
  /\ current' = [current EXCEPT ![d] = NoEntry]
  /\ worker' = [worker EXCEPT ![d] = [Waiting EXCEPT !.pc = "dead"]]
  /\ UNCHANGED <<vars, hb, event>>

(* The process is killed and all it held is lost; it registers again.      *)
Crash(d) ==
  /\ hb[d] # Down /\ crashes < MaxCrash
  /\ crashes' = crashes + 1
  /\ hb' = [hb EXCEPT ![d] = Down]
  /\ worker' = [worker EXCEPT ![d] = Waiting]
  /\ current' = [current EXCEPT ![d] = NoEntry]
  /\ event' = [event EXCEPT ![d] = FALSE]
  /\ UNCHANGED vars

-----------------------------------------------------------------------------
(* A step of a server thread; when it is the last of its request, the      *)
(* agent thread that waits for it goes on.  The only request that can fail *)
(* without the caller asking again later is a registration: the insert of  *)
(* a name that exists by now is answered by an error.                      *)
RegistrationFails(t) == req[t].saw = "unloaded" /\ req[t].dev \in registered

Answered(t) ==
  /\ hb' = [d \in Device |->
       IF hb[d].call # t \/ req'[t] # Idle THEN hb[d]
       ELSE IF hb[d].pc = "register" /\ RegistrationFails(t) THEN Down
       ELSE Sleeping]
  /\ worker' = [d \in Device |->
       IF worker[d].call # t \/ req'[t] # Idle THEN worker[d]
       ELSE [worker[d] EXCEPT !.pc = "release", !.call = NoThread]]
  /\ UNCHANGED <<current, event, crashes>>

ServerStep(t) == Step(t) /\ Answered(t)

UserRequest(t) ==
  /\ \/ \E d \in Device, c \in Command : ExecuteBegin(t, d, c)
     \/ \E e \in Entry : CancelRead(t, e)
  /\ UNCHANGED agent

(* All connections break when the server restarts.                         *)
ServerRestart ==
  /\ Restart
  /\ hb' = [d \in Device |-> 
       CASE hb[d].pc = "register" -> Down
         [] hb[d].pc = "wait"     -> Sleeping
         [] OTHER                 -> hb[d]]
  /\ worker' = [d \in Device |->
       IF worker[d].pc = "report"
       THEN [worker[d] EXCEPT !.pc = "release", !.call = NoThread] ELSE worker[d]]
  /\ UNCHANGED <<current, event, crashes>>

Surroundings ==
  /\ \/ Monitor
     \/ \E d \in Device : Age(d) \/ DeleteDevice(d)
     \/ \E c \in Command : DeleteCommand(c)
  /\ UNCHANGED agent

Heartbeat(d) == TakeOffer(d) \/ Timeout(d)

Work(d) ==
  \/ WakeUp(d) \/ ReadTask(d) \/ LoseReport(d) \/ ReportTimeout(d) \/ Release(d)
  \/ WorkerDies(d)

AgentNext ==
  \/ \E t \in Thread :
       \/ ServerStep(t) \/ UserRequest(t) \/ Offer(t) \/ LateOffer(t)
       \/ \E d \in Device : Register(t, d) \/ Poll(t, d) \/ Report(t, d)
  \/ \E d \in Device : Heartbeat(d) \/ Work(d) \/ Crash(d)
  \/ ServerRestart
  \/ Surroundings

AgentSpec == AgentInit /\ [][AgentNext]_allVars

(***************************************************************************)
(* Fairness.  Both loops go on for ever, and so does a request once a      *)
(* server thread has it.  The network is fair-lossy and the timeout        *)
(* generous enough: an agent that registers, polls or reports on an entry  *)
(* again and again gets through, and its request is not for ever abandoned *)
(* before the server has taken the next step of it.                        *)
(***************************************************************************)
AgentFairSpec ==
  /\ AgentSpec
  /\ \A t \in Thread : WF_allVars(ServerStep(t)) /\ WF_allVars(LateOffer(t))
  /\ \A d \in Device :
       /\ WF_allVars(TakeOffer(d))
       /\ WF_allVars(WakeUp(d)) /\ WF_allVars(ReadTask(d)) /\ WF_allVars(Release(d))
       /\ SF_allVars(\E t \in Thread : Register(t, d))
       /\ SF_allVars(\E t \in Thread : Poll(t, d))
       /\ SF_allVars(\E t \in Thread : Report(t, d))
       /\ SF_allVars(\E t \in Thread : Offer(t) /\ req[t].dev = d)
       /\ \A p \in {"register", "pollSelect", "pollCommit"} :
            SF_allVars(\E t \in Thread : hb[d].call = t /\ req[t].pc = p /\ ServerStep(t))

-----------------------------------------------------------------------------
HandsOK ==
  /\ hb \in [Device -> [pc : {"down", "register", "sleep", "wait", "offered"},
                       call : Thread \cup {NoThread}, offer : Entry \cup {NoEntry}]]
  /\ worker \in [Device -> [pc : {"wait", "woken", "run", "report", "release", "dead"},
                           call : Thread \cup {NoThread}, task : Entry \cup {NoEntry}]]
  /\ current \in [Device -> Entry \cup {NoEntry}]
  /\ event \in [Device -> BOOLEAN]
  /\ crashes \in 0..MaxCrash

AgentTypeOK == TypeOK /\ HandsOK

(* What the server assumes of agents is true of this one: the steps of the *)
(* system are steps of CommandQueue, whose callbacks are only about        *)
(* entries that the agent was handed (agents/main.py:590-663).             *)
AgentHonoursServer == Spec

(* No lost wake-up: a task that the heartbeat has accepted is seen by the  *)
(* worker, which either is at work on it or has its event pending          *)
(* (agents/main.py:591-599, 613-617).                                      *)
NoLostWakeUp ==
  \A d \in Device : current[d] # NoEntry /\ worker[d].pc = "wait" => event[d]

(* The finally clause releases the task the worker has finished and no     *)
(* other: the heartbeat never replaces a task that is being run            *)
(* (agents/main.py:596-603, 637-639).                                      *)
WorkerOwnsTask ==
  \A d \in Device :
    worker[d].pc \in {"run", "report", "release"} =>
      worker[d].task # NoEntry /\ current[d] = worker[d].task

(* What an agent runs was started for it and is not cancelled, through     *)
(* delayed answers, crashes and restarts (agents/main.py:622-623).         *)
RunsOnlyStarted ==
  \A d \in Device :
    worker[d].pc = "run" =>
      /\ execution[worker[d].task] = "started"
      /\ target[worker[d].task] = d

(* The inductive invariant behind the above (AgentSystem_proofs): a thread *)
(* waits for the server only inside a call, and whatever it holds of an    *)
(* entry it got from an answer.                                            *)
CallsInv ==
  \A d \in Device :
    /\ hb[d].call # NoThread => hb[d].pc \in {"register", "wait"}
    /\ worker[d].call # NoThread => worker[d].pc = "report"

HandedInv ==
  \A d \in Device :
    /\ hb[d].pc = "offered" => hb[d].offer \in offered[d]
    /\ current[d] # NoEntry => current[d] \in offered[d]

AgentInv == HandsOK /\ CallsInv /\ HandedInv /\ WorkerOwnsTask /\ NoLostWakeUp

(* With the real agents in the loop every entry is worked off, in spite of *)
(* lost answers and reports, crashes and restarts; only a worker thread    *)
(* that a command has ended can leave one behind                           *)
(* (agents/main.py:568-639, routers/agent.py:226-290).                     *)
LivingWorkersSettle ==
  \A e \in Entry : e \in rows ~> Settled(e) \/ \E d \in Device : worker[d].pc = "dead"

(* A task that an agent has accepted is given up again, so that the agent  *)
(* can take the next one (agents/main.py:609-639).                         *)
TaskIsReleased ==
  \A d \in Device : current[d] # NoEntry ~> current[d] = NoEntry \/ worker[d].pc = "dead"
=============================================================================
