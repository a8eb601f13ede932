------------------------- MODULE AgentSystem_proofs -------------------------
(***************************************************************************)
(* Proofs about AgentSystem, for all devices, commands, server threads and *)
(* numbers of entries, crashes and restarts.                               *)
(***************************************************************************)
EXTENDS AgentSystem, CommandQueue_proofs

(* Answers only add to what an agent was handed.                           *)
LEMMA OfferedGrows ==
  ASSUME TypeOK, [Next]_vars
  PROVE  \A d \in Device : offered[d] \subseteq offered'[d]
<1> USE DEF TypeOK, TablesOK, tables, devices, deleted
<1>1. CASE \E t \in Thread : Answer(t)
  BY <1>1 DEF Answer, Deliver, Lose
<1>2. CASE \E t \in Thread : Arrive(t)
  BY <1>2 DEF Arrive, RegisterLoad, PollLoadDevice, ExecuteBegin, CallbackLoad,
     ReceiveCallback, CancelRead
<1>3. CASE \E t \in Thread : Step(t)
  BY <1>3 DEF Step, RestoreDevice, InsertDevice, ExecuteCommit, PollSelect, PollEmpty,
     PollDispatch, PollConflict, CallbackCommit, CancelCommit
<1>4. CASE Monitor \/ Environment \/ UNCHANGED vars
  BY <1>4 DEF Monitor, MonitorRead, MonitorCommit, Environment, Age, DeleteDevice,
     DeleteCommand, Restart, vars
<1> QED BY <1>1, <1>2, <1>3, <1>4 DEF Next

(* Each step of the system is one of the server as CommandQueue has it, or *)
(* leaves the server alone: what an agent reports on it was handed.        *)
LEMMA StepHonours ==
  ASSUME TypeOK, AgentInv, [AgentNext]_allVars
  PROVE  [Next]_vars
<1>1. ASSUME NEW t \in Thread, NEW d \in Device, Report(t, d)
      PROVE  Arrive(t)
  <2>1. worker[d].task \in offered[d] /\ worker[d].task \in Entry
    BY <1>1 DEF Report, AgentInv, HandsOK, WorkerOwnsTask, HandedInv
  <2> QED BY <1>1, <2>1 DEF Report, Arrive, CallbackLoad
<1>2. ASSUME NEW t \in Thread
      PROVE  /\ ServerStep(t) => Step(t)
             /\ UserRequest(t) => Arrive(t)
             /\ Offer(t) \/ LateOffer(t) => Answer(t)
             /\ \A d \in Device : Register(t, d) \/ Poll(t, d) => Arrive(t)
  BY DEF ServerStep, UserRequest, Offer, LateOffer, Register, Poll, Arrive, Answer
<1>3. ASSUME NEW d \in Device, Heartbeat(d) \/ Work(d) \/ Crash(d)
      PROVE  UNCHANGED vars
  BY <1>3 DEF Heartbeat, TakeOffer, Timeout, Work, WakeUp, ReadTask, LoseReport,
     ReportTimeout, Release, WorkerDies, Crash
<1>4. ServerRestart \/ Surroundings => Next
  BY DEF ServerRestart, Surroundings, Next, Environment
<1>5. UNCHANGED allVars => UNCHANGED vars
  BY DEF allVars
<1> QED BY <1>1, <1>2, <1>3, <1>4, <1>5 DEF AgentNext, Next

-----------------------------------------------------------------------------
(* The invariant device by device: what the two threads h and w, the task  *)
(* c and the event v of an agent are when the agent was handed o.          *)
Heartbeats == [pc : {"down", "register", "sleep", "wait", "offered"},
               call : Thread \cup {NoThread}, offer : Entry \cup {NoEntry}]
Workers == [pc : {"wait", "woken", "run", "report", "release", "dead"},
            call : Thread \cup {NoThread}, task : Entry \cup {NoEntry}]

Good(h, w, c, v, o) ==
  /\ h \in Heartbeats /\ w \in Workers /\ c \in Entry \cup {NoEntry} /\ v \in BOOLEAN
  /\ h.call # NoThread => h.pc \in {"register", "wait"}
  /\ w.call # NoThread => w.pc = "report"
  /\ h.pc = "offered" => h.offer \in o
  /\ c # NoEntry => c \in o
  /\ w.pc \in {"run", "report", "release"} => w.task # NoEntry /\ c = w.task
  /\ c # NoEntry /\ w.pc = "wait" => v

Functions ==
  /\ hb = [d \in Device |-> hb[d]] /\ worker = [d \in Device |-> worker[d]]
  /\ current = [d \in Device |-> current[d]] /\ event = [d \in Device |-> event[d]]

Pointwise ==
  /\ Functions
  /\ crashes \in 0..MaxCrash
  /\ \A d \in Device : Good(hb[d], worker[d], current[d], event[d], offered[d])

LEMMA ToPointwise == ASSUME AgentInv PROVE Pointwise
BY DEF AgentInv, HandsOK, CallsInv, HandedInv, WorkerOwnsTask, NoLostWakeUp, Good,
   Heartbeats, Workers, Pointwise, Functions

LEMMA FromPointwise == ASSUME Pointwise PROVE AgentInv
<1> USE DEF Pointwise, Functions, Good, Heartbeats, Workers
<1>1. HandsOK
  BY DEF HandsOK
<1>2. CallsInv /\ HandedInv /\ WorkerOwnsTask /\ NoLostWakeUp
  BY DEF CallsInv, HandedInv, WorkerOwnsTask, NoLostWakeUp
<1> QED BY <1>1, <1>2 DEF AgentInv

LEMMA StillGood ==
  ASSUME NEW h, NEW w, NEW c, NEW v, NEW o, NEW p, Good(h, w, c, v, o), o \subseteq p
  PROVE  Good(h, w, c, v, p)
BY DEF Good

(* A step of one agent.                                                    *)
LEMMA OneAgent ==
  ASSUME AgentInv, NEW d \in Device, NEW h, NEW w, NEW c, NEW v,
         \A e \in Device : offered[e] \subseteq offered'[e],
         hb' = [hb EXCEPT ![d] = h], worker' = [worker EXCEPT ![d] = w],
         current' = [current EXCEPT ![d] = c], event' = [event EXCEPT ![d] = v],
         crashes' \in 0..MaxCrash,
         Good(h, w, c, v, offered'[d])
  PROVE  AgentInv'
<1>1. Pointwise
  BY ToPointwise
<1>2. \A e \in Device : Good(hb[e], worker[e], current[e], event[e], offered'[e])
  BY <1>1, StillGood DEF Pointwise
<1>3. \A e \in Device : Good(hb'[e], worker'[e], current'[e], event'[e], offered'[e])
  BY <1>1, <1>2 DEF Pointwise, Functions
<1>4. Functions'
  BY <1>1 DEF Pointwise, Functions
<1>5. Pointwise'
  BY <1>3, <1>4 DEF Pointwise
<1>6. Pointwise' => AgentInv'
  BY FromPointwise, PTL
<1> QED BY <1>5, <1>6

(* An action that leaves a variable of agent d as it is "sets" it to what  *)
(* it was.                                                                 *)
LEMMA Unchanged ==
  ASSUME AgentInv, NEW d \in Device
  PROVE  /\ UNCHANGED hb => hb' = [hb EXCEPT ![d] = hb[d]]
         /\ UNCHANGED worker => worker' = [worker EXCEPT ![d] = worker[d]]
         /\ UNCHANGED current => current' = [current EXCEPT ![d] = current[d]]
         /\ UNCHANGED event => event' = [event EXCEPT ![d] = event[d]]
         /\ UNCHANGED crashes => crashes' \in 0..MaxCrash
         /\ Good(hb[d], worker[d], current[d], event[d], offered[d])
BY ToPointwise DEF Pointwise, Functions

(* The steps of the heartbeat thread.                                      *)
LEMMA HeartbeatInv ==
  ASSUME AgentInv, NEW d \in Device,
         \A e \in Device : offered[e] \subseteq offered'[e],
         \/ \E t \in Thread : Register(t, d) \/ Poll(t, d)
         \/ Timeout(d) \/ TakeOffer(d)
  PROVE  AgentInv'
<1>0. /\ UNCHANGED worker => worker' = [worker EXCEPT ![d] = worker[d]]
      /\ UNCHANGED current => current' = [current EXCEPT ![d] = current[d]]
      /\ UNCHANGED event => event' = [event EXCEPT ![d] = event[d]]
      /\ UNCHANGED crashes => crashes' \in 0..MaxCrash
      /\ Good(hb[d], worker[d], current[d], event[d], offered'[d])
  BY Unchanged, StillGood
<1>1. ASSUME NEW t \in Thread, Register(t, d) PROVE AgentInv'
  <2> DEFINE h == [hb[d] EXCEPT !.pc = "register", !.call = t]
             w == worker[d]
             c == current[d]
             v == event[d]
  <2>1. Good(h, w, c, v, offered'[d])
    BY <1>0, <1>1, AgentSystemAssumption DEF Register, Down, Good, Heartbeats, Workers, NoEntry
  <2>2. /\ hb' = [hb EXCEPT ![d] = h] /\ worker' = [worker EXCEPT ![d] = w]
        /\ current' = [current EXCEPT ![d] = c] /\ event' = [event EXCEPT ![d] = v]
        /\ crashes' \in 0..MaxCrash
    BY <1>0, <1>1 DEF Register, Down
  <2> HIDE DEF h, w, c, v
  <2> QED BY <2>1, <2>2, OneAgent
<1>2. ASSUME NEW t \in Thread, Poll(t, d) PROVE AgentInv'
  <2> DEFINE h == [hb[d] EXCEPT !.pc = "wait", !.call = t]
             w == worker[d]
             c == current[d]
             v == event[d]
  <2>1. Good(h, w, c, v, offered'[d])
    BY <1>0, <1>2, AgentSystemAssumption DEF Poll, Sleeping, Good, Heartbeats, Workers, NoEntry
  <2>2. /\ hb' = [hb EXCEPT ![d] = h] /\ worker' = [worker EXCEPT ![d] = w]
        /\ current' = [current EXCEPT ![d] = c] /\ event' = [event EXCEPT ![d] = v]
        /\ crashes' \in 0..MaxCrash
    BY <1>0, <1>2 DEF Poll, Sleeping
  <2> HIDE DEF h, w, c, v
  <2> QED BY <2>1, <2>2, OneAgent
<1>3. CASE Timeout(d)
  <2> DEFINE h == IF hb[d].pc = "register" THEN Down ELSE Sleeping
             w == worker[d]
             c == current[d]
             v == event[d]
  <2>1. Good(h, w, c, v, offered'[d])
    BY <1>0, <1>3, AgentSystemAssumption DEF Timeout, Down, Sleeping, Good, Heartbeats, Workers, NoEntry
  <2>2. /\ hb' = [hb EXCEPT ![d] = h] /\ worker' = [worker EXCEPT ![d] = w]
        /\ current' = [current EXCEPT ![d] = c] /\ event' = [event EXCEPT ![d] = v]
        /\ crashes' \in 0..MaxCrash
    BY <1>0, <1>3 DEF Timeout, Down, Sleeping
  <2> HIDE DEF h, w, c, v
  <2> QED BY <2>1, <2>2, OneAgent
<1>4. CASE TakeOffer(d) /\ current[d] = NoEntry
  <2> DEFINE h == Sleeping
             w == worker[d]
             c == hb[d].offer
             v == TRUE
  <2>1. Good(h, w, c, v, offered'[d])
    BY <1>0, <1>4, AgentSystemAssumption DEF TakeOffer, Sleeping, Good, Heartbeats, Workers, NoEntry
  <2>2. /\ hb' = [hb EXCEPT ![d] = h] /\ worker' = [worker EXCEPT ![d] = w]
        /\ current' = [current EXCEPT ![d] = c] /\ event' = [event EXCEPT ![d] = v]
        /\ crashes' \in 0..MaxCrash
    BY <1>0, <1>4 DEF TakeOffer, Sleeping
  <2> HIDE DEF h, w, c, v
  <2> QED BY <2>1, <2>2, OneAgent
<1>5. CASE TakeOffer(d) /\ current[d] # NoEntry
  <2> DEFINE h == Sleeping
             w == worker[d]
             c == current[d]
             v == event[d]
  <2>1. Good(h, w, c, v, offered'[d])
    BY <1>0, <1>5, AgentSystemAssumption DEF TakeOffer, Sleeping, Good, Heartbeats, Workers, NoEntry
  <2>2. /\ hb' = [hb EXCEPT ![d] = h] /\ worker' = [worker EXCEPT ![d] = w]
        /\ current' = [current EXCEPT ![d] = c] /\ event' = [event EXCEPT ![d] = v]
        /\ crashes' \in 0..MaxCrash
    BY <1>0, <1>5 DEF TakeOffer, Sleeping
  <2> HIDE DEF h, w, c, v
  <2> QED BY <2>1, <2>2, OneAgent
<1> QED BY <1>1, <1>2, <1>3, <1>4, <1>5

(* An answer is delivered or comes too late.                               *)
LEMMA OfferInv ==
  ASSUME AgentInv, TypeOK, NEW t \in Thread, Offer(t) \/ LateOffer(t),
         \A e \in Device : offered[e] \subseteq offered'[e]
  PROVE  AgentInv'
<1> DEFINE d == req[t].dev
<1>1. req[t].pc = "reply" /\ d \in Device /\ req[t].ent \in Entry
  BY DEF Offer, LateOffer, TypeOK, RequestsOK, RequestOK
<1> HIDE DEF d
<1>0. /\ UNCHANGED hb => hb' = [hb EXCEPT ![d] = hb[d]]
      /\ UNCHANGED worker => worker' = [worker EXCEPT ![d] = worker[d]]
      /\ UNCHANGED current => current' = [current EXCEPT ![d] = current[d]]
      /\ UNCHANGED event => event' = [event EXCEPT ![d] = event[d]]
      /\ UNCHANGED crashes => crashes' \in 0..MaxCrash
      /\ Good(hb[d], worker[d], current[d], event[d], offered'[d])
  BY <1>1, Unchanged, StillGood
<1>2. CASE LateOffer(t)
  BY <1>0, <1>1, <1>2, OneAgent DEF LateOffer, agent
<1>3. CASE Offer(t)
  <2> DEFINE h == [pc |-> "offered", call |-> NoThread, offer |-> req[t].ent]
             w == worker[d]
             c == current[d]
             v == event[d]
  <2>1. req[t].ent \in offered'[d]
    BY <1>1, <1>3 DEF Offer, Deliver, TypeOK, TablesOK, d
  <2>2. Good(h, w, c, v, offered'[d])
    BY <1>0, <1>1, <2>1 DEF Good, Heartbeats
  <2>3. /\ hb' = [hb EXCEPT ![d] = h] /\ worker' = [worker EXCEPT ![d] = w]
        /\ current' = [current EXCEPT ![d] = c] /\ event' = [event EXCEPT ![d] = v]
        /\ crashes' \in 0..MaxCrash
    BY <1>0, <1>3 DEF Offer, d
  <2> HIDE DEF h, w, c, v
  <2> QED BY <1>1, <2>2, <2>3, OneAgent
<1> QED BY <1>2, <1>3

(* The steps of the worker thread, and a crash of both.                    *)
LEMMA WorkerInv ==
  ASSUME AgentInv, NEW d \in Device,
         \A e \in Device : offered[e] \subseteq offered'[e],
         \/ \E t \in Thread : Report(t, d)
         \/ Work(d) \/ Crash(d)
  PROVE  AgentInv'
<1>0. /\ UNCHANGED hb => hb' = [hb EXCEPT ![d] = hb[d]]
      /\ UNCHANGED current => current' = [current EXCEPT ![d] = current[d]]
      /\ UNCHANGED event => event' = [event EXCEPT ![d] = event[d]]
      /\ UNCHANGED crashes => crashes' \in 0..MaxCrash
      /\ crashes < MaxCrash => crashes + 1 \in 0..MaxCrash
      /\ Good(hb[d], worker[d], current[d], event[d], offered'[d])
  BY Unchanged, StillGood, AgentSystemAssumption DEF AgentInv, HandsOK
<1>1. ASSUME NEW t \in Thread, Report(t, d) PROVE AgentInv'
  <2> DEFINE h == hb[d]
             w == [worker[d] EXCEPT !.pc = "report", !.call = t]
             c == current[d]
             v == event[d]
  <2>1. Good(h, w, c, v, offered'[d])
    BY <1>0, <1>1, AgentSystemAssumption DEF Report, Good, Heartbeats, Workers, NoEntry
  <2>2. /\ hb' = [hb EXCEPT ![d] = h] /\ worker' = [worker EXCEPT ![d] = w]
        /\ current' = [current EXCEPT ![d] = c] /\ event' = [event EXCEPT ![d] = v]
        /\ crashes' \in 0..MaxCrash
    BY <1>0, <1>1 DEF Report
  <2> HIDE DEF h, w, c, v
  <2> QED BY <2>1, <2>2, OneAgent
<1>2. CASE WakeUp(d)
  <2> DEFINE h == hb[d]
             w == [worker[d] EXCEPT !.pc = "woken"]
             c == current[d]
             v == FALSE
  <2>1. Good(h, w, c, v, offered'[d])
    BY <1>0, <1>2, AgentSystemAssumption DEF WakeUp, Good, Heartbeats, Workers, NoEntry
  <2>2. /\ hb' = [hb EXCEPT ![d] = h] /\ worker' = [worker EXCEPT ![d] = w]
        /\ current' = [current EXCEPT ![d] = c] /\ event' = [event EXCEPT ![d] = v]
        /\ crashes' \in 0..MaxCrash
    BY <1>0, <1>2 DEF WakeUp
  <2> HIDE DEF h, w, c, v
  <2> QED BY <2>1, <2>2, OneAgent
<1>3. CASE ReadTask(d)
  <2> DEFINE h == hb[d]
             w == IF current[d] = NoEntry THEN Waiting
            ELSE [worker[d] EXCEPT !.pc = "run", !.task = current[d]]
             c == current[d]
             v == event[d]
  <2>1. Good(h, w, c, v, offered'[d])
    BY <1>0, <1>3, AgentSystemAssumption DEF ReadTask, Waiting, Good, Heartbeats, Workers, NoEntry
  <2>2. /\ hb' = [hb EXCEPT ![d] = h] /\ worker' = [worker EXCEPT ![d] = w]
        /\ current' = [current EXCEPT ![d] = c] /\ event' = [event EXCEPT ![d] = v]
        /\ crashes' \in 0..MaxCrash
    BY <1>0, <1>3 DEF ReadTask, Waiting
  <2> HIDE DEF h, w, c, v
  <2> QED BY <2>1, <2>2, OneAgent
<1>4. CASE LoseReport(d)
  <2> DEFINE h == hb[d]
             w == [worker[d] EXCEPT !.pc = "release"]
             c == current[d]
             v == event[d]
  <2>1. Good(h, w, c, v, offered'[d])
    BY <1>0, <1>4, AgentSystemAssumption DEF LoseReport, Good, Heartbeats, Workers, NoEntry
  <2>2. /\ hb' = [hb EXCEPT ![d] = h] /\ worker' = [worker EXCEPT ![d] = w]
        /\ current' = [current EXCEPT ![d] = c] /\ event' = [event EXCEPT ![d] = v]
        /\ crashes' \in 0..MaxCrash
    BY <1>0, <1>4 DEF LoseReport
  <2> HIDE DEF h, w, c, v
  <2> QED BY <2>1, <2>2, OneAgent
<1>5. CASE ReportTimeout(d)
  <2> DEFINE h == hb[d]
             w == [worker[d] EXCEPT !.pc = "release", !.call = NoThread]
             c == current[d]
             v == event[d]
  <2>1. Good(h, w, c, v, offered'[d])
    BY <1>0, <1>5, AgentSystemAssumption DEF ReportTimeout, Good, Heartbeats, Workers, NoEntry
  <2>2. /\ hb' = [hb EXCEPT ![d] = h] /\ worker' = [worker EXCEPT ![d] = w]
        /\ current' = [current EXCEPT ![d] = c] /\ event' = [event EXCEPT ![d] = v]
        /\ crashes' \in 0..MaxCrash
    BY <1>0, <1>5 DEF ReportTimeout
  <2> HIDE DEF h, w, c, v
  <2> QED BY <2>1, <2>2, OneAgent
<1>6. CASE Release(d)
  <2> DEFINE h == hb[d]
             w == Waiting
             c == NoEntry
             v == event[d]
  <2>1. Good(h, w, c, v, offered'[d])
    BY <1>0, <1>6, AgentSystemAssumption DEF Release, Waiting, Good, Heartbeats, Workers, NoEntry
  <2>2. /\ hb' = [hb EXCEPT ![d] = h] /\ worker' = [worker EXCEPT ![d] = w]
        /\ current' = [current EXCEPT ![d] = c] /\ event' = [event EXCEPT ![d] = v]
        /\ crashes' \in 0..MaxCrash
    BY <1>0, <1>6 DEF Release, Waiting
  <2> HIDE DEF h, w, c, v
  <2> QED BY <2>1, <2>2, OneAgent
<1>7. CASE WorkerDies(d)
  <2> DEFINE h == hb[d]
             w == [Waiting EXCEPT !.pc = "dead"]
             c == NoEntry
             v == event[d]
  <2>1. Good(h, w, c, v, offered'[d])
    BY <1>0, <1>7, AgentSystemAssumption DEF WorkerDies, Waiting, Good, Heartbeats, Workers, NoEntry
  <2>2. /\ hb' = [hb EXCEPT ![d] = h] /\ worker' = [worker EXCEPT ![d] = w]
        /\ current' = [current EXCEPT ![d] = c] /\ event' = [event EXCEPT ![d] = v]
        /\ crashes' \in 0..MaxCrash
    BY <1>0, <1>7 DEF WorkerDies, Waiting
  <2> HIDE DEF h, w, c, v
  <2> QED BY <2>1, <2>2, OneAgent
<1>8. CASE Crash(d)
  <2> DEFINE h == Down
             w == Waiting
             c == NoEntry
             v == FALSE
  <2>1. Good(h, w, c, v, offered'[d])
    BY <1>0, <1>8, AgentSystemAssumption DEF Crash, Down, Waiting, Good, Heartbeats, Workers, NoEntry
  <2>2. /\ hb' = [hb EXCEPT ![d] = h] /\ worker' = [worker EXCEPT ![d] = w]
        /\ current' = [current EXCEPT ![d] = c] /\ event' = [event EXCEPT ![d] = v]
        /\ crashes' \in 0..MaxCrash
    BY <1>0, <1>8 DEF Crash, Down, Waiting
  <2> HIDE DEF h, w, c, v
  <2> QED BY <2>1, <2>2, OneAgent
<1> QED BY <1>1, <1>2, <1>3, <1>4, <1>5, <1>6, <1>7, <1>8 DEF Work

(* A waiting thread that is woken.                                         *)
Woken(w, x) ==
  /\ w.pc = "report" /\ x \in Workers
  /\ x.pc = "release" /\ x.call = NoThread /\ x.task = w.task

LEMMA WokenGood ==
  ASSUME NEW h, NEW w, NEW c, NEW v, NEW o, Good(h, w, c, v, o),
         NEW g, g \in {h, Down, Sleeping},
         NEW x, x = w \/ Woken(w, x)
  PROVE  Good(g, x, c, v, o)
<1>1. Good(g, w, c, v, o)
  BY AgentSystemAssumption DEF Good, Heartbeats, Down, Sleeping, NoEntry
<1> QED BY <1>1 DEF Good, Woken

(* Answers and restarts of the server wake threads of the agents that wait *)
(* for it.                                                                 *)
LEMMA ServerInv ==
  ASSUME AgentInv, \A e \in Device : offered[e] \subseteq offered'[e],
         \/ \E t \in Thread : Answered(t)
         \/ ServerRestart
         \/ UNCHANGED agent
  PROVE  AgentInv'
<1>0. /\ Pointwise
      /\ \A d \in Device : Good(hb[d], worker[d], current[d], event[d], offered'[d])
  BY ToPointwise, StillGood DEF Pointwise
<1>1. ASSUME NEW t \in Thread, Answered(t) PROVE Pointwise'
  <2>1. ASSUME NEW d \in Device
        PROVE  Good(hb'[d], worker'[d], current'[d], event'[d], offered'[d])
    <3>1. hb'[d] \in {hb[d], Down, Sleeping} /\ UNCHANGED <<current, event>>
      BY <1>1 DEF Answered
    <3>2. worker'[d] = worker[d] \/ Woken(worker[d], worker'[d])
      BY <1>0, <1>1, AgentSystemAssumption DEF Answered, Good, Woken, Workers
    <3>3. PICK h, w, c, v, o : /\ h = hb[d] /\ w = worker[d] /\ c = current[d]
                              /\ v = event[d] /\ o = offered'[d]
      OBVIOUS
    <3>4. PICK g, x : g = hb'[d] /\ x = worker'[d]
      OBVIOUS
    <3>5. Good(h, w, c, v, o) /\ g \in {h, Down, Sleeping}
      BY <1>0, <3>1, <3>3, <3>4
    <3>6. x = w \/ Woken(w, x)
      BY <3>2, <3>3, <3>4
    <3>7. Good(g, x, c, v, o)
      BY <3>5, <3>6, WokenGood
    <3>8. current'[d] = c /\ event'[d] = v
      BY <3>1, <3>3
    <3> QED BY <3>3, <3>4, <3>7, <3>8
  <2>2. Functions' /\ crashes' \in 0..MaxCrash
    BY <1>0, <1>1 DEF Answered, Pointwise, Functions
  <2> QED BY <2>1, <2>2 DEF Pointwise
<1>2. ASSUME ServerRestart PROVE Pointwise'
  <2>1. ASSUME NEW d \in Device
        PROVE  Good(hb'[d], worker'[d], current'[d], event'[d], offered'[d])
    <3>1. hb'[d] \in {hb[d], Down, Sleeping} /\ UNCHANGED <<current, event>>
      BY <1>2 DEF ServerRestart
    <3>2. worker'[d] = worker[d] \/ Woken(worker[d], worker'[d])
      BY <1>0, <1>2 DEF ServerRestart, Good, Woken, Workers
    <3>3. PICK h, w, c, v, o : /\ h = hb[d] /\ w = worker[d] /\ c = current[d]
                              /\ v = event[d] /\ o = offered'[d]
      OBVIOUS
    <3>4. PICK g, x : g = hb'[d] /\ x = worker'[d]
      OBVIOUS
    <3>5. Good(h, w, c, v, o) /\ g \in {h, Down, Sleeping}
      BY <1>0, <3>1, <3>3, <3>4
    <3>6. x = w \/ Woken(w, x)
      BY <3>2, <3>3, <3>4
    <3>7. Good(g, x, c, v, o)
      BY <3>5, <3>6, WokenGood
    <3>8. current'[d] = c /\ event'[d] = v
      BY <3>1, <3>3
    <3> QED BY <3>3, <3>4, <3>7, <3>8
  <2>2. Functions' /\ crashes' \in 0..MaxCrash
    BY <1>0, <1>2 DEF ServerRestart, Pointwise, Functions
  <2> QED BY <2>1, <2>2 DEF Pointwise
<1>3. ASSUME UNCHANGED agent PROVE Pointwise'
  <2>1. UNCHANGED <<hb, worker, current, event, crashes>>
    BY <1>3 DEF agent
  <2>2. \A d \in Device : Good(hb'[d], worker'[d], current'[d], event'[d], offered'[d])
    BY <1>0, <2>1
  <2> QED BY <1>0, <2>1, <2>2 DEF Pointwise, Functions
<1>4. Pointwise' => AgentInv'
  BY FromPointwise, PTL
<1> QED BY <1>1, <1>2, <1>3, <1>4

LEMMA AgentStep ==
  ASSUME TypeOK, AgentInv, [AgentNext]_allVars
  PROVE  AgentInv'
<1>1. \A e \in Device : offered[e] \subseteq offered'[e]
  BY StepHonours, OfferedGrows
<1>2. \A d \in Device : \A t \in Thread : Register(t, d) \/ Poll(t, d) => AgentInv'
  BY <1>1, HeartbeatInv
<1>3. \A d \in Device : Heartbeat(d) => AgentInv'
  BY <1>1, HeartbeatInv DEF Heartbeat
<1>4. \A t \in Thread : Offer(t) \/ LateOffer(t) => AgentInv'
  BY <1>1, OfferInv
<1>5. \A d \in Device :
        /\ \A t \in Thread : Report(t, d) => AgentInv'
        /\ Work(d) \/ Crash(d) => AgentInv'
  BY <1>1, WorkerInv
<1>6. \A t \in Thread : ServerStep(t) \/ UserRequest(t) => AgentInv'
  BY <1>1, ServerInv DEF ServerStep, UserRequest
<1>7. ServerRestart \/ Surroundings \/ UNCHANGED allVars => AgentInv'
  BY <1>1, ServerInv DEF Surroundings, allVars
<1> QED BY <1>2, <1>3, <1>4, <1>5, <1>6, <1>7 DEF AgentNext

LEMMA AgentStart == AgentInit => TypeOK /\ AgentInv
<1> SUFFICES ASSUME AgentInit PROVE TypeOK /\ AgentInv
  OBVIOUS
<1>1. TypeOK
  BY InitOK DEF AgentInit
<1>2. AgentInv
  BY AgentSystemAssumption
     DEF AgentInit, AgentInv, HandsOK, CallsInv, HandedInv, WorkerOwnsTask, NoLostWakeUp,
         Down, Waiting, NoEntry
<1> QED BY <1>1, <1>2

-----------------------------------------------------------------------------
(* The inductive invariant of the whole system: both threads of an agent   *)
(* hold only what the server has handed to it.                             *)
THEOREM AgentInvariance == AgentSpec => [](TypeOK /\ AgentInv)
<1>1. TypeOK /\ AgentInv /\ [AgentNext]_allVars => (TypeOK /\ AgentInv)'
  BY StepHonours, TypeStep, AgentStep
<1> QED BY <1>1, AgentStart, PTL DEF AgentSpec

(* The agents and the server together keep their types.                    *)
THEOREM AgentTypeCorrect == AgentSpec => []AgentTypeOK
<1>1. TypeOK /\ AgentInv => AgentTypeOK
  BY DEF AgentInv, AgentTypeOK
<1> QED BY <1>1, AgentInvariance, PTL

(* The system with its agents implements the server of CommandQueue: these *)
(* agents are as it assumes them, so that what is proved of it there holds *)
(* of the system (agents/main.py:568-680).                                 *)
THEOREM AgentsHonourServer == AgentSpec => AgentHonoursServer
<1>1. AgentInit => Init
  BY DEF AgentInit
<1>2. TypeOK /\ AgentInv /\ [AgentNext]_allVars => [Next]_vars
  BY StepHonours
<1> QED BY <1>1, <1>2, AgentInvariance, PTL DEF AgentSpec, AgentHonoursServer, Spec

(* The finally clause of a worker releases the task it has run and no      *)
(* other (agents/main.py:596-603, 637-639).                                *)
THEOREM WorkerOwnsTaskHolds == AgentSpec => []WorkerOwnsTask
<1>1. AgentInv => WorkerOwnsTask
  BY DEF AgentInv
<1> QED BY <1>1, AgentInvariance, PTL

(* No task that a heartbeat has accepted waits for a worker that is not    *)
(* woken (agents/main.py:591-599, 613-617).                                *)
THEOREM NoLostWakeUpHolds == AgentSpec => []NoLostWakeUp
<1>1. AgentInv => NoLostWakeUp
  BY DEF AgentInv
<1> QED BY <1>1, AgentInvariance, PTL

(* Agents run only what was started for them and is not cancelled, through *)
(* delayed answers, crashes and restarts (agents/main.py:622-623).         *)
THEOREM RunsOnlyStartedHolds == AgentSpec => []RunsOnlyStarted
<1>1. IInv /\ AgentInv => RunsOnlyStarted
  BY DEF IInv, OfferedInv, AgentInv, HandedInv, WorkerOwnsTask, RunsOnlyStarted
<1> QED BY <1>1, AgentInvariance, AgentsHonourServer, Invariance, PTL DEF AgentHonoursServer
=============================================================================
