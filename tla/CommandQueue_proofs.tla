------------------------ MODULE CommandQueue_proofs -------------------------
(***************************************************************************)
(* Proofs about CommandQueue, for all devices, commands, threads, numbers  *)
(* of entries and of restarts.                                             *)
(***************************************************************************)
EXTENDS CommandQueue, TLAPS

(* A thread that starts, goes on with or finishes a request serves a       *)
(* complete one.                                                           *)
LEMMA IdleOK == RequestOK(Idle)
BY DEF RequestOK, Idle, Request, PC, NoEntry

LEMMA ChangeOK ==
  ASSUME NEW t \in Thread, NEW r, RequestOK(r), RequestsOK, req' = [req EXCEPT ![t] = r]
  PROVE  RequestsOK'
<1>1. r \in Request /\ req' \in [Thread -> Request]
  BY DEF RequestsOK, RequestOK
<1>2. \A u \in Thread : RequestOK(req'[u])
  BY DEF RequestsOK
<1> QED BY <1>1, <1>2 DEF RequestsOK

LEMMA FinishOK ==
  ASSUME NEW t \in Thread, RequestsOK, Finish(t)
  PROVE  RequestsOK'
BY IdleOK, ChangeOK DEF Finish

LEMMA StartOK ==
  ASSUME NEW t \in Thread, NEW r, RequestOK(r), RequestsOK, Start(t, r)
  PROVE  RequestsOK'
BY ChangeOK DEF Start

(* A step of the server keeps every variable in its type.                  *)
LEMMA TypeStep ==
  ASSUME TypeOK, [Next]_vars
  PROVE  TypeOK'
<1> USE CommandQueueAssumption DEF TypeOK, TablesOK, tables, devices, deleted
<1>0. \A t \in Thread : RequestOK(req[t])
  BY DEF RequestsOK
<1>1. ASSUME NEW t \in Thread, Arrive(t) PROVE TypeOK'
  <2>1. ASSUME NEW d \in Device, RegisterLoad(t, d) PROVE TypeOK'
    <3>1. RequestOK([Idle EXCEPT !.pc = "register", !.dev = d,
             !.saw = IF d \in registered THEN status[d] ELSE "unloaded"])
      BY DEF Idle, RequestOK, Request, PC, Status, NoEntry
    <3> QED BY <2>1, <3>1, StartOK DEF RegisterLoad
  <2>2. ASSUME NEW d \in Device, PollLoadDevice(t, d) PROVE TypeOK'
    <3>1. RequestOK([Idle EXCEPT !.pc = "pollSelect", !.dev = d, !.saw = status[d]])
      BY DEF Idle, RequestOK, Request, PC, Status, NoEntry
    <3> QED BY <2>2, <3>1, StartOK DEF PollLoadDevice
  <2>3. ASSUME NEW d \in Device, NEW c \in Command, ExecuteBegin(t, d, c) PROVE TypeOK'
    <3>1. begun + 1 \in Entry /\ begun + 1 \in 0..MaxEntry
      BY <2>3 DEF ExecuteBegin, Entry
    <3>2. RequestOK([Idle EXCEPT !.pc = "execute", !.ent = begun + 1])
      BY <3>1 DEF Idle, RequestOK, Request, PC, Status, NoEntry
    <3> QED BY <2>3, <3>1, <3>2, StartOK DEF ExecuteBegin
  <2>4. ASSUME NEW d \in Device, NEW e \in Entry, CallbackLoad(t, d, e) PROVE TypeOK'
    <3>1. RequestOK([Idle EXCEPT !.pc = "callback", !.dev = d, !.ent = e, !.saw = status[d]])
      BY DEF Idle, RequestOK, Request, PC, Status, NoEntry
    <3> QED BY <2>4, <3>1, StartOK DEF CallbackLoad, ReceiveCallback
  <2>5. ASSUME NEW e \in Entry, CancelRead(t, e) PROVE TypeOK'
    <3>1. RequestOK([Idle EXCEPT !.pc = "cancel", !.ent = e])
      BY DEF Idle, RequestOK, Request, PC, Status, NoEntry
    <3> QED BY <2>5, <3>1, StartOK DEF CancelRead
  <2> QED BY <1>1, <2>1, <2>2, <2>3, <2>4, <2>5 DEF Arrive
<1>2. ASSUME NEW t \in Thread, Step(t) PROVE TypeOK'
  <2>0. RequestOK(req[t])
    BY <1>0
  <2>1. CASE RestoreDevice(t)
    <3>1. status' \in [Device -> Status]
      BY <2>1 DEF RestoreDevice, Flushed, Status
    <3> QED BY <2>1, <3>1, FinishOK DEF RestoreDevice
  <2>2. CASE InsertDevice(t)
    <3>1. req[t].dev \in Device
      BY <2>0, <2>2 DEF InsertDevice, RequestOK
    <3>2. status' \in [Device -> Status]
      BY <2>2 DEF InsertDevice, Status
    <3> QED BY <2>2, <3>1, <3>2, FinishOK DEF InsertDevice
  <2>3. CASE ExecuteCommit(t)
    <3>1. req[t].ent \in Entry
      BY <2>0, <2>3 DEF ExecuteCommit, RequestOK
    <3> QED BY <2>3, <3>1, FinishOK DEF ExecuteCommit
  <2>4. CASE PollSelect(t)
    <3>1. CASE req' = [req EXCEPT ![t].pc = "pollCommit"]
      <4>1. RequestOK([req[t] EXCEPT !.pc = "pollCommit"])
        BY <2>0, <2>4 DEF PollSelect, RequestOK, Request, PC
      <4> QED BY <2>4, <3>1, <4>1, ChangeOK DEF PollSelect, RequestsOK
    <3>2. ASSUME NEW e \in Entry,
                 req' = [req EXCEPT ![t].pc = "pollCommit", ![t].ent = e,
                                    ![t].fresh = execution[e] = "none"]
          PROVE  TypeOK'
      <4> DEFINE r == [req[t] EXCEPT !.pc = "pollCommit", !.ent = e,
                                     !.fresh = execution[e] = "none"]
      <4>1. (execution[e] = "none") \in BOOLEAN
        OBVIOUS
      <4>2. RequestOK(r)
        BY <2>0, <2>4, <4>1 DEF PollSelect, RequestOK, Request, PC
      <4>3. req' = [req EXCEPT ![t] = r]
        BY <3>2 DEF RequestsOK
      <4> HIDE DEF r
      <4> QED BY <2>4, <4>2, <4>3, ChangeOK DEF PollSelect
    <3> QED BY <2>4, <3>1, <3>2 DEF PollSelect
  <2>5. CASE PollEmpty(t)
    <3>1. status' \in [Device -> Status]
      BY <2>5 DEF PollEmpty, PollWrites, Flushed, Status
    <3> QED BY <2>5, <3>1, FinishOK DEF PollEmpty, PollWrites
  <2>6. CASE PollDispatch(t)
    <3>1. status' \in [Device -> Status]
      BY <2>6 DEF PollDispatch, PollWrites, Flushed, Status
    <3>2. RequestOK([req[t] EXCEPT !.pc = "reply"])
      BY <2>0, <2>6 DEF PollDispatch, RequestOK, Request, PC, NoEntry
    <3>3. RequestsOK'
      BY <2>6, <3>2, ChangeOK DEF PollDispatch, RequestsOK
    <3> QED BY <2>6, <3>1, <3>3 DEF PollDispatch, PollWrites
  <2>7. CASE PollConflict(t)
    BY <2>7, FinishOK DEF PollConflict
  <2>8. ASSUME NEW outcome \in {"ok", "error"}, CallbackCommit(t, outcome) PROVE TypeOK'
    <3>1. status' \in [Device -> Status]
      BY <2>8 DEF CallbackCommit, Flushed, Status
    <3> QED BY <2>8, <3>1, FinishOK DEF CallbackCommit
  <2>9. CASE CancelCommit(t)
    BY <2>9, FinishOK DEF CancelCommit
  <2> QED BY <1>2, <2>1, <2>2, <2>3, <2>4, <2>5, <2>6, <2>7, <2>8, <2>9 DEF Step
<1>3. ASSUME NEW t \in Thread, Answer(t) PROVE TypeOK'
  <2>1. CASE Deliver(t)
    <3>1. req[t].ent \in Entry
      BY <1>0, <2>1 DEF Deliver, RequestOK
    <3> QED BY <2>1, <3>1, FinishOK DEF Deliver
  <2>2. CASE Lose(t)
    BY <2>2, FinishOK DEF Lose
  <2> QED BY <1>3, <2>1, <2>2 DEF Answer
<1>4. CASE Monitor
  BY <1>4 DEF Monitor, MonitorRead, MonitorCommit, Status, RequestsOK
<1>5. CASE Environment
  <2>1. CASE Restart
    BY <2>1, IdleOK DEF Restart, RequestsOK, RequestOK
  <2> QED BY <1>5, <2>1 DEF Environment, Age, DeleteDevice, DeleteCommand, RequestsOK
<1>6. CASE UNCHANGED vars
  BY <1>6 DEF vars, RequestsOK
<1> QED BY <1>1, <1>2, <1>3, <1>4, <1>5, <1>6 DEF Next

LEMMA InitOK == Init => TypeOK
<1> SUFFICES ASSUME Init PROVE TypeOK
  OBVIOUS
<1> USE CommandQueueAssumption DEF TypeOK, TablesOK
<1>1. RequestsOK
  BY IdleOK DEF Init, RequestsOK, RequestOK
<1> QED BY <1>1 DEF Init, Status

(* Every variable of the server keeps its type.                            *)
THEOREM TypeCorrect == Spec => []TypeOK
<1>1. Init => TypeOK
  BY InitOK
<1>2. TypeOK /\ [Next]_vars => TypeOK'
  BY TypeStep
<1> QED BY <1>1, <1>2, PTL DEF Spec

-----------------------------------------------------------------------------
(* A step that changes the request of one thread, and neither the tables   *)
(* of the queue nor what agents hold, keeps the invariant if the new       *)
(* request does not insert an entry and knows only what is true.           *)
LEMMA FrameInv ==
  ASSUME TypeOK, IInv, NEW t \in Thread, NEW r,
         req' = [req EXCEPT ![t] = r], r.pc # "execute", Knows(r),
         UNCHANGED <<tables, offered>>
  PROVE  IInv'
<1> USE DEF tables
<1>1. RowsInv' /\ OfferedInv' /\ DispatchInOrder'
  BY DEF IInv, RowsInv, OfferedInv, DispatchInOrder, Settled
<1>2. \A u \in Thread : req'[u] = IF u = t THEN r ELSE req[u]
  BY DEF TypeOK, RequestsOK
<1>3. ExecuteInv'
  BY <1>2 DEF IInv, ExecuteInv
<1>4. Knows(r)' /\ \A u \in Thread : Knows(req[u]) => Knows(req'[u])
  BY <1>2 DEF Knows, Settled
<1>5. ThreadInv'
  BY <1>2, <1>4 DEF IInv, ThreadInv, Knows, Settled
<1> QED BY <1>1, <1>3, <1>5 DEF IInv

LEMMA IdleKnows == Knows(Idle) /\ Idle.pc # "execute"
BY DEF Knows, Idle

LEMMA FinishInv ==
  ASSUME TypeOK, IInv, NEW t \in Thread, Finish(t), UNCHANGED <<tables, offered>>
  PROVE  IInv'
BY FrameInv, IdleKnows DEF Finish

(* The steps that end a request without a change of the queue, and those   *)
(* that start one or go on to its next query.                              *)
LEMMA ReadStepsInv ==
  ASSUME TypeOK, IInv, NEW t \in Thread,
         \/ RestoreDevice(t) \/ InsertDevice(t) \/ PollSelect(t) \/ PollEmpty(t)
         \/ PollConflict(t) \/ Lose(t)
         \/ \E d \in Device : RegisterLoad(t, d) \/ PollLoadDevice(t, d)
         \/ \E d \in Device, e \in Entry : CallbackLoad(t, d, e)
         \/ \E e \in Entry : CancelRead(t, e)
  PROVE  IInv'
<1> USE DEF devices, deleted, PollWrites
<1>1. CASE RestoreDevice(t)
  BY <1>1, FinishInv DEF RestoreDevice
<1>2. CASE InsertDevice(t)
  BY <1>2, FinishInv DEF InsertDevice
<1>3. CASE PollSelect(t)
  <2>0. req[t].pc = "pollSelect" /\ req[t] \in Request
    BY <1>3 DEF PollSelect, TypeOK, RequestsOK
  <2>1. CASE req' = [req EXCEPT ![t].pc = "pollCommit"] /\ req[t].ent = NoEntry
    <3> DEFINE r == [req[t] EXCEPT !.pc = "pollCommit"]
    <3>1. r.pc # "execute" /\ Knows(r)
      BY <2>0, <2>1 DEF Knows, Request
    <3> QED BY <1>3, <2>1, <3>1, FrameInv DEF PollSelect
  <2>2. ASSUME NEW e \in Entry, IsHead(e, req[t].dev),
               req' = [req EXCEPT ![t].pc = "pollCommit", ![t].ent = e,
                                  ![t].fresh = execution[e] = "none"]
        PROVE  IInv'
    <3> DEFINE r == [req[t] EXCEPT !.pc = "pollCommit", !.ent = e,
                                   !.fresh = execution[e] = "none"]
    <3>1. /\ r.pc = "pollCommit" /\ r.ent = e /\ r.dev = req[t].dev
          /\ r.fresh = (execution[e] = "none")
      BY <2>0 DEF Request
    <3>2. e \in rows /\ target[e] = req[t].dev /\ execution[e] # "cancelled"
      BY <2>2 DEF IsHead, Pending
    <3>3. \A f \in rows : f < e /\ target[f] = target[e] => Settled(f)
      BY <2>2, <3>2 DEF IsHead, Pending, Settled, TypeOK, TablesOK, Entry
    <3>4. ~r.fresh => execution[e] = "started"
      BY <3>1, <3>2 DEF TypeOK, TablesOK
    <3>5. Knows(r)
      BY <3>1, <3>2, <3>3, <3>4 DEF Knows
    <3>6. req' = [req EXCEPT ![t] = r]
      BY <2>2 DEF TypeOK, RequestsOK
    <3> QED BY <1>3, <3>1, <3>5, <3>6, FrameInv DEF PollSelect
  <2>3. req[t].ent = NoEntry
    BY <2>0 DEF IInv, ThreadInv, Knows
  <2> QED BY <1>3, <2>1, <2>2, <2>3 DEF PollSelect
<1>4. CASE PollEmpty(t)
  BY <1>4, FinishInv DEF PollEmpty
<1>5. CASE PollConflict(t)
  BY <1>5, FinishInv DEF PollConflict
<1>6. CASE Lose(t)
  BY <1>6, FinishInv DEF Lose
<1>7. ASSUME NEW d \in Device, RegisterLoad(t, d) PROVE IInv'
  <2> DEFINE r == [Idle EXCEPT !.pc = "register", !.dev = d,
                     !.saw = IF d \in registered THEN status[d] ELSE "unloaded"]
  <2>1. r.pc # "execute" /\ Knows(r)
    BY DEF Idle, Knows
  <2> HIDE DEF r
  <2> QED BY <1>7, <2>1, FrameInv DEF RegisterLoad, Start, r
<1>8. ASSUME NEW d \in Device, PollLoadDevice(t, d) PROVE IInv'
  <2> DEFINE r == [Idle EXCEPT !.pc = "pollSelect", !.dev = d, !.saw = status[d]]
  <2>1. r.pc # "execute" /\ Knows(r)
    BY DEF Idle, Knows
  <2> QED BY <1>8, <2>1, FrameInv DEF PollLoadDevice, Start
<1>9. ASSUME NEW d \in Device, NEW e \in Entry, CallbackLoad(t, d, e) PROVE IInv'
  <2> DEFINE r == [Idle EXCEPT !.pc = "callback", !.dev = d, !.ent = e, !.saw = status[d]]
  <2>1. e \in rows /\ target[e] = d /\ execution[e] = "started"
    BY <1>9 DEF CallbackLoad, IInv, OfferedInv
  <2>2. r.pc # "execute" /\ Knows(r)
    BY <2>1 DEF Idle, Knows
  <2> QED BY <1>9, <2>2, FrameInv DEF CallbackLoad, ReceiveCallback, Start
<1>10. ASSUME NEW e \in Entry, CancelRead(t, e) PROVE IInv'
  <2> DEFINE r == [Idle EXCEPT !.pc = "cancel", !.ent = e]
  <2>1. e \in rows
    BY <1>10 DEF CancelRead, LogStatus
  <2>2. r.pc # "execute" /\ Knows(r)
    BY <2>1 DEF Idle, Knows
  <2> QED BY <1>10, <2>2, FrameInv DEF CancelRead, Start
<1> QED BY <1>1, <1>2, <1>3, <1>4, <1>5, <1>6, <1>7, <1>8, <1>9, <1>10

(* The six steps that change the queue or what an agent holds.             *)
LEMMA ExecuteBeginInv ==
  ASSUME TypeOK, IInv, NEW t \in Thread, NEW d \in Device, NEW c \in Command,
         ExecuteBegin(t, d, c)
  PROVE  IInv'
<1> USE CommandQueueAssumption DEF ExecuteBegin, devices, deleted
<1> DEFINE n == begun + 1
<1>1. n \in Entry /\ begun \in Nat /\ n \notin rows
  BY DEF TypeOK, TablesOK, Entry, IInv, RowsInv
<1>2. /\ \A e \in Entry : e # n => target'[e] = target[e]
      /\ target'[n] = d
  BY <1>1 DEF TypeOK, TablesOK
<1>3. \A u \in Thread : u # t => req'[u] = req[u]
  BY DEF Start, TypeOK, RequestsOK
<1>4. req'[t].pc = "execute" /\ req'[t].ent = n
  BY DEF Start, Idle, TypeOK, RequestsOK
<1>5. rows \subseteq Entry
  BY DEF TypeOK, TablesOK
<1>6. RowsInv'
  BY <1>1, <1>2 DEF IInv, RowsInv, TypeOK, TablesOK, Entry
<1>7. OfferedInv' /\ DispatchInOrder'
  BY <1>1, <1>2, <1>5
     DEF IInv, OfferedInv, DispatchInOrder, Settled, TypeOK, TablesOK
<1>8. ExecuteInv'
  <2>1. \A u \in Thread : req[u].pc = "execute" =>
          req[u].ent \in 1..begun /\ req[u].ent \in Entry /\ req[u].ent # n
    BY <1>1 DEF IInv, ExecuteInv, TypeOK, RequestsOK, RequestOK
  <2> QED BY <1>1, <1>2, <1>3, <1>4, <2>1 DEF IInv, ExecuteInv
<1>9. ThreadInv'
  <2>1. Knows(req[t])'
    BY <1>4 DEF Knows
  <2>2. ASSUME NEW u \in Thread, u # t PROVE Knows(req[u])'
    BY <1>1, <1>2, <1>3, <1>5, <2>2 DEF IInv, ThreadInv, Knows, Settled
  <2> QED BY <1>3, <2>1, <2>2 DEF ThreadInv
<1> QED BY <1>6, <1>7, <1>8, <1>9 DEF IInv

LEMMA ExecuteCommitInv ==
  ASSUME TypeOK, IInv, NEW t \in Thread, ExecuteCommit(t)
  PROVE  IInv'
<1> USE CommandQueueAssumption DEF ExecuteCommit, devices, deleted
<1> DEFINE n == req[t].ent
<1>1. n \in Entry /\ n = begun /\ n \notin rows /\ target[n] \in Device
  BY DEF IInv, ExecuteInv
<1>2. execution[n] = "none" /\ result[n] = "none"
  BY <1>1 DEF IInv, RowsInv
<1>3. /\ \A u \in Thread : u # t => req'[u] = req[u]
      /\ req'[t] = Idle
  BY DEF Finish, TypeOK, RequestsOK
<1>4. rows \subseteq Entry /\ begun \in Nat
  BY DEF TypeOK, TablesOK
<1>10. \A e \in rows : e <= begun /\ e \in Nat
  BY <1>4 DEF IInv, RowsInv, Entry
<1>5. RowsInv' /\ OfferedInv'
  BY <1>1, <1>2, <1>4 DEF IInv, RowsInv, OfferedInv
<1>6. \A e \in rows : e < n
  BY <1>1, <1>4, <1>10 DEF IInv, ExecuteInv
<1>7. DispatchInOrder'
  BY <1>1, <1>2, <1>4, <1>10, <1>6 DEF IInv, DispatchInOrder, Settled
<1>8. ExecuteInv'
  BY <1>1, <1>3, IdleKnows DEF IInv, ExecuteInv
<1>9. ThreadInv'
  <2>1. Knows(req[t])'
    BY <1>3 DEF Knows, Idle
  <2>2. ASSUME NEW u \in Thread, u # t PROVE Knows(req[u])'
    BY <1>1, <1>3, <1>4, <1>10, <1>6, <2>2 DEF IInv, ThreadInv, Knows, Settled
  <2> QED BY <1>3, <2>1, <2>2 DEF ThreadInv
<1> QED BY <1>5, <1>7, <1>8, <1>9 DEF IInv

(* What threads know survives a step after which what was started is still *)
(* started and what was settled still settled.                             *)
LEMMA MonotoneInv ==
  ASSUME TypeOK, IInv, NEW t \in Thread, NEW r,
         req' = [req EXCEPT ![t] = r], r.pc # "execute", Knows(r)',
         UNCHANGED <<begun, target, rows>>,
         \A e \in Entry : execution[e] = "started" => execution'[e] = "started",
         \A e \in Entry : Settled(e) => Settled(e)'
  PROVE  ExecuteInv' /\ ThreadInv'
<1>1. \A u \in Thread : req'[u] = IF u = t THEN r ELSE req[u]
  BY DEF TypeOK, RequestsOK
<1>2. rows \subseteq Entry
  BY DEF TypeOK, TablesOK
<1>3. ExecuteInv'
  BY <1>1 DEF IInv, ExecuteInv
<1>4. ASSUME NEW u \in Thread, u # t PROVE Knows(req[u])'
  BY <1>1, <1>2, <1>4 DEF IInv, ThreadInv, Knows
<1> QED BY <1>1, <1>3, <1>4 DEF ThreadInv

LEMMA PollDispatchInv ==
  ASSUME TypeOK, IInv, NEW t \in Thread, PollDispatch(t)
  PROVE  IInv'
<1> DEFINE e == req[t].ent
<1>0. PICK r : r = [req[t] EXCEPT !.pc = "reply"]
  OBVIOUS
<1>1. req[t] \in Request /\ req[t].pc = "pollCommit" /\ e # NoEntry
  BY DEF PollDispatch, TypeOK, RequestsOK
<1>2. Knows(req[t])
  BY DEF IInv, ThreadInv
<1>3. e \in rows /\ e \in Entry /\ target[e] = req[t].dev
  BY <1>1, <1>2 DEF Knows, TypeOK, TablesOK
<1>4. \A f \in rows : f < e /\ target[f] = target[e] => Settled(f)
  BY <1>1, <1>2 DEF Knows
<1>5. /\ execution' = [execution EXCEPT ![e] = "started"]
      /\ execution[e] # "cancelled"
  <2>1. CASE req[t].fresh
    BY <2>1 DEF PollDispatch
  <2>2. CASE ~req[t].fresh
    <3>1. execution[e] = "started"
      BY <1>1, <1>2, <2>2 DEF Knows
    <3>2. execution' = execution
      BY <2>2 DEF PollDispatch
    <3> QED BY <3>1, <3>2, <1>3 DEF TypeOK, TablesOK
  <2> QED BY <2>1, <2>2
<1>6. \A f \in Entry : f # e => execution'[f] = execution[f]
  BY <1>3, <1>5 DEF TypeOK, TablesOK
<1>7. execution'[e] = "started"
  BY <1>3, <1>5 DEF TypeOK, TablesOK
<1>8. UNCHANGED <<begun, target, rows, result, offered>> /\ rows \subseteq Entry
  BY DEF PollDispatch, TypeOK, TablesOK
<1>9. RowsInv' /\ OfferedInv'
  BY <1>3, <1>6, <1>7, <1>8 DEF IInv, RowsInv, OfferedInv, TypeOK, TablesOK
<1>10. \A f \in Entry : Settled(f) => Settled(f)'
  BY <1>5, <1>6, <1>7, <1>8 DEF Settled
<1>11. DispatchInOrder'
  BY <1>4, <1>6, <1>7, <1>8, <1>10 DEF IInv, DispatchInOrder
<1>12. Knows(r)'
  <2>1. r.pc = "reply" /\ r.ent = e /\ r.dev = req[t].dev
    BY <1>0, <1>1 DEF Request
  <2>2. r.ent \in rows' /\ target'[r.ent] = r.dev /\ execution'[r.ent] = "started"
    BY <1>3, <1>7, <1>8, <2>1
  <2> QED BY <2>1, <2>2 DEF Knows
<1>13. r.pc # "execute" /\ req' = [req EXCEPT ![t] = r]
  BY <1>0, <1>1 DEF PollDispatch, Request
<1>14. ExecuteInv' /\ ThreadInv'
  BY <1>6, <1>7, <1>8, <1>10, <1>12, <1>13, MonotoneInv
<1> QED BY <1>9, <1>11, <1>14 DEF IInv

LEMMA DeliverInv ==
  ASSUME TypeOK, IInv, NEW t \in Thread, Deliver(t)
  PROVE  IInv'
<1> DEFINE d == req[t].dev
           e == req[t].ent
<1>1. req[t].pc = "reply" /\ d \in Device /\ e \in Entry
  BY DEF Deliver, TypeOK, RequestsOK, RequestOK
<1>2. e \in rows /\ target[e] = d /\ execution[e] = "started"
  BY <1>1 DEF IInv, ThreadInv, Knows
<1>3. UNCHANGED tables /\ req' = [req EXCEPT ![t] = Idle]
  BY DEF Deliver, Finish
<1>4. OfferedInv'
  <2>1. \A c \in Device : offered'[c] = IF c = d THEN offered[c] \cup {e} ELSE offered[c]
    BY <1>1 DEF Deliver, TypeOK, TablesOK
  <2>2. ASSUME NEW c \in Device, NEW f \in offered'[c]
        PROVE  f \in rows /\ target[f] = c /\ execution[f] = "started"
    <3>1. CASE f \in offered[c]
      BY <3>1 DEF IInv, OfferedInv
    <3>2. CASE c = d /\ f = e
      BY <3>2, <1>2
    <3> QED BY <2>1, <2>2, <3>1, <3>2
  <2> QED BY <1>3, <2>2 DEF OfferedInv, tables
<1>5. RowsInv' /\ DispatchInOrder'
  BY <1>3 DEF IInv, RowsInv, DispatchInOrder, Settled, tables
<1>6. Knows(Idle)' /\ Idle.pc # "execute"
  BY DEF Knows, Idle
<1>7. ExecuteInv' /\ ThreadInv'
  BY <1>3, <1>6, MonotoneInv DEF tables, Settled
<1> QED BY <1>4, <1>5, <1>7 DEF IInv

LEMMA CallbackCommitInv ==
  ASSUME TypeOK, IInv, NEW t \in Thread, NEW outcome \in {"ok", "error"},
         CallbackCommit(t, outcome)
  PROVE  IInv'
<1> DEFINE e == req[t].ent
<1>1. req[t].pc = "callback" /\ e \in Entry
  BY DEF CallbackCommit, TypeOK, RequestsOK, RequestOK
<1>2. e \in rows /\ execution[e] = "started"
  BY <1>1 DEF IInv, ThreadInv, Knows
<1>3. UNCHANGED <<begun, target, rows, execution, offered>> /\ req' = [req EXCEPT ![t] = Idle]
  BY DEF CallbackCommit, Finish
<1>4. \A f \in Entry : f # e => result'[f] = result[f]
  BY <1>1 DEF CallbackCommit, TypeOK, TablesOK
<1>5. result'[e] # "none"
  BY <1>1 DEF CallbackCommit, TypeOK, TablesOK
<1>6. RowsInv' /\ OfferedInv'
  BY <1>2, <1>3, <1>4 DEF IInv, RowsInv, OfferedInv
<1>7. \A f \in Entry : Settled(f) => Settled(f)'
  BY <1>3, <1>4, <1>5 DEF Settled
<1>8. DispatchInOrder'
  BY <1>3, <1>7 DEF IInv, DispatchInOrder, TypeOK, TablesOK
<1>9. Knows(Idle)' /\ Idle.pc # "execute"
  BY DEF Knows, Idle
<1>10. ExecuteInv' /\ ThreadInv'
  BY <1>3, <1>7, <1>9, MonotoneInv
<1> QED BY <1>6, <1>8, <1>10 DEF IInv

LEMMA CancelCommitInv ==
  ASSUME TypeOK, IInv, NEW t \in Thread, CancelCommit(t)
  PROVE  IInv'
<1> DEFINE e == req[t].ent
<1>1. req[t].pc = "cancel" /\ e \in Entry
  BY DEF CancelCommit, TypeOK, RequestsOK, RequestOK
<1>2. e \in rows
  BY <1>1 DEF IInv, ThreadInv, Knows
<1>3. /\ UNCHANGED <<begun, target, rows, result, offered>>
      /\ req' = [req EXCEPT ![t] = Idle]
      /\ rows \subseteq Entry
  BY DEF CancelCommit, Finish, TypeOK, TablesOK
<1>4. \A f \in Entry : \/ execution'[f] = execution[f]
                       \/ f = e /\ execution[f] = "none" /\ execution'[f] = "cancelled"
  BY <1>1 DEF CancelCommit, TypeOK, TablesOK
<1>5. RowsInv' /\ OfferedInv'
  BY <1>2, <1>3, <1>4 DEF IInv, RowsInv, OfferedInv, TypeOK, TablesOK
<1>6. \A f \in Entry : Settled(f) => Settled(f)'
  BY <1>3, <1>4 DEF Settled
<1>7. DispatchInOrder'
  BY <1>3, <1>4, <1>6 DEF IInv, DispatchInOrder
<1>8. Knows(Idle)' /\ Idle.pc # "execute"
  BY DEF Knows, Idle
<1>9. ExecuteInv' /\ ThreadInv'
  BY <1>3, <1>4, <1>6, <1>8, MonotoneInv
<1> QED BY <1>5, <1>7, <1>9 DEF IInv

(* The monitor and the environment leave the queue alone; a restart also   *)
(* forgets all requests.                                                   *)
LEMMA OutsideInv ==
  ASSUME TypeOK, IInv, Monitor \/ Environment \/ UNCHANGED vars
  PROVE  IInv'
<1>1. UNCHANGED <<tables, offered>>
  BY DEF Monitor, MonitorRead, MonitorCommit, Environment, Age, DeleteDevice, DeleteCommand,
         Restart, vars
<1>2. RowsInv' /\ OfferedInv' /\ DispatchInOrder'
  BY <1>1 DEF IInv, RowsInv, OfferedInv, DispatchInOrder, Settled, tables
<1>3. CASE UNCHANGED req
  BY <1>1, <1>2, <1>3 DEF IInv, ExecuteInv, ThreadInv, Knows, Settled, tables
<1>4. CASE Restart
  <2>1. \A t \in Thread : req'[t] = Idle
    BY <1>4 DEF Restart
  <2>2. Idle.pc = "idle"
    BY DEF Idle
  <2>3. ExecuteInv'
    BY <2>1, <2>2 DEF ExecuteInv
  <2>4. ThreadInv'
    BY <2>1, <2>2 DEF ThreadInv, Knows
  <2> QED BY <1>2, <2>3, <2>4 DEF IInv
<1>5. UNCHANGED req \/ Restart
  BY DEF Monitor, MonitorRead, MonitorCommit, Environment, Age, DeleteDevice, DeleteCommand, vars
<1> QED BY <1>3, <1>4, <1>5

THEOREM Invariance == Spec => []IInv
<1>1. Init => IInv
  <2> SUFFICES ASSUME Init PROVE IInv
    OBVIOUS
  <2>1. \A t \in Thread : req[t] = Idle
    BY DEF Init
  <2>2. ExecuteInv /\ ThreadInv
    BY <2>1, IdleKnows DEF ExecuteInv, ThreadInv
  <2> QED BY <2>2 DEF Init, IInv, RowsInv, OfferedInv, DispatchInOrder
<1>2. ASSUME TypeOK, IInv, [Next]_vars PROVE IInv'
  <2>1. ASSUME NEW t \in Thread, Arrive(t) PROVE IInv'
    BY <1>2, <2>1, ReadStepsInv, ExecuteBeginInv DEF Arrive
  <2>2. ASSUME NEW t \in Thread, Step(t) PROVE IInv'
    BY <1>2, <2>2, ReadStepsInv, ExecuteCommitInv, PollDispatchInv, CallbackCommitInv,
       CancelCommitInv DEF Step
  <2>3. ASSUME NEW t \in Thread, Answer(t) PROVE IInv'
    BY <1>2, <2>3, ReadStepsInv, DeliverInv DEF Answer
  <2>4. CASE Monitor \/ Environment \/ UNCHANGED vars
    BY <1>2, <2>4, OutsideInv
  <2> QED BY <1>2, <2>1, <2>2, <2>3, <2>4 DEF Next
<1> QED BY <1>1, <1>2, TypeCorrect, PTL DEF Spec

(* No agent is ever handed a cancelled entry.                              *)
THEOREM CancelledNeverOfferedHolds == Spec => []CancelledNeverOffered
<1>1. IInv => CancelledNeverOffered
  BY DEF IInv, OfferedInv, CancelledNeverOffered
<1> QED BY <1>1, Invariance, PTL

(* The entries of a device are started in the order of their queued_at,    *)
(* each after the one before it was settled (agent.py:235-236).            *)
THEOREM DispatchInOrderHolds == Spec => []DispatchInOrder
<1>1. IInv => DispatchInOrder
  BY DEF IInv
<1> QED BY <1>1, Invariance, PTL

-----------------------------------------------------------------------------
(* A change of the status of one entry along the life cycle is a step of   *)
(* the log.                                                                *)
LEMMA OneMove ==
  ASSUME NEW e \in Entry, \A f \in Entry : f # e => LogStatus(f)' = LogStatus(f),
         \/ LogStatus(e) = "absent" /\ LogStatus(e)' = "queued"
         \/ LogStatus(e) = "queued" /\ LogStatus(e)' \in {"running", "cancelled"}
         \/ LogStatus(e) = "running" /\ LogStatus(e)' \in {"done", "error"}
  PROVE  Log!LogNext
<1> DEFINE log == [f \in Entry |-> LogStatus(f)]
<1>1. log' = [log EXCEPT ![e] = LogStatus(e)'] /\ log[e] = LogStatus(e)
  OBVIOUS
<1>2. CASE LogStatus(e) = "absent" /\ LogStatus(e)' = "queued"
  BY <1>1, <1>2 DEF Log!LogNext, Log!Move
<1>3. CASE LogStatus(e) = "queued" /\ LogStatus(e)' \in {"running", "cancelled"}
  BY <1>1, <1>3 DEF Log!LogNext, Log!Move
<1>4. CASE LogStatus(e) = "running" /\ LogStatus(e)' \in {"done", "error"}
  BY <1>1, <1>4 DEF Log!LogNext, Log!Move
<1> QED BY <1>2, <1>3, <1>4

(* Every step of the server is a step of the log or leaves it alone.       *)
LEMMA StepRefines ==
  ASSUME TypeOK, IInv, NEW t \in Thread, Step(t)
  PROVE  Log!LogNext \/ \A e \in Entry : LogStatus(e)' = LogStatus(e)
<1>0. PICK n : n = req[t].ent
  OBVIOUS
<1> USE <1>0 DEF devices, deleted, PollWrites
<1>1. CASE ExecuteCommit(t)
  <2>1. n \in Entry /\ n \notin rows /\ rows' = rows \cup {n}
    BY <1>1 DEF ExecuteCommit, IInv, ExecuteInv, TypeOK, RequestsOK, RequestOK
  <2>2. UNCHANGED <<execution, result>>
    BY <1>1 DEF ExecuteCommit
  <2>3. execution[n] = "none" /\ result[n] = "none"
    BY <2>1 DEF IInv, RowsInv
  <2>4. LogStatus(n) = "absent" /\ LogStatus(n)' = "queued"
    BY <2>1, <2>2, <2>3 DEF LogStatus
  <2>5. \A e \in Entry : e # n => LogStatus(e)' = LogStatus(e)
    BY <2>1, <2>2 DEF LogStatus
  <2> QED BY <2>1, <2>4, <2>5, OneMove
<1>2. CASE PollDispatch(t)
  <2>1. req[t].pc = "pollCommit" /\ n # NoEntry /\ Knows(req[t])
    BY <1>2 DEF PollDispatch, IInv, ThreadInv
  <2>2. n \in rows /\ n \in Entry
    BY <2>1 DEF Knows, TypeOK, TablesOK
  <2>3. UNCHANGED <<rows, result>>
    BY <1>2 DEF PollDispatch
  <2>4. CASE req[t].fresh
    <3>1. execution[n] = "none" /\ execution' = [execution EXCEPT ![n] = "started"]
      BY <1>2, <2>4 DEF PollDispatch
    <3>2. execution'[n] = "started" /\ \A e \in Entry : e # n => execution'[e] = execution[e]
      BY <2>2, <3>1 DEF TypeOK, TablesOK
    <3>3. result[n] = "none"
      BY <2>2, <3>1 DEF IInv, RowsInv
    <3>4. LogStatus(n) = "queued" /\ LogStatus(n)' = "running"
      BY <2>2, <2>3, <3>1, <3>2, <3>3 DEF LogStatus
    <3>5. \A e \in Entry : e # n => LogStatus(e)' = LogStatus(e)
      BY <2>3, <3>2 DEF LogStatus
    <3> QED BY <2>2, <3>4, <3>5, OneMove
  <2>5. CASE ~req[t].fresh
    BY <1>2, <2>3, <2>5 DEF PollDispatch, LogStatus
  <2> QED BY <2>4, <2>5
<1>3. ASSUME NEW outcome \in {"ok", "error"}, CallbackCommit(t, outcome)
      PROVE  Log!LogNext \/ \A e \in Entry : LogStatus(e)' = LogStatus(e)
  <2>1. req[t].pc = "callback" /\ n \in Entry
    BY <1>3 DEF CallbackCommit, TypeOK, RequestsOK, RequestOK
  <2>2. n \in rows /\ execution[n] = "started"
    BY <2>1 DEF IInv, ThreadInv, Knows
  <2>3. UNCHANGED <<rows, execution>>
    BY <1>3 DEF CallbackCommit
  <2>4. CASE result[n] = "none"
    <3>1. result'[n] = outcome /\ \A e \in Entry : e # n => result'[e] = result[e]
      BY <1>3, <2>1, <2>4 DEF CallbackCommit, TypeOK, TablesOK
    <3>2. LogStatus(n) = "running" /\ LogStatus(n)' \in {"done", "error"}
      BY <2>2, <2>3, <2>4, <3>1 DEF LogStatus
    <3>3. \A e \in Entry : e # n => LogStatus(e)' = LogStatus(e)
      BY <2>3, <3>1 DEF LogStatus
    <3> QED BY <2>1, <3>2, <3>3, OneMove
  <2>5. CASE result[n] # "none"
    BY <1>3, <2>3, <2>5 DEF CallbackCommit, LogStatus
  <2> QED BY <2>4, <2>5
<1>4. CASE CancelCommit(t)
  <2>1. req[t].pc = "cancel" /\ n \in Entry /\ Knows(req[t])
    BY <1>4 DEF CancelCommit, TypeOK, RequestsOK, RequestOK, IInv, ThreadInv
  <2>2. n \in rows
    BY <2>1 DEF Knows
  <2>3. UNCHANGED <<rows, result>>
    BY <1>4 DEF CancelCommit
  <2>4. CASE execution[n] = "none"
    <3>1. execution'[n] = "cancelled" /\ \A e \in Entry : e # n => execution'[e] = execution[e]
      BY <1>4, <2>1, <2>4 DEF CancelCommit, TypeOK, TablesOK
    <3>2. result[n] = "none"
      BY <2>1, <2>4 DEF IInv, RowsInv
    <3>3. LogStatus(n) = "queued" /\ LogStatus(n)' = "cancelled"
      BY <2>2, <2>3, <2>4, <3>1, <3>2 DEF LogStatus
    <3>4. \A e \in Entry : e # n => LogStatus(e)' = LogStatus(e)
      BY <2>3, <3>1 DEF LogStatus
    <3> QED BY <2>1, <3>3, <3>4, OneMove
  <2>5. CASE execution[n] # "none"
    BY <1>4, <2>3, <2>5 DEF CancelCommit, LogStatus
  <2> QED BY <2>4, <2>5
<1>5. CASE \/ RestoreDevice(t) \/ InsertDevice(t) \/ PollSelect(t) \/ PollEmpty(t)
           \/ PollConflict(t)
  <2>1. UNCHANGED <<rows, execution, result>>
    BY <1>5 DEF RestoreDevice, InsertDevice, PollSelect, PollEmpty, PollConflict, tables
  <2> QED BY <2>1 DEF LogStatus
<1> QED BY <1>1, <1>2, <1>3, <1>4, <1>5 DEF Step

(* The server implements the command log: whatever the interleaving of its *)
(* requests, the status an entry shows moves only along the life cycle.    *)
THEOREM Refinement == Spec => ImplementsCommandLog
<1>1. Init => Log!LogInit
  BY DEF Init, Log!LogInit, LogStatus
<1>2. ASSUME TypeOK, IInv, [Next]_vars
      PROVE  [Log!LogNext]_([e \in Entry |-> LogStatus(e)])
  <2>1. CASE \E t \in Thread : Step(t)
    BY <1>2, <2>1, StepRefines
  <2>2. CASE \/ \E t \in Thread : Arrive(t) \/ Answer(t)
             \/ Monitor \/ Environment \/ UNCHANGED vars
    <3>1. UNCHANGED <<rows, execution, result>>
      BY <2>2 DEF Arrive, RegisterLoad, PollLoadDevice, ExecuteBegin, CallbackLoad,
         ReceiveCallback, CancelRead, Answer, Deliver, Lose, Monitor, MonitorRead,
         MonitorCommit, Environment, Age, DeleteDevice, DeleteCommand, Restart, vars, tables
    <3> QED BY <3>1 DEF LogStatus
  <2> QED BY <1>2, <2>1, <2>2 DEF Next
<1> QED BY <1>1, <1>2, TypeCorrect, Invariance, PTL
       DEF Spec, ImplementsCommandLog, Log!LogSpec
=============================================================================
