------------------------- MODULE SecureFetch_proofs -------------------------
(***************************************************************************)
(* Proofs about SecureFetch, for any number of calls, sessions, logouts,   *)
(* faults and restarts.                                                    *)
(*                                                                         *)
(* Three layers, each inductive relative to those before it:               *)
(*                                                                         *)
(*   Inv        types, the messages and whoever waits for their answers,   *)
(*              which sessions can have been touched, the numbers on the   *)
(*              wire, and the handshakes against the clears: NoSeqReuse    *)
(*              and HandshakesBounded;                                     *)
(*   TurnsInv   while nothing went wrong: the chained calls have an order  *)
(*              in which they take their turns, so that every session is   *)
(*              at rest or has one request under way, at one known place:  *)
(*              CallsTakeTurns;                                            *)
(*   ChargeInv  for calls made one at a time: the configuration a call     *)
(*              awaits is the one that is kept (ConfigOne), every fault    *)
(*              pays for two failures, and Risk counts those it has yet to *)
(*              cause (two while an answer is lost, one while the two ends *)
(*              of the session are out of step): FailuresBounded.          *)
(***************************************************************************)
EXTENDS SecureFetch, TLAPS, FiniteSetTheorems

CallState == [pc : PC, after : Caller \cup {None}, sess : Session \cup {NoSession}]
InSession == {"handshake", "request"}

(* TypeOK, by the actors that change its parts *)
PageOK ==
  /\ session \in Session \cup {NoSession} /\ handshake \in Session \cup {NoSession}
  /\ config \in Caller \cup {None}
  /\ body \in [Caller -> {"none", "pending", "ok", "failed"}]
  /\ tail \in Caller \cup {None}

CallsOK ==
  /\ call \in [Caller -> CallState]
  /\ \A c \in Caller :
       /\ call[c].pc = "body" => call[c].after \in Caller
       /\ call[c].pc \in InSession => call[c].sess \in Session

NumbersOK ==
  /\ promise \in [Session -> {"none", "pending", "ok", "failed"}]
  /\ sends \in [Session -> Nat] /\ recvs \in [Session -> Nat]
  /\ expects \in [Session -> Nat] /\ replies \in [Session -> Nat]
  /\ live \subseteq Session

MessagesOK == wire \subseteq Message /\ back \subseteq Response

HistoryOK ==
  /\ made \in 0..MaxSession /\ clears \in Nat /\ overlapped \in BOOLEAN
  /\ logouts \in Nat /\ faults \in Nat /\ restarts \in Nat

(* The messages and whoever waits for their answers *)
IsRequest(m) == m.from # None

RequestsOK ==
  /\ \A m \in wire : IsRequest(m) =>
       call[m.from].pc \in {"request", "ok", "failed"} /\ call[m.from].sess = m.sess
  /\ \A m, n \in wire : IsRequest(m) /\ m.from = n.from => m = n
  /\ \A m \in wire : ~IsRequest(m) => m.seq = 0 /\ promise[m.sess] # "none"

ResponsesOK ==
  /\ \A r \in back : IsRequest(r) =>
       call[r.from].pc = "request" /\ call[r.from].sess = r.sess
  /\ \A r \in back : ~IsRequest(r) => promise[r.sess] = "pending"
  /\ \A r, q \in back : r.from = q.from /\ r.sess = q.sess => r = q

(* Only sessions whose handshake was begun are touched. *)
Untouched(s) ==
  /\ promise[s] = "none" /\ s \notin live
  /\ sends[s] = 0 /\ recvs[s] = 0 /\ expects[s] = 0 /\ replies[s] = 0

Begun ==
  /\ session <= made /\ handshake <= made
  /\ \A c \in Caller : call[c].sess <= made
  /\ \A s \in Session : s > made => Untouched(s)

(* A number is taken from sendSeq in the step that advances it. *)
SeqInv ==
  /\ NoSeqReuse
  /\ \A m \in wire : IsRequest(m) => m.seq < sends[m.sess]

(* A page without a session or a handshake has dropped the last it made. *)
MadeInv ==
  /\ HandshakesBounded
  /\ session = NoSession /\ handshake = NoSession => made <= clears

Types == PageOK /\ CallsOK /\ NumbersOK /\ MessagesOK /\ HistoryOK
Inv == Types /\ RequestsOK /\ ResponsesOK /\ Begun /\ SeqInv /\ MadeInv

LEMMA Parts == Types => TypeOK
  BY DEF Types, TypeOK, PageOK, CallsOK, NumbersOK, MessagesOK, HistoryOK, CallState, InSession

LEMMA Bounds ==
  /\ MaxSession \in Nat /\ MaxLogout \in Nat /\ MaxFault \in Nat /\ MaxRestart \in Nat
  /\ None \notin Caller
  /\ IsFiniteSet(Caller)
  BY SecureFetchAssumption

-----------------------------------------------------------------------------
(* The effect of the operations on a call *)

Others(c) == \A d \in Caller \ {c} : call'[d] = call[d]

LEMMA SettleCall ==
  ASSUME CallsOK, NEW c \in Caller, NEW how \in {"config", "ok", "failed"}, Settle(c, how)
  PROVE  /\ CallsOK'
         /\ Others(c)
         /\ call'[c].pc = how /\ call'[c].after = call[c].after /\ call'[c].sess = call[c].sess
  BY DEF CallsOK, Settle, Others, CallState, InSession, PC

Waiting(r, pc, d) == [r EXCEPT !.pc = pc, !.after = d]

LEMMA WaitingFields ==
  ASSUME NEW r \in CallState, NEW pc \in PC, NEW d \in Caller \cup {None}
  PROVE  /\ Waiting(r, pc, d) \in CallState
         /\ Waiting(r, pc, d).pc = pc /\ Waiting(r, pc, d).after = d
         /\ Waiting(r, pc, d).sess = r.sess
  BY DEF CallState, Waiting

LEMMA WaitCall ==
  ASSUME CallsOK, NEW c \in Caller, NEW pc \in {"body", "queued"}, NEW d \in Caller \cup {None},
         pc = "body" => d \in Caller,
         call' = [call EXCEPT ![c] = Waiting(call[c], pc, d)]
  PROVE  /\ CallsOK'
         /\ Others(c)
         /\ call'[c].pc = pc /\ call'[c].after = d /\ call'[c].sess = call[c].sess
<1>1. call[c] \in CallState /\ pc \in PC  BY DEF CallsOK, PC
<1>2. Waiting(call[c], pc, d) \in CallState /\ Waiting(call[c], pc, d).pc = pc
      /\ Waiting(call[c], pc, d).after = d /\ Waiting(call[c], pc, d).sess = call[c].sess
  BY <1>1, WaitingFields
<1> QED BY <1>2 DEF CallsOK, Others, InSession

LEMMA ChainCall ==
  ASSUME PageOK, CallsOK, NEW c \in Caller, Chain(c)
  PROVE  /\ CallsOK' /\ tail' = c
         /\ Others(c)
         /\ call'[c].pc = "queued" /\ call'[c].after = tail /\ call'[c].sess = call[c].sess
<1>1. call' = [call EXCEPT ![c] = Waiting(call[c], "queued", tail)]
  BY DEF Chain, CallsOK, CallState, Waiting
<1> QED BY <1>1, WaitCall DEF Chain, PageOK

(* waiting for the configuration that d fetched *)
LEMMA AwaitConfig ==
  ASSUME CallsOK, NEW c \in Caller, NEW d \in Caller,
         call' = [call EXCEPT ![c].pc = "body", ![c].after = d]
  PROVE  /\ CallsOK'
         /\ Others(c)
         /\ call'[c].pc = "body" /\ call'[c].after = d /\ call'[c].sess = call[c].sess
<1>1. call' = [call EXCEPT ![c] = Waiting(call[c], "body", d)]
  BY DEF CallsOK, CallState, Waiting
<1> QED BY <1>1, WaitCall

Joined(r, pc, s) == [r EXCEPT !.pc = pc, !.sess = s]

LEMMA JoinedFields ==
  ASSUME NEW r \in CallState, NEW pc \in PC, NEW s \in Session
  PROVE  /\ Joined(r, pc, s) \in CallState
         /\ Joined(r, pc, s).pc = pc /\ Joined(r, pc, s).sess = s
         /\ Joined(r, pc, s).after = r.after
  BY DEF CallState, Joined

LEMMA JoinCall ==
  ASSUME CallsOK, NEW c \in Caller, NEW pc \in InSession, NEW s \in Session,
         call' = [call EXCEPT ![c] = Joined(call[c], pc, s)]
  PROVE  /\ CallsOK'
         /\ Others(c)
         /\ call'[c].pc = pc /\ call'[c].after = call[c].after /\ call'[c].sess = s
<1>1. Joined(call[c], pc, s) \in CallState /\ Joined(call[c], pc, s).pc = pc
      /\ Joined(call[c], pc, s).sess = s /\ Joined(call[c], pc, s).after = call[c].after
  <2>1. call[c] \in CallState /\ pc \in PC  BY DEF CallsOK, InSession, PC
  <2> QED BY <2>1, JoinedFields
<1> QED BY <1>1 DEF CallsOK, Others, InSession

LEMMA SendCall ==
  ASSUME CallsOK, NEW c \in Caller, NEW s \in Session, SendRequest(c, s)
  PROVE  call' = [call EXCEPT ![c] = Joined(call[c], "request", s)]
  BY DEF CallsOK, SendRequest, Joined, CallState

-----------------------------------------------------------------------------
LEMMA InitInv == Init => Inv
<1> SUFFICES ASSUME Init PROVE Inv  OBVIOUS
<1> USE Bounds DEF Init, Session, NoSession
<1>1. Types
  <2>1. New \in CallState /\ New.pc = "new"  BY DEF New, CallState, PC
  <2>2. CallsOK  BY <2>1 DEF CallsOK, InSession
  <2>3. PageOK /\ NumbersOK  BY DEF PageOK, NumbersOK
  <2>4. wire = {} /\ back = {}  OBVIOUS
  <2>5. MessagesOK  BY <2>4 DEF MessagesOK
  <2>6. made \in 0..MaxSession /\ clears \in Nat /\ logouts \in Nat /\ faults \in Nat
        /\ restarts \in Nat
    OBVIOUS
  <2>7. overlapped \in BOOLEAN  OBVIOUS
  <2> QED BY <2>2, <2>3, <2>5, <2>6, <2>7 DEF Types, HistoryOK
<1>2. RequestsOK /\ ResponsesOK  BY DEF RequestsOK, ResponsesOK
<1>3. Begun  BY DEF Begun, Untouched, New
<1>4. SeqInv /\ MadeInv  BY DEF SeqInv, NoSeqReuse, MadeInv, HandshakesBounded
<1> QED BY <1>1, <1>2, <1>3, <1>4 DEF Inv

LEMMA Stutter == Inv /\ UNCHANGED vars => Inv'
<1> SUFFICES ASSUME Inv, UNCHANGED vars PROVE Inv'  OBVIOUS
<1> USE DEF vars, page, numbers, backend, history, bounds
<1>1. Types'  BY DEF Inv, Types, PageOK, CallsOK, NumbersOK, MessagesOK, HistoryOK
<1>2. RequestsOK' /\ ResponsesOK'  BY DEF Inv, RequestsOK, ResponsesOK
<1>3. Begun'  BY DEF Inv, Begun, Untouched
<1>4. SeqInv' /\ MadeInv'  BY DEF Inv, SeqInv, NoSeqReuse, MadeInv, HandshakesBounded
<1> QED BY <1>1, <1>2, <1>3, <1>4 DEF Inv

(* A call that has not sent a request has none on its way, and no answer. *)
LEMMA NoneOut ==
  ASSUME Inv, NEW c \in Caller, call[c].pc \notin {"request", "ok", "failed"}
  PROVE  /\ \A m \in wire : m.from # c
         /\ \A r \in back : r.from # c
  BY Bounds DEF Inv, Types, RequestsOK, ResponsesOK, IsRequest

(* The parts that a step of one call alone preserves *)
LEMMA OneCall ==
  ASSUME Inv, NEW c \in Caller, CallsOK', Others(c), UNCHANGED <<wire, back, promise>>,
         \/ call[c].pc \notin {"request", "ok", "failed"}
         \/ call'[c].pc \in {"request", "ok", "failed"} /\ call'[c].sess = call[c].sess
            /\ \A r \in back : r.from # c
  PROVE  RequestsOK' /\ ResponsesOK'
<1>1. \/ \A m \in wire : m.from # c
      \/ call'[c].pc \in {"request", "ok", "failed"} /\ call'[c].sess = call[c].sess
  BY NoneOut
<1>2. \A r \in back : r.from # c  BY NoneOut
<1>3. wire \subseteq Message /\ back \subseteq Response  BY DEF Inv, Types, MessagesOK
<1>4. \A m \in wire' : IsRequest(m) => /\ call'[m.from].pc \in {"request", "ok", "failed"}
                                     /\ call'[m.from].sess = m.sess
  <2> SUFFICES ASSUME NEW m \in wire, IsRequest(m)
               PROVE  /\ call'[m.from].pc \in {"request", "ok", "failed"}
                      /\ call'[m.from].sess = m.sess
    OBVIOUS
  <2>1. m.from \in Caller  BY <1>3 DEF Message, IsRequest
  <2>2. call[m.from].pc \in {"request", "ok", "failed"} /\ call[m.from].sess = m.sess
    BY DEF Inv, RequestsOK
  <2> QED BY <1>1, <2>1, <2>2 DEF Others
<1>5. \A r \in back' : IsRequest(r) => call'[r.from].pc = "request" /\ call'[r.from].sess = r.sess
  <2> SUFFICES ASSUME NEW r \in back, IsRequest(r)
               PROVE  call'[r.from].pc = "request" /\ call'[r.from].sess = r.sess
    OBVIOUS
  <2>1. r.from \in Caller  BY <1>3 DEF Response, IsRequest
  <2>2. call'[r.from] = call[r.from]  BY <1>2, <2>1 DEF Others
  <2> QED BY <2>2 DEF Inv, ResponsesOK
<1> QED BY <1>4, <1>5 DEF Inv, RequestsOK, ResponsesOK

LEMMA BeginStep == ASSUME Inv, NEW c \in Caller, Begin(c) PROVE Inv'
<1> USE DEF Inv, Types
<1>1. CallsOK' /\ Others(c) /\ call'[c].sess = call[c].sess
  <2>1. CASE Settle(c, "config")  BY <2>1, SettleCall
  <2>2. CASE config # None /\ call' = [call EXCEPT ![c].pc = "body", ![c].after = config]
    BY <2>2, AwaitConfig DEF PageOK
  <2> QED BY <2>1, <2>2 DEF Begin
<1>2. UNCHANGED <<page, promise, numbers, wire, back, backend, made, clears, bounds>>
      /\ call[c].pc = "new" /\ overlapped' \in BOOLEAN
  BY DEF Begin, HistoryOK
<1> USE DEF page, numbers, backend, bounds
<1>3. Types'  BY <1>1, <1>2 DEF PageOK, NumbersOK, MessagesOK, HistoryOK
<1>4. RequestsOK' /\ ResponsesOK'  BY <1>1, <1>2, OneCall
<1>5. Begun'  BY <1>1, <1>2 DEF Begun, Untouched, Others
<1>6. SeqInv' /\ MadeInv'  BY <1>2 DEF SeqInv, NoSeqReuse, MadeInv, HandshakesBounded
<1> QED BY <1>3, <1>4, <1>5, <1>6

LEMMA ConfigAnsweredStep == ASSUME Inv, NEW c \in Caller, ConfigAnswered(c) PROVE Inv'
<1> USE DEF Inv, Types
<1>1. CallsOK' /\ Others(c) /\ call'[c].sess = call[c].sess
  BY AwaitConfig DEF ConfigAnswered
<1>2. UNCHANGED <<session, handshake, tail, promise, numbers, wire, back, backend, history,
                 bounds>>
      /\ call[c].pc = "config" /\ config' = c /\ body' = [body EXCEPT ![c] = "pending"]
  BY DEF ConfigAnswered
<1> USE DEF numbers, backend, bounds, history
<1>3. Types'  BY <1>1, <1>2 DEF PageOK, NumbersOK, MessagesOK, HistoryOK
<1>4. RequestsOK' /\ ResponsesOK'  BY <1>1, <1>2, OneCall
<1>5. Begun'  BY <1>1, <1>2 DEF Begun, Untouched, Others
<1>6. SeqInv' /\ MadeInv'  BY <1>2 DEF SeqInv, NoSeqReuse, MadeInv, HandshakesBounded
<1> QED BY <1>3, <1>4, <1>5, <1>6

LEMMA ConfigBodyStep ==
  ASSUME Inv, NEW c \in Caller, ConfigRead(c) \/ ConfigCut(c)
  PROVE  Inv'
<1> USE DEF Inv, Types
<1>1. UNCHANGED <<session, handshake, config, tail, call, promise, numbers, wire, back, backend,
                 history, logouts, restarts>>
      /\ faults' \in {faults, faults + 1}
  BY DEF ConfigRead, ConfigCut, bounds
<1>2. body' \in [Caller -> {"none", "pending", "ok", "failed"}]
  BY DEF ConfigRead, ConfigCut, PageOK
<1> USE DEF numbers, backend, history
<1>3. Types'  BY <1>1, <1>2 DEF PageOK, CallsOK, NumbersOK, MessagesOK, HistoryOK
<1>4. RequestsOK' /\ ResponsesOK'  BY <1>1 DEF RequestsOK, ResponsesOK
<1>5. Begun'  BY <1>1 DEF Begun, Untouched
<1>6. SeqInv' /\ MadeInv'  BY <1>1 DEF SeqInv, NoSeqReuse, MadeInv, HandshakesBounded
<1> QED BY <1>3, <1>4, <1>5, <1>6

LEMMA ConfiguredStep == ASSUME Inv, NEW c \in Caller, Configured(c) PROVE Inv'
<1> USE DEF Inv, Types
<1>1. /\ CallsOK' /\ Others(c) /\ tail' \in Caller \cup {None}
      /\ call'[c].sess = call[c].sess
  <2>1. CASE Chain(c)  BY <2>1, ChainCall
  <2>2. CASE Settle(c, "failed") /\ UNCHANGED tail  BY <2>2, SettleCall DEF PageOK
  <2> QED BY <2>1, <2>2 DEF Configured
<1>2. UNCHANGED <<session, handshake, config, body, promise, numbers, wire, back, backend,
                 history, bounds>>
      /\ call[c].pc = "body"
  BY DEF Configured, MayChain
<1> USE DEF numbers, backend, bounds, history
<1>3. Types'  BY <1>1, <1>2 DEF PageOK, NumbersOK, MessagesOK, HistoryOK
<1>4. RequestsOK' /\ ResponsesOK'  BY <1>1, <1>2, OneCall
<1>5. Begun'  BY <1>1, <1>2 DEF Begun, Untouched, Others
<1>6. SeqInv' /\ MadeInv'  BY <1>2 DEF SeqInv, NoSeqReuse, MadeInv, HandshakesBounded
<1> QED BY <1>3, <1>4, <1>5, <1>6

LEMMA NotConfiguredStep == ASSUME Inv, NEW c \in Caller, NotConfigured(c) PROVE Inv'
<1> USE DEF Inv, Types
<1>1. CallsOK' /\ Others(c) /\ call'[c].sess = call[c].sess
  BY SettleCall DEF NotConfigured, PC, InSession
<1>2. UNCHANGED <<page, promise, numbers, wire, back, backend, history, logouts, restarts>>
      /\ call[c].pc = "config" /\ faults' = faults + 1
  BY DEF NotConfigured
<1> USE DEF page, numbers, backend, history
<1>3. Types'  BY <1>1, <1>2 DEF PageOK, NumbersOK, MessagesOK, HistoryOK
<1>4. RequestsOK' /\ ResponsesOK'  BY <1>1, <1>2, OneCall
<1>5. Begun'  BY <1>1, <1>2 DEF Begun, Untouched, Others
<1>6. SeqInv' /\ MadeInv'  BY <1>2 DEF SeqInv, NoSeqReuse, MadeInv, HandshakesBounded
<1> QED BY <1>3, <1>4, <1>5, <1>6

(* Sending, from the queue or with a session just made *)
LEMMA SendStep ==
  ASSUME Inv, NEW c \in Caller, NEW s \in Session, s <= made,
         call[c].pc \in {"queued", "handshake"}, SendRequest(c, s),
         UNCHANGED <<page, promise, recvs, back, backend, history, bounds>>
  PROVE  Inv'
<1> USE DEF page, backend, history, bounds, Types
<1> DEFINE m == [from |-> c, sess |-> s, seq |-> sends[s]]
<1>1. CallsOK' /\ Others(c) /\ call'[c].pc = "request" /\ call'[c].sess = s
  <2>1. call' = [call EXCEPT ![c] = Joined(call[c], "request", s)]  BY SendCall DEF Inv
  <2> QED BY <2>1, JoinCall DEF InSession, Inv
<1>2. wire' = wire \cup {m} /\ sends' = [sends EXCEPT ![s] = @ + 1]  BY DEF SendRequest
<1>3. sends \in [Session -> Nat] /\ s \in Session /\ c # None  BY Bounds DEF Inv, NumbersOK
<1>4. m \in Message /\ m.from = c /\ m.sess = s /\ m.seq = sends[s] /\ IsRequest(m)
  BY <1>3 DEF Message, IsRequest
<1> HIDE DEF m
<1>5. Types'
  <2>1. NumbersOK'  BY <1>2, <1>3 DEF Inv, NumbersOK
  <2>2. MessagesOK'  BY <1>2, <1>4 DEF Inv, MessagesOK
  <2> QED BY <1>1, <2>1, <2>2 DEF Inv, PageOK, HistoryOK
<1>6. /\ \A n \in wire : n.from # c
      /\ \A r \in back : r.from # c
  BY NoneOut
<1>7. wire \subseteq Message /\ back \subseteq Response  BY DEF Inv, MessagesOK
<1>8. RequestsOK'
  <2>1. \A n \in wire : IsRequest(n) => n.from \in Caller /\ call'[n.from] = call[n.from]
    BY <1>1, <1>6, <1>7 DEF Others, Message, IsRequest
  <2> QED BY <1>1, <1>2, <1>4, <1>6, <2>1 DEF Inv, RequestsOK
<1>9. ResponsesOK'
  <2>1. \A r \in back : IsRequest(r) => r.from \in Caller /\ call'[r.from] = call[r.from]
    BY <1>1, <1>6, <1>7 DEF Others, Response, IsRequest
  <2> QED BY <2>1 DEF Inv, ResponsesOK
<1>10. Begun'  BY <1>1, <1>2, <1>3 DEF Inv, HistoryOK, Begun, Untouched, Others, Session
<1>11. SeqInv'
  <2>1. \A n \in wire : n.sess \in Session /\ n.seq \in Nat  BY <1>7 DEF Message
  <2>2. \A n \in wire : IsRequest(n) => n.seq < sends[n.sess]  BY DEF Inv, SeqInv
  <2>3. sends'[s] = sends[s] + 1 /\ \A t \in Session : t # s => sends'[t] = sends[t]
    BY <1>2, <1>3
  <2>4. sends[s] \in Nat  BY <1>3
  <2>5. \A n \in wire' : IsRequest(n) => n.seq < sends'[n.sess]
    <3> SUFFICES ASSUME NEW n \in wire', IsRequest(n) PROVE n.seq < sends'[n.sess]  OBVIOUS
    <3>1. CASE n = m  BY <3>1, <1>4, <2>3, <2>4
    <3>2. CASE n \in wire  BY <3>2, <2>1, <2>2, <2>3, <2>4
    <3> QED BY <1>2, <3>1, <3>2
  <2>6. \A n \in wire : IsRequest(n) /\ n.sess = s => n.seq # sends[s]
    BY <2>1, <2>2, <2>4
  <2>7. NoSeqReuse'
    <3> SUFFICES ASSUME NEW n \in wire', NEW k \in wire', n.from # None, k.from # None,
                        n.sess = k.sess, n.seq = k.seq
                 PROVE  n = k
      BY DEF NoSeqReuse
    <3>1. CASE n \in wire /\ k \in wire  BY <3>1 DEF Inv, SeqInv, NoSeqReuse
    <3>2. CASE n = m  BY <3>2, <1>2, <1>4, <2>6 DEF IsRequest
    <3>3. CASE k = m  BY <3>3, <1>2, <1>4, <2>6 DEF IsRequest
    <3> QED BY <1>2, <3>1, <3>2, <3>3
  <2> QED BY <2>5, <2>7 DEF SeqInv
<1>12. MadeInv'  BY DEF Inv, MadeInv, HandshakesBounded
<1> QED BY <1>5, <1>8, <1>9, <1>10, <1>11, <1>12 DEF Inv

LEMMA ShareStep ==
  ASSUME Inv, NEW c \in Caller, call[c].pc = "queued", handshake # NoSession,
         call' = [call EXCEPT ![c].pc = "handshake", ![c].sess = handshake],
         UNCHANGED <<page, promise, numbers, wire, back, backend, history, bounds>>
  PROVE  Inv'
<1> USE DEF page, numbers, backend, history, bounds, Types
<1>1. handshake \in Session  BY DEF Inv, PageOK
<1>2. call' = [call EXCEPT ![c] = Joined(call[c], "handshake", handshake)]
  BY DEF Inv, CallsOK, CallState, Joined
<1>3. CallsOK' /\ Others(c) /\ call'[c].sess = handshake
  BY <1>1, <1>2, JoinCall DEF InSession, Inv
<1>4. Types'  BY <1>3 DEF Inv, PageOK, NumbersOK, MessagesOK, HistoryOK
<1>5. RequestsOK' /\ ResponsesOK'  BY <1>3, OneCall
<1>6. Begun'  BY <1>3 DEF Inv, Begun, Untouched, Others
<1>7. SeqInv' /\ MadeInv'  BY DEF Inv, SeqInv, NoSeqReuse, MadeInv, HandshakesBounded
<1> QED BY <1>4, <1>5, <1>6, <1>7 DEF Inv

LEMMA CreateStep ==
  ASSUME Inv, NEW c \in Caller, call[c].pc = "queued",
         session = NoSession, handshake = NoSession, made < MaxSession,
         made' = made + 1,
         promise' = [promise EXCEPT ![made + 1] = "pending"],
         handshake' = made + 1,
         wire' = wire \cup {[from |-> None, sess |-> made + 1, seq |-> 0]},
         call' = [call EXCEPT ![c].pc = "handshake", ![c].sess = made + 1],
         UNCHANGED <<session, config, body, tail, numbers, back, backend, clears, overlapped,
                   bounds>>
  PROVE  Inv'
<1> USE DEF numbers, backend, bounds, Types
<1> DEFINE s == made + 1
           m == [from |-> None, sess |-> s, seq |-> 0]
<1>1. s \in Session /\ made \in Nat  BY Bounds DEF Inv, HistoryOK, Session
<1>2. m \in Message /\ ~IsRequest(m) /\ m.sess = s /\ m.seq = 0 /\ m.from = None
  BY <1>1 DEF Message, IsRequest
<1>3. wire' = wire \cup {m}  OBVIOUS
<1>4. s = made + 1 /\ handshake' = s /\ made' = s /\ promise' = [promise EXCEPT ![s] = "pending"]
      /\ call' = [call EXCEPT ![c] = Joined(call[c], "handshake", s)]
  BY DEF Inv, CallsOK, CallState, Joined
<1> HIDE DEF s, m
<1>5. CallsOK' /\ Others(c) /\ call'[c].sess = s
  BY <1>1, <1>4, JoinCall DEF InSession, Inv
<1>6. promise \in [Session -> {"none", "pending", "ok", "failed"}]  BY DEF Inv, NumbersOK
<1>7. wire \subseteq Message /\ back \subseteq Response  BY DEF Inv, MessagesOK
<1>8. Types'
  <2>1. NumbersOK'  BY <1>1, <1>4, <1>6 DEF Inv, NumbersOK
  <2>2. MessagesOK'  BY <1>2, <1>3, <1>7 DEF MessagesOK
  <2>3. HistoryOK'
    <3>1. made' \in 0..MaxSession  BY <1>1, <1>4, Bounds
    <3> QED BY <3>1 DEF Inv, HistoryOK
  <2> QED BY <1>1, <1>4, <1>5, <2>1, <2>2, <2>3 DEF Inv, PageOK
<1>9. RequestsOK' /\ ResponsesOK'
  <2>1. /\ \A n \in wire : n.from # c /\ n.from \in Caller \cup {None} /\ n.sess \in Session
        /\ \A r \in back : r.from # c /\ r.from \in Caller \cup {None} /\ r.sess \in Session
    BY NoneOut, <1>7 DEF Message, Response
  <2>2. promise'[s] = "pending" /\ \A t \in Session : t # s => promise'[t] = promise[t]
    BY <1>1, <1>4, <1>6
  <2>3. RequestsOK'
    <3>1. \A n \in wire : IsRequest(n) => call'[n.from] = call[n.from]
      BY <2>1, <1>5 DEF Others, IsRequest
    <3> QED BY <1>2, <1>3, <2>1, <2>2, <3>1 DEF Inv, RequestsOK, IsRequest
  <2>4. ResponsesOK'
    <3>1. \A r \in back : IsRequest(r) => call'[r.from] = call[r.from]
      BY <2>1, <1>5 DEF Others, IsRequest
    <3> QED BY <2>1, <2>2, <3>1 DEF Inv, ResponsesOK
  <2> QED BY <2>3, <2>4
<1>10. Begun'
  <2>1. /\ session <= s /\ handshake <= made /\ \A d \in Caller : call[d].sess <= s
    BY <1>1, <1>4 DEF Inv, Begun, CallsOK, CallState, Session, NoSession, PageOK
  <2>2. \A t \in Session : t > s => t > made /\ t # s /\ promise'[t] = promise[t]
    BY <1>1, <1>4, <1>6 DEF Session
  <2>3. \A d \in Caller : call'[d].sess <= s
    <3>1. s <= s  BY <1>1, Bounds DEF Session
    <3> QED BY <1>5, <2>1, <3>1 DEF Others
  <2>4. \A t \in Session : t > s => Untouched(t)'  BY <2>2 DEF Inv, Begun, Untouched
  <2>5. session' <= made' /\ handshake' <= made'  BY <1>1, <1>4, <2>1, Bounds DEF Session
  <2> QED BY <1>4, <2>3, <2>4, <2>5 DEF Begun
<1>11. SeqInv'  BY <1>2, <1>3 DEF Inv, SeqInv, NoSeqReuse, IsRequest
<1>12. MadeInv'
  BY <1>1, <1>4 DEF Inv, MadeInv, HandshakesBounded, HistoryOK, NoSession
<1> QED BY <1>8, <1>9, <1>10, <1>11, <1>12 DEF Inv

LEMMA RunStep == ASSUME Inv, NEW c \in Caller, Run(c) PROVE Inv'
<1>1. call[c].pc = "queued"  BY DEF Run, MayRun
<1>2. CASE session # NoSession /\ SendRequest(c, session) /\ UNCHANGED <<made, promise, handshake>>
  <2>1. session \in Session /\ session <= made  BY <1>2 DEF Inv, Types, PageOK, Begun
  <2>2. UNCHANGED <<page, promise, recvs, back, backend, history, bounds>>
    BY <1>2 DEF Run, page, history
  <2> QED BY <1>1, <1>2, <2>1, <2>2, SendStep
<1>3. CASE session = NoSession /\ AwaitHandshake(c) /\ UNCHANGED sends
  <2>1. UNCHANGED <<session, config, body, tail, numbers, back, backend, clears, overlapped,
                   bounds>>
    BY <1>3 DEF Run, numbers
  <2>2. CASE handshake # NoSession
    <3>1. UNCHANGED <<page, promise, numbers, wire, back, backend, history, bounds>>
      BY <1>3, <2>1, <2>2 DEF AwaitHandshake, page, history
    <3> QED BY <1>1, <1>3, <2>2, <3>1, ShareStep DEF AwaitHandshake
  <2>3. CASE handshake = NoSession  BY <1>1, <1>3, <2>1, <2>3, CreateStep DEF AwaitHandshake
  <2> QED BY <2>2, <2>3
<1> QED BY <1>2, <1>3 DEF Run

LEMMA ResumeStep == ASSUME Inv, NEW c \in Caller, Resume(c) PROVE Inv'
<1>1. call[c].pc = "handshake" /\ call[c].sess \in Session /\ call[c].sess <= made
  BY DEF Resume, MayResume, Inv, Types, CallsOK, InSession, Begun
<1>2. UNCHANGED <<page, promise, recvs, back, backend, history, bounds>>  BY DEF Resume
<1>3. CASE SendRequest(c, call[c].sess)  BY <1>1, <1>2, <1>3, SendStep
<1>4. CASE Settle(c, "failed") /\ UNCHANGED <<wire, sends>>
  <2> USE DEF Inv, Types, page, backend, history, bounds
  <2>1. CallsOK' /\ Others(c) /\ call'[c].sess = call[c].sess
    BY <1>4, SettleCall DEF PC, InSession
  <2>2. Types'  BY <1>2, <1>4, <2>1 DEF PageOK, NumbersOK, MessagesOK, HistoryOK
  <2>3. RequestsOK' /\ ResponsesOK'  BY <1>1, <1>2, <1>4, <2>1, OneCall
  <2>4. Begun'  BY <1>2, <1>4, <2>1 DEF Begun, Untouched, Others
  <2>5. SeqInv' /\ MadeInv'
    BY <1>2, <1>4 DEF SeqInv, NoSeqReuse, MadeInv, HandshakesBounded
  <2> QED BY <2>2, <2>3, <2>4, <2>5
<1> QED BY <1>3, <1>4 DEF Resume

-----------------------------------------------------------------------------
(* The events *)

LEMMA ClearPage ==
  ASSUME PageOK, HistoryOK, Clear, body' = body
  PROVE  PageOK' /\ clears' = clears + 1 /\ clears' \in Nat
<1>1. config' = None  BY DEF Clear
<1> QED BY <1>1 DEF Clear, PageOK, HistoryOK

LEMMA LogoutStep == ASSUME Inv, Logout PROVE Inv'
<1> USE DEF Inv, Types, Logout, Clear, page, numbers, backend, bounds
<1>1. Types'
  <2>1. PageOK' /\ clears' \in Nat  BY ClearPage
  <2>2. CallsOK' /\ NumbersOK' /\ MessagesOK'  BY DEF CallsOK, NumbersOK, MessagesOK
  <2>3. HistoryOK'  BY <2>1 DEF HistoryOK
  <2> QED BY <2>1, <2>2, <2>3
<1>2. RequestsOK' /\ ResponsesOK'  BY DEF RequestsOK, ResponsesOK
<1>3. Begun'  BY DEF Begun, Untouched, NoSession, HistoryOK
<1>4. SeqInv'  BY DEF SeqInv, NoSeqReuse
<1>5. MadeInv'  BY DEF MadeInv, HandshakesBounded, HistoryOK
<1> QED BY <1>1, <1>2, <1>3, <1>4, <1>5

(* A call is settled by the answer to its request. *)
LEMMA AnswerCall ==
  ASSUME Inv, NEW r \in back, IsRequest(r), NEW how \in {"ok", "failed"},
         Settle(r.from, how), back' = back \ {r}, UNCHANGED <<wire, promise>>
  PROVE  /\ r.from \in Caller /\ r.sess \in Session /\ r.sess <= made
         /\ call[r.from].pc = "request" /\ call[r.from].sess = r.sess
         /\ CallsOK' /\ Others(r.from)
         /\ call'[r.from].pc = how /\ call'[r.from].sess = r.sess
         /\ RequestsOK' /\ ResponsesOK' /\ MessagesOK'
<1>1. wire \subseteq Message /\ back \subseteq Response  BY DEF Inv, Types, MessagesOK
<1>2. r.from \in Caller /\ r.sess \in Session  BY <1>1 DEF Response, IsRequest
<1>3. call[r.from].pc = "request" /\ call[r.from].sess = r.sess /\ r.sess <= made
  <2>1. call[r.from].pc = "request" /\ call[r.from].sess = r.sess  BY DEF Inv, ResponsesOK
  <2>2. call[r.from].sess <= made  BY <1>2 DEF Inv, Begun
  <2> QED BY <2>1, <2>2
<1>4. CallsOK' /\ Others(r.from) /\ call'[r.from].pc = how /\ call'[r.from].sess = r.sess
  BY <1>2, <1>3, SettleCall DEF Inv, Types, PC, InSession
<1>5. RequestsOK'
  <2>1. \A m \in wire : IsRequest(m) => m.from \in Caller  BY <1>1 DEF Message, IsRequest
  <2>2. \A m \in wire : IsRequest(m) => call'[m.from].pc \in {"request", "ok", "failed"}
                                        /\ call'[m.from].sess = m.sess
    <3> SUFFICES ASSUME NEW m \in wire, IsRequest(m)
                 PROVE  /\ call'[m.from].pc \in {"request", "ok", "failed"}
                        /\ call'[m.from].sess = m.sess
      OBVIOUS
    <3>1. call[m.from].pc \in {"request", "ok", "failed"} /\ call[m.from].sess = m.sess
      BY DEF Inv, RequestsOK
    <3> QED BY <1>3, <1>4, <2>1, <3>1 DEF Others
  <2> QED BY <2>2 DEF Inv, RequestsOK
<1>6. ResponsesOK'
  <2>1. \A q \in back' : IsRequest(q) => call'[q.from].pc = "request" /\ call'[q.from].sess = q.sess
    <3> SUFFICES ASSUME NEW q \in back, q # r, IsRequest(q)
                 PROVE  call'[q.from].pc = "request" /\ call'[q.from].sess = q.sess
      OBVIOUS
    <3>1. q.from \in Caller  BY <1>1 DEF Response, IsRequest
    <3>2. call[q.from].pc = "request" /\ call[q.from].sess = q.sess  BY DEF Inv, ResponsesOK
    <3>3. q.from # r.from  BY <1>3, <3>2 DEF Inv, ResponsesOK
    <3> QED BY <1>4, <3>1, <3>2, <3>3 DEF Others
  <2> QED BY <2>1 DEF Inv, ResponsesOK
<1>7. MessagesOK'  BY <1>1 DEF MessagesOK
<1> QED BY <1>2, <1>3, <1>4, <1>5, <1>6, <1>7

LEMMA SucceedStep == ASSUME Inv, NEW r \in back, Succeed(r) PROVE Inv'
<1>1. /\ UNCHANGED <<page, promise, sends, wire, backend, history, bounds>>
      /\ IsRequest(r) /\ back' = back \ {r} /\ Settle(r.from, "ok")
      /\ recvs' = [recvs EXCEPT ![r.sess] = @ + 1]
  BY DEF Succeed, Arrives, IsRequest
<1>2. /\ r.from \in Caller /\ r.sess \in Session /\ r.sess <= made
      /\ CallsOK' /\ Others(r.from) /\ call'[r.from].sess = r.sess
      /\ RequestsOK' /\ ResponsesOK' /\ MessagesOK'
  BY <1>1, AnswerCall
<1> USE DEF Inv, Types, page, backend, history, bounds
<1>3. Types'  BY <1>1, <1>2 DEF PageOK, NumbersOK, HistoryOK
<1>4. Begun'
  <2>1. \A s \in Session : s > made => s # r.sess
    BY <1>2, Bounds DEF Session, HistoryOK
  <2> QED BY <1>1, <1>2, <2>1 DEF Begun, Untouched, Others, NumbersOK
<1>5. SeqInv' /\ MadeInv'  BY <1>1 DEF SeqInv, NoSeqReuse, MadeInv, HandshakesBounded
<1> QED BY <1>2, <1>3, <1>4, <1>5

LEMMA TooOldStep == ASSUME Inv, NEW r \in back, TooOld(r) PROVE Inv'
<1>1. /\ UNCHANGED <<page, promise, sends, wire, backend, history, logouts, restarts>>
      /\ IsRequest(r) /\ back' = back \ {r} /\ Settle(r.from, "failed")
      /\ recvs' = [recvs EXCEPT ![r.sess] = @ + 1] /\ faults' = faults + 1
  BY DEF TooOld, Arrives, IsRequest
<1>2. /\ r.from \in Caller /\ r.sess \in Session /\ r.sess <= made
      /\ CallsOK' /\ Others(r.from) /\ call'[r.from].sess = r.sess
      /\ RequestsOK' /\ ResponsesOK' /\ MessagesOK'
  BY <1>1, AnswerCall
<1> USE DEF Inv, Types, page, backend, history, bounds
<1>3. Types'  BY <1>1, <1>2 DEF PageOK, NumbersOK, HistoryOK
<1>4. Begun'
  <2>1. \A s \in Session : s > made => s # r.sess
    BY <1>2, Bounds DEF Session, HistoryOK
  <2> QED BY <1>1, <1>2, <2>1 DEF Begun, Untouched, Others, NumbersOK
<1>5. SeqInv' /\ MadeInv'  BY <1>1 DEF SeqInv, NoSeqReuse, MadeInv, HandshakesBounded
<1> QED BY <1>2, <1>3, <1>4, <1>5

LEMMA RefusedStep == ASSUME Inv, NEW r \in back, Refused(r) PROVE Inv'
<1>1. /\ UNCHANGED <<body, promise, numbers, wire, backend, made, overlapped, bounds>>
      /\ IsRequest(r) /\ back' = back \ {r} /\ Settle(r.from, "failed") /\ Clear
  BY DEF Refused, Arrives, IsRequest
<1> USE DEF Inv, Types, numbers, backend, bounds
<1>2. /\ CallsOK' /\ Others(r.from) /\ call'[r.from].sess = r.sess /\ r.sess <= made
      /\ RequestsOK' /\ ResponsesOK' /\ MessagesOK'
  BY <1>1, AnswerCall
<1>3. Types'
  <2>1. PageOK' /\ clears' \in Nat  BY <1>1, ClearPage
  <2> QED BY <1>1, <1>2, <2>1 DEF NumbersOK, HistoryOK
<1>4. Begun'
  BY <1>1, <1>2 DEF Begun, Untouched, Others, Clear, NoSession, HistoryOK
<1>5. SeqInv'  BY <1>1 DEF SeqInv, NoSeqReuse
<1>6. MadeInv'  BY <1>1 DEF MadeInv, HandshakesBounded, Clear, HistoryOK
<1> QED BY <1>2, <1>3, <1>4, <1>5, <1>6

LEMMA BrokenStep == ASSUME Inv, NEW r \in back, Broken(r) PROVE Inv'
<1>1. /\ UNCHANGED <<page, promise, numbers, wire, backend, history, bounds>>
      /\ IsRequest(r) /\ back' = back \ {r} /\ Settle(r.from, "failed")
  BY DEF Broken, Arrives, IsRequest
<1> USE DEF Inv, Types, page, numbers, backend, history, bounds
<1>2. /\ CallsOK' /\ Others(r.from) /\ call'[r.from].sess = r.sess /\ r.sess <= made
      /\ RequestsOK' /\ ResponsesOK' /\ MessagesOK'
  BY <1>1, AnswerCall
<1>3. Types'  BY <1>1, <1>2 DEF PageOK, NumbersOK, HistoryOK
<1>4. Begun'  BY <1>1, <1>2 DEF Begun, Untouched, Others
<1>5. SeqInv' /\ MadeInv'  BY <1>1 DEF SeqInv, NoSeqReuse, MadeInv, HandshakesBounded
<1> QED BY <1>2, <1>3, <1>4, <1>5

LEMMA HandshakeReturnsStep == ASSUME Inv, NEW r \in back, HandshakeReturns(r) PROVE Inv'
<1> USE DEF Inv, Types, numbers, backend, history, bounds
<1>1. /\ UNCHANGED <<config, body, tail, call, numbers, wire, backend, history, bounds>>
      /\ ~IsRequest(r) /\ back' = back \ {r}
      /\ \E p \in {"ok", "failed"} : promise' = [promise EXCEPT ![r.sess] = p]
      /\ \/ session' = r.sess /\ handshake' = NoSession
         \/ UNCHANGED <<session, handshake>>
  BY DEF HandshakeReturns, Arrives, IsRequest
<1>2. wire \subseteq Message /\ back \subseteq Response  BY DEF MessagesOK
<1>3. r.sess \in Session  BY <1>2 DEF Response
<1>4. promise[r.sess] = "pending" /\ r.sess <= made
  <2>1. promise[r.sess] = "pending"  BY <1>1 DEF ResponsesOK
  <2>2. ~(r.sess > made)  BY <1>3, <2>1 DEF Begun, Untouched
  <2> QED BY <1>3, <2>1, <2>2, Bounds DEF Session, HistoryOK
<1>5. promise'[r.sess] \in {"ok", "failed"} /\ promise' \in [Session -> {"none", "pending", "ok", "failed"}]
      /\ \A s \in Session : s # r.sess => promise'[s] = promise[s]
  BY <1>1, <1>3 DEF NumbersOK
<1>6. Types'  BY <1>1, <1>2, <1>3, <1>5 DEF PageOK, CallsOK, NumbersOK, MessagesOK, HistoryOK
<1>7. RequestsOK'
  <2>1. \A m \in wire : m.sess \in Session  BY <1>2 DEF Message
  <2> QED BY <1>1, <1>5, <2>1 DEF RequestsOK
<1>8. ResponsesOK'
  <2>1. \A q \in back' : q.sess \in Session /\ q \in back  BY <1>1, <1>2 DEF Response
  <2>2. \A q \in back' : ~IsRequest(q) => q.sess # r.sess
    BY <1>1 DEF ResponsesOK, IsRequest
  <2> QED BY <1>1, <1>5, <2>1, <2>2 DEF ResponsesOK
<1>9. Begun'
  <2>1. \A s \in Session : s > made => s # r.sess  BY <1>4, Bounds DEF Session, HistoryOK
  <2>2. session' <= made /\ handshake' <= made
    BY <1>1, <1>4 DEF Begun, NoSession, HistoryOK
  <2> QED BY <1>1, <1>5, <2>1, <2>2 DEF Begun, Untouched
<1>10. SeqInv'  BY <1>1 DEF SeqInv, NoSeqReuse
<1>11. MadeInv'  BY <1>1, <1>3 DEF MadeInv, HandshakesBounded, NoSession, Session
<1> QED BY <1>6, <1>7, <1>8, <1>9, <1>10, <1>11

-----------------------------------------------------------------------------
(* The network and the backend *)

LEMMA ResponseFields ==
  ASSUME NEW m \in Message, NEW code \in {"ok", "refused", "error"}, NEW seq \in Nat
  PROVE  LET r == ResponseTo(m, code, seq)
         IN  r \in Response /\ r.from = m.from /\ r.sess = m.sess
             /\ r.code = code /\ r.seq = seq
  BY DEF Message, Response, ResponseTo

(* An answer that is awaited may be added to those on the way. *)
LEMMA AddAnswer ==
  ASSUME Inv, NEW m \in wire, Awaited(m), NEW r, r \in Response,
         r.from = m.from, r.sess = m.sess,
         back' = back \cup {r}, UNCHANGED <<call, promise>>
  PROVE  ResponsesOK'
<1>1. \A q \in back : ~(q.from = r.from /\ q.sess = r.sess)
  BY Zenon DEF Awaited
<1>2. IsRequest(r) => call[r.from].pc = "request" /\ call[r.from].sess = r.sess
  BY DEF Inv, RequestsOK, IsRequest, Awaited
<1>3. ~IsRequest(r) => promise[r.sess] = "pending"  BY DEF IsRequest, Awaited
<1> QED BY <1>1, <1>2, <1>3 DEF Inv, ResponsesOK

LEMMA LessOnWire ==
  ASSUME Inv, wire' \subseteq wire, UNCHANGED <<call, promise, sends>>
  PROVE  RequestsOK' /\ SeqInv'
<1>1. RequestsOK'  BY DEF Inv, RequestsOK
<1>2. SeqInv'  BY DEF Inv, SeqInv, NoSeqReuse
<1> QED BY <1>1, <1>2

LEMMA RespondStep ==
  ASSUME Inv, NEW m \in wire, NEW code \in {"ok", "refused", "error"}, NEW seq \in Nat,
         Respond(m, code, seq)
  PROVE  /\ UNCHANGED <<page, call, promise, numbers, history, logouts, restarts>>
         /\ m.sess \in Session
         /\ PageOK' /\ CallsOK' /\ MessagesOK'
         /\ RequestsOK' /\ ResponsesOK' /\ SeqInv' /\ MadeInv'
<1>1. /\ UNCHANGED <<page, call, promise, numbers, history, logouts, restarts>>
      /\ wire' = wire \ {m}
      /\ back' = back \/ (Awaited(m) /\ back' = back \cup {ResponseTo(m, code, seq)})
  BY DEF Respond
<1>2. wire \subseteq Message /\ back \subseteq Response  BY DEF Inv, Types, MessagesOK
<1>3. m \in Message /\ m.sess \in Session  BY <1>2 DEF Message
<1> DEFINE r == ResponseTo(m, code, seq)
<1>4. r \in Response /\ r.from = m.from /\ r.sess = m.sess  BY <1>3, ResponseFields
<1>5. back' = back \/ (Awaited(m) /\ back' = back \cup {r})  BY <1>1
<1> HIDE DEF r
<1>6. PageOK' /\ CallsOK'  BY <1>1 DEF Inv, Types, PageOK, CallsOK, page
<1>7. MessagesOK'  BY <1>1, <1>2, <1>4, <1>5 DEF MessagesOK
<1>8. RequestsOK' /\ SeqInv'  BY <1>1, LessOnWire DEF numbers
<1>9. ResponsesOK'
  <2>1. CASE back' = back  BY <1>1, <2>1 DEF Inv, ResponsesOK
  <2>2. CASE Awaited(m) /\ back' = back \cup {r}  BY <1>1, <1>4, <2>2, AddAnswer
  <2> QED BY <1>5, <2>1, <2>2
<1>10. MadeInv'  BY <1>1 DEF Inv, MadeInv, HandshakesBounded, page, history
<1> QED BY <1>1, <1>3, <1>6, <1>7, <1>8, <1>9, <1>10

LEMMA LiveBegun ==
  ASSUME Inv, NEW s \in Session, s \in live \/ promise[s] # "none"
  PROVE  \A t \in Session : t > made => t # s
  BY DEF Inv, Begun, Untouched

LEMMA ServeStep == ASSUME Inv, NEW m \in wire, Serve(m) PROVE Inv'
<1> USE DEF page, numbers, backend, history
<1>1. m.sess \in Session /\ m.seq \in Nat
  BY DEF Inv, Types, MessagesOK, Message
<1>2. CASE ServeStart(m)
  <2>1. /\ UNCHANGED <<page, call, promise, numbers, history, logouts, restarts>>
        /\ PageOK' /\ CallsOK' /\ MessagesOK'
        /\ RequestsOK' /\ ResponsesOK' /\ SeqInv' /\ MadeInv'
    BY <1>2, RespondStep DEF ServeStart
  <2>2. live' = live \cup {m.sess} /\ UNCHANGED <<expects, replies, faults>>
    BY <1>2 DEF ServeStart
  <2>3. \A t \in Session : t > made => t # m.sess
    BY <1>1, <1>2, LiveBegun DEF ServeStart, Inv, RequestsOK, IsRequest
  <2>4. NumbersOK' /\ HistoryOK'  BY <1>1, <2>1, <2>2 DEF Inv, Types, NumbersOK, HistoryOK
  <2>5. Begun'  BY <2>1, <2>2, <2>3 DEF Inv, Begun, Untouched
  <2> QED BY <2>1, <2>4, <2>5 DEF Inv, Types
<1>3. CASE ServeRequest(m)
  <2>1. replies[m.sess] \in Nat  BY <1>1 DEF Inv, Types, NumbersOK
  <2>2. /\ UNCHANGED <<page, call, promise, numbers, history, logouts, restarts>>
        /\ PageOK' /\ CallsOK' /\ MessagesOK'
        /\ RequestsOK' /\ ResponsesOK' /\ SeqInv' /\ MadeInv'
    BY <1>3, <2>1, RespondStep DEF ServeRequest
  <2>3. /\ expects' = [expects EXCEPT ![m.sess] = @ + 1]
        /\ replies' = [replies EXCEPT ![m.sess] = @ + 1]
        /\ UNCHANGED <<live, faults>>
    BY <1>3 DEF ServeRequest
  <2>4. \A t \in Session : t > made => t # m.sess
    BY <1>1, <1>3, LiveBegun DEF ServeRequest, InStep
  <2>5. NumbersOK' /\ HistoryOK'  BY <1>1, <2>2, <2>3 DEF Inv, Types, NumbersOK, HistoryOK
  <2>6. Begun'  BY <2>2, <2>3, <2>4 DEF Inv, Begun, Untouched, Types, NumbersOK
  <2> QED BY <2>2, <2>5, <2>6 DEF Inv, Types
<1>4. CASE ServeOutOfStep(m)
  <2>1. /\ UNCHANGED <<page, call, promise, numbers, history, logouts, restarts>>
        /\ PageOK' /\ CallsOK' /\ MessagesOK'
        /\ RequestsOK' /\ ResponsesOK' /\ SeqInv' /\ MadeInv'
    BY <1>4, RespondStep DEF ServeOutOfStep
  <2>2. UNCHANGED <<backend, faults>>  BY <1>4 DEF ServeOutOfStep
  <2>3. NumbersOK' /\ HistoryOK'  BY <2>1, <2>2 DEF Inv, Types, NumbersOK, HistoryOK
  <2>4. Begun'  BY <2>1, <2>2 DEF Inv, Begun, Untouched
  <2> QED BY <2>1, <2>3, <2>4 DEF Inv, Types
<1> QED BY <1>2, <1>3, <1>4 DEF Serve

LEMMA RefuseStep == ASSUME Inv, NEW m \in wire, Refuse(m) PROVE Inv'
<1> USE DEF page, numbers, history
<1>1. m.sess \in Session  BY DEF Inv, Types, MessagesOK, Message
<1>2. /\ UNCHANGED <<page, call, promise, numbers, history, logouts, restarts>>
      /\ PageOK' /\ CallsOK' /\ MessagesOK'
      /\ RequestsOK' /\ ResponsesOK' /\ SeqInv' /\ MadeInv'
  BY RespondStep DEF Refuse
<1>3. /\ faults' = faults + 1 /\ UNCHANGED <<live, replies>>
      /\ \/ UNCHANGED expects
         \/ m.sess \in live /\ expects' = [expects EXCEPT ![m.sess] = @ + 1]
  BY DEF Refuse, InStep
<1>4. NumbersOK' /\ HistoryOK'  BY <1>1, <1>2, <1>3 DEF Inv, Types, NumbersOK, HistoryOK
<1>5. m.sess \in live => \A t \in Session : t > made => t # m.sess  BY <1>1, LiveBegun
<1>6. Begun'  BY <1>2, <1>3, <1>5 DEF Inv, Begun, Untouched, Types, NumbersOK
<1> QED BY <1>2, <1>4, <1>6 DEF Inv, Types

LEMMA GiveUpStep ==
  ASSUME Inv, NEW m \in wire, NEW code \in {"refused", "error"}, GiveUp(m, code)
  PROVE  Inv'
<1> USE DEF Inv, Types, page, numbers, backend, history
<1>1. wire \subseteq Message /\ back \subseteq Response  BY DEF MessagesOK
<1> DEFINE r == ResponseTo(m, code, 0)
<1>2. r \in Response /\ r.from = m.from /\ r.sess = m.sess  BY <1>1, ResponseFields
<1>3. /\ Awaited(m) /\ back' = back \cup {r} /\ faults' = faults + 1
      /\ UNCHANGED <<page, call, promise, numbers, wire, backend, history, logouts, restarts>>
  BY DEF GiveUp
<1> HIDE DEF r
<1>4. Types'
  BY <1>1, <1>2, <1>3 DEF PageOK, CallsOK, NumbersOK, MessagesOK, HistoryOK
<1>5. RequestsOK' /\ SeqInv'  BY <1>3, LessOnWire
<1>6. ResponsesOK'  BY <1>2, <1>3, AddAnswer
<1>7. Begun'  BY <1>3 DEF Begun, Untouched
<1>8. MadeInv'  BY <1>3 DEF MadeInv, HandshakesBounded
<1> QED BY <1>4, <1>5, <1>6, <1>7, <1>8

LEMMA LoseResponseStep == ASSUME Inv, NEW r \in back, LoseResponse(r) PROVE Inv'
<1> USE DEF Inv, Types, page, numbers, backend, history
<1>1. wire \subseteq Message /\ back \subseteq Response  BY DEF MessagesOK
<1> DEFINE q == [r EXCEPT !.code = "error"]
<1>2. q \in Response /\ q.from = r.from /\ q.sess = r.sess  BY <1>1 DEF Response
<1>3. /\ back' = (back \ {r}) \cup {q} /\ faults' = faults + 1
      /\ UNCHANGED <<page, call, promise, numbers, wire, backend, history, logouts, restarts>>
  BY DEF LoseResponse
<1> HIDE DEF q
<1>4. Types'
  BY <1>1, <1>2, <1>3 DEF PageOK, CallsOK, NumbersOK, MessagesOK, HistoryOK
<1>5. RequestsOK' /\ SeqInv'  BY <1>3, LessOnWire
<1>6. ResponsesOK'
  BY <1>2, <1>3 DEF ResponsesOK, IsRequest
<1>7. Begun'  BY <1>3 DEF Begun, Untouched
<1>8. MadeInv'  BY <1>3 DEF MadeInv, HandshakesBounded
<1> QED BY <1>4, <1>5, <1>6, <1>7, <1>8

LEMMA RestartStep == ASSUME Inv, Restart PROVE Inv'
<1> USE DEF Inv, Types, page, numbers, history
<1>1. wire \subseteq Message /\ back \subseteq Response  BY DEF MessagesOK
<1>2. /\ wire' = {} /\ live' = {} /\ restarts' = restarts + 1
      /\ UNCHANGED <<page, call, promise, numbers, expects, replies, history, logouts, faults>>
      /\ \A q \in back' : q \in back \/ \E m \in wire : Awaited(m) /\ q = ResponseTo(m, "error", 0)
  BY DEF Restart
<1>3. \A q \in back' : \/ q \in back
                      \/ \E m \in wire : /\ Awaited(m) /\ q = ResponseTo(m, "error", 0)
                                        /\ q \in Response /\ q.from = m.from /\ q.sess = m.sess
  BY <1>1, <1>2, ResponseFields
<1>4. Types'
  <2>1. back' \subseteq Response  BY <1>1, <1>3
  <2> QED BY <1>2, <2>1 DEF PageOK, CallsOK, NumbersOK, MessagesOK, HistoryOK
<1>5. RequestsOK' /\ SeqInv'  BY <1>2, LessOnWire
<1>6. ResponsesOK'
  <2>1. \A q \in back' : IsRequest(q) => call[q.from].pc = "request" /\ call[q.from].sess = q.sess
    <3> SUFFICES ASSUME NEW q \in back', IsRequest(q)
                 PROVE  call[q.from].pc = "request" /\ call[q.from].sess = q.sess
      OBVIOUS
    <3>1. CASE q \in back  BY <3>1 DEF ResponsesOK
    <3>2. CASE \E m \in wire : Awaited(m) /\ q.from = m.from /\ q.sess = m.sess
      BY <3>2 DEF RequestsOK, IsRequest, Awaited
    <3> QED BY <1>3, <3>1, <3>2
  <2>2. \A q \in back' : ~IsRequest(q) => promise[q.sess] = "pending"
    <3> SUFFICES ASSUME NEW q \in back', ~IsRequest(q) PROVE promise[q.sess] = "pending"
      OBVIOUS
    <3>1. CASE q \in back  BY <3>1 DEF ResponsesOK
    <3>2. CASE \E m \in wire : Awaited(m) /\ q.from = m.from /\ q.sess = m.sess
      BY <3>2 DEF IsRequest, Awaited
    <3> QED BY <1>3, <3>1, <3>2
  <2>3. \A q, r \in back' : q.from = r.from /\ q.sess = r.sess => q = r
    <3> SUFFICES ASSUME NEW q \in back', NEW r \in back', q.from = r.from, q.sess = r.sess
                 PROVE  q = r
      OBVIOUS
    <3>1. CASE q \in back /\ r \in back  BY <3>1 DEF ResponsesOK
    <3>2. ASSUME NEW m \in wire, Awaited(m), q.from = m.from, q.sess = m.sess,
                 q = ResponseTo(m, "error", 0)
          PROVE  q = r
      <4>1. r \notin back  BY <3>2 DEF Awaited
      <4>2. PICK n \in wire : r = ResponseTo(n, "error", 0) /\ r.from = n.from /\ r.sess = n.sess
        BY <1>3, <4>1
      <4> QED BY <3>2, <4>2 DEF ResponseTo
    <3>3. ASSUME NEW m \in wire, Awaited(m), r.from = m.from, r.sess = m.sess,
                 r = ResponseTo(m, "error", 0)
          PROVE  q = r
      <4>1. q \notin back  BY <3>3 DEF Awaited
      <4>2. PICK n \in wire : q = ResponseTo(n, "error", 0) /\ q.from = n.from /\ q.sess = n.sess
        BY <1>3, <4>1
      <4> QED BY <3>3, <4>2 DEF ResponseTo
    <3> QED BY <1>3, <3>1, <3>2, <3>3
  <2> QED BY <1>2, <2>1, <2>2, <2>3 DEF ResponsesOK
<1>7. Begun'  BY <1>2 DEF Begun, Untouched
<1>8. MadeInv'  BY <1>2 DEF MadeInv, HandshakesBounded
<1> QED BY <1>4, <1>5, <1>6, <1>7, <1>8

(* the steps of a call and of its fetch of the configuration *)
CallStep(c) ==
  \/ Begin(c) \/ NotConfigured(c) \/ ConfigAnswered(c) \/ ConfigRead(c) \/ ConfigCut(c)
  \/ Configured(c) \/ Run(c) \/ Resume(c)

LEMMA NextInv == Inv /\ [Next]_vars => Inv'
<1> SUFFICES ASSUME Inv, [Next]_vars PROVE Inv'  OBVIOUS
<1>1. ASSUME NEW c \in Caller, CallStep(c) PROVE Inv'
  BY <1>1, RunStep, ResumeStep, BeginStep, ConfigAnsweredStep, ConfigBodyStep, ConfiguredStep,
     NotConfiguredStep
     DEF CallStep
<1>2. ASSUME NEW r \in back,
             \/ HandshakeReturns(r) \/ Succeed(r) \/ Refused(r) \/ Broken(r)
             \/ TooOld(r) \/ LoseResponse(r)
      PROVE  Inv'
  BY <1>2, HandshakeReturnsStep, SucceedStep, RefusedStep, BrokenStep, TooOldStep, LoseResponseStep
<1>3. ASSUME NEW m \in wire,
             Serve(m) \/ Refuse(m) \/ \E code \in {"refused", "error"} : GiveUp(m, code)
      PROVE  Inv'
  BY <1>3, ServeStep, RefuseStep, GiveUpStep
<1>4. CASE UNCHANGED vars  BY <1>4, Stutter
<1> QED BY <1>1, <1>2, <1>3, <1>4, LogoutStep, RestartStep
   DEF Next, Microtask, Event, Fault, CallStep

LEMMA InvHolds == Spec => []Inv
<1> QED BY InitInv, NextInv, PTL DEF Spec

(* The types of the page's variables, of the calls, of the messages and of *)
(* the backend's sessions; a call in a session has one.                    *)
THEOREM TypesHold == Spec => []TypeOK
<1>1. Inv => TypeOK  BY Parts DEF Inv
<1> QED BY <1>1, InvHolds, PTL

(* No two requests on the wire of one session have one number, whatever    *)
(* logouts, faults and restarts happen: sendSeq is read and advanced in    *)
(* one task (secure-fetch.ts:111-121).                                     *)
THEOREM NoSeqReuseHolds == Spec => []NoSeqReuse
<1>1. Inv => NoSeqReuse  BY DEF Inv, SeqInv
<1> QED BY <1>1, InvHolds, PTL

(* A page makes no more handshakes than it has dropped sessions, and one   *)
(* (secure-fetch.ts:153-165).                                              *)
THEOREM HandshakesBoundedHolds == Spec => []HandshakesBounded
<1>1. Inv => HandshakesBounded  BY DEF Inv, MadeInv
<1> QED BY <1>1, InvHolds, PTL

-----------------------------------------------------------------------------
(* Without logouts and faults *)

NoFault == logouts + faults + restarts = 0

Chained(c) == call[c].pc \notin {"new", "config", "body"}

(* The chained calls in the order of their turns: each comes right after   *)
(* the one whose end it waits for, the last is the one requestQueue waits  *)
(* for, and no call has had its turn before one that is not settled.       *)
Turns(f) ==
  /\ \A c, d \in Caller : Chained(c) /\ Chained(d) /\ f[c] = f[d] => c = d
  /\ \A c \in Caller : Chained(c) =>
       \/ call[c].after = None /\ f[c] = 0
       \/ call[c].after \in Caller /\ Chained(call[c].after) /\ f[c] = f[call[c].after] + 1
  /\ \/ tail = None /\ \A c \in Caller : ~Chained(c)
     \/ tail \in Caller /\ Chained(tail) /\ \A c \in Caller : Chained(c) => f[c] <= f[tail]
  /\ \A c, d \in Caller :
       Chained(c) /\ Chained(d) /\ f[c] < f[d] /\ call[d].pc # "queued" => Settled(c)

Ordered == \E f \in [Caller -> Nat] : Turns(f)

(* The two ends of a session: at rest, or with one request under way that  *)
(* the backend has not read, or has read and answered.                     *)
Of(m, s) == m.from # None /\ m.sess = s

AtRest(s) ==
  /\ \A m \in wire : ~Of(m, s)
  /\ \A r \in back : ~Of(r, s)
  /\ sends[s] = expects[s] /\ recvs[s] = replies[s]

Asked(s) ==
  /\ \E m \in wire : /\ Of(m, s) /\ m.seq = expects[s] /\ call[m.from].pc = "request"
                   /\ \A n \in wire : Of(n, s) => n = m
  /\ \A r \in back : ~Of(r, s)
  /\ sends[s] = expects[s] + 1 /\ recvs[s] = replies[s]

Answered(s) ==
  /\ \A m \in wire : ~Of(m, s)
  /\ \E r \in back : /\ Of(r, s) /\ r.code = "ok" /\ r.seq = recvs[s]
                   /\ \A q \in back : Of(q, s) => q = r
  /\ sends[s] = expects[s] /\ replies[s] = recvs[s] + 1

Paced(s) == s \in live /\ (AtRest(s) \/ Asked(s) \/ Answered(s))
Fresh(s) == sends[s] = 0 /\ recvs[s] = 0 /\ expects[s] = 0 /\ replies[s] = 0

Calm ==
  /\ \A c \in Caller : body[c] # "failed"
  /\ \A s \in Session : promise[s] # "failed"
  /\ \A s \in Session : promise[s] = "ok" => Paced(s)
  /\ \A s \in Session : promise[s] # "ok" => Fresh(s)
  /\ session # NoSession => promise[session] = "ok"
  /\ handshake # NoSession => promise[handshake] = "pending"
  /\ \A r \in back : ~IsRequest(r) => r.code = "ok" /\ r.sess \in live
  /\ \A c \in Caller :
       /\ call[c].pc = "request" => promise[call[c].sess] = "ok"
       /\ call[c].pc # "failed"

TurnsInv == NoFault => Ordered /\ Calm

LEMMA OrderChain ==
  ASSUME Types, Ordered, NEW c \in Caller, ~Chained(c), Chain(c)
  PROVE  Ordered'
<1>1. /\ tail' = c /\ Others(c) /\ call'[c].pc = "queued" /\ call'[c].after = tail
  BY ChainCall DEF Types
<1>2. tail \in Caller \cup {None} /\ None \notin Caller  BY Bounds DEF Types, PageOK
<1>3. PICK f \in [Caller -> Nat] : Turns(f)  BY DEF Ordered
<1>4. PICK n \in Nat : n = IF tail = None THEN 0 ELSE f[tail] + 1  BY <1>2, <1>3
<1>5. PICK g \in [Caller -> Nat] : g[c] = n /\ \A d \in Caller : d # c => g[d] = f[d]
  <2> WITNESS [f EXCEPT ![c] = n] \in [Caller -> Nat]
  <2> QED BY <1>3
<1>6. \A d \in Caller : Chained(d) => f[d] < n  BY <1>2, <1>3, <1>4 DEF Turns
<1>7. tail # None => tail \in Caller /\ tail # c /\ Chained(tail) /\ n = f[tail] + 1
  BY <1>2, <1>3, <1>4 DEF Turns
<1>8. tail = None => n = 0  BY <1>4
<1>9. Chained(c)' /\ ~Settled(c)' /\ \A d \in Caller : d # c =>
        /\ Chained(d)' <=> Chained(d)
        /\ Settled(d)' <=> Settled(d)
        /\ call'[d] = call[d]
  BY <1>1 DEF Chained, Settled, Others
<1>10. \A d \in Caller : Chained(d) => call[d].after = None \/ (call[d].after \in Caller /\ Chained(call[d].after))
  BY <1>3 DEF Turns
<1>11. Turns(g)'
  <2>1. \A d, e \in Caller : Chained(d)' /\ Chained(e)' /\ g[d] = g[e] => d = e
    BY <1>3, <1>4, <1>5, <1>6, <1>9 DEF Turns
  <2>2. \A d \in Caller : Chained(d)' =>
       \/ call'[d].after = None /\ g[d] = 0
       \/ call'[d].after \in Caller /\ Chained(call[d].after)' /\ g[d] = g[call'[d].after] + 1
    <3> SUFFICES ASSUME NEW d \in Caller, Chained(d)'
                 PROVE  \/ call'[d].after = None /\ g[d] = 0
                        \/ call'[d].after \in Caller /\ Chained(call[d].after)' /\ g[d] = g[call'[d].after] + 1
      OBVIOUS
    <3>1. CASE d = c  BY <3>1, <1>1, <1>2, <1>5, <1>7, <1>8, <1>9
    <3>2. CASE d # c  BY <3>2, <1>3, <1>5, <1>9, <1>10 DEF Turns
    <3> QED BY <3>1, <3>2
  <2>3. tail' \in Caller /\ Chained(tail)' /\ \A d \in Caller : Chained(d)' => g[d] <= g[tail']
    BY <1>1, <1>3, <1>4, <1>5, <1>6, <1>9
  <2>4. \A d, e \in Caller :
       Chained(d)' /\ Chained(e)' /\ g[d] < g[e] /\ call'[e].pc # "queued" => Settled(d)'
    BY <1>1, <1>3, <1>4, <1>5, <1>6, <1>9 DEF Turns
  <2> QED BY <2>1, <2>2, <2>3, <2>4 DEF Turns
<1> QED BY <1>11 DEF Ordered

LEMMA OrderSame ==
  ASSUME Ordered, UNCHANGED <<call, tail>>
  PROVE  Ordered'
  BY DEF Ordered, Turns, Chained, Settled

LEMMA OrderMove ==
  ASSUME Types, Ordered, NEW c \in Caller, Others(c), tail' = tail,
         Chained(c) => call'[c].after = call[c].after, Chained(c)' <=> Chained(c),
         ~Settled(c),
         \/ ~Chained(c)
         \/ call[c].pc \in InSession
         \/ MayRun(c)
  PROVE  Ordered'
<1>1. PICK f \in [Caller -> Nat] : Turns(f)  BY DEF Ordered
<1>2. \A d \in Caller : d # c => call'[d] = call[d] /\ (Chained(d)' <=> Chained(d)) /\ (Settled(d)' <=> Settled(d))
  BY DEF Others, Chained, Settled
<1>3. \A d \in Caller : (Chained(d) => call'[d].after = call[d].after) /\ (Chained(d)' <=> Chained(d))
  BY <1>2
<1>4. \A d, e \in Caller : Chained(d)' /\ Chained(e)' /\ f[d] = f[e] => d = e
  BY <1>1, <1>3 DEF Turns
<1>5. \A d \in Caller : Chained(d)' =>
       \/ call'[d].after = None /\ f[d] = 0
       \/ call'[d].after \in Caller /\ Chained(call[d].after)' /\ f[d] = f[call'[d].after] + 1
  BY <1>1, <1>3 DEF Turns
<1>6. \/ tail' = None /\ \A d \in Caller : ~Chained(d)'
      \/ tail' \in Caller /\ Chained(tail)' /\ \A d \in Caller : Chained(d)' => f[d] <= f[tail']
  BY <1>1, <1>3 DEF Turns
<1>7. \A d \in Caller : MayRun(c) /\ Chained(c) /\ Chained(d) /\ f[d] < f[c] => Settled(d)
  <2> SUFFICES ASSUME NEW d \in Caller, MayRun(c), Chained(c), Chained(d), f[d] < f[c]
               PROVE  Settled(d)
    OBVIOUS
  <2> DEFINE p == call[c].after
  <2>1. p \in Caller /\ Chained(p) /\ f[c] = f[p] + 1  BY <1>1 DEF Turns
  <2>2. Settled(p) /\ call[p].pc # "queued"  BY <2>1 DEF MayRun, Settled
  <2>3. f[d] < f[p] \/ f[d] = f[p]  BY <1>1, <2>1
  <2> QED BY <1>1, <2>1, <2>2, <2>3 DEF Turns
<1>8. \A d, e \in Caller :
       Chained(d)' /\ Chained(e)' /\ f[d] < f[e] /\ call'[e].pc # "queued" => Settled(d)'
  <2> SUFFICES ASSUME NEW d \in Caller, NEW e \in Caller, Chained(d), Chained(e),
                      f[d] < f[e], call'[e].pc # "queued"
               PROVE  Settled(d)'
    BY <1>3
  <2>1. d # e  BY <1>1
  <2>2. CASE e = c
    <3>1. Settled(d)
      <4>1. CASE MayRun(c)  BY <1>7, <2>2, <4>1
      <4>2. CASE call[c].pc \in InSession  BY <1>1, <2>2, <4>2 DEF Turns, InSession
      <4> QED BY <2>2, <4>1, <4>2
    <3> QED BY <1>2, <2>1, <2>2, <3>1
  <2>3. CASE e # c
    <3>1. Settled(d)  BY <1>1, <1>2, <2>3 DEF Turns
    <3> QED BY <1>2, <3>1
  <2> QED BY <2>2, <2>3
<1> QED BY <1>4, <1>5, <1>6, <1>8 DEF Ordered, Turns

(* One call at a time has had its turn and is not settled. *)
LEMMA Alone ==
  ASSUME Types, Ordered, NEW c \in Caller, MayRun(c) \/ call[c].pc \in InSession,
         NEW d \in Caller, call[d].pc \in InSession
  PROVE  d = c
<1>1. PICK f \in [Caller -> Nat] : Turns(f)  BY DEF Ordered
<1>2. Chained(c) /\ Chained(d) /\ ~Settled(c) /\ ~Settled(d) /\ call[d].pc # "queued"
  BY DEF Chained, Settled, MayRun, InSession
<1>3. ~(f[c] < f[d])  BY <1>1, <1>2 DEF Turns
<1>4. ~(f[d] < f[c])
  <2>1. CASE call[c].pc \in InSession  BY <1>1, <1>2, <2>1 DEF Turns, InSession
  <2>2. CASE MayRun(c) /\ f[d] < f[c]
    <3> DEFINE p == call[c].after
    <3>1. p \in Caller /\ Chained(p) /\ f[c] = f[p] + 1  BY <1>1, <1>2, <2>2 DEF Turns
    <3>2. Settled(p) /\ call[p].pc # "queued"  BY <2>2, <3>1 DEF MayRun, Settled
    <3>3. f[d] < f[p] \/ f[d] = f[p]  BY <1>1, <2>2, <3>1
    <3> QED BY <1>1, <1>2, <3>1, <3>2, <3>3 DEF Turns
  <2> QED BY <2>1, <2>2
<1>5. f[c] = f[d]
  <2>1. f[c] \in Nat /\ f[d] \in Nat  BY <1>1
  <2> QED BY <1>3, <1>4, <2>1
<1> QED BY <1>1, <1>2, <1>5 DEF Turns

LEMMA PacedFrame ==
  ASSUME NEW s, Paced(s), s \in live',
         \A m \in wire \cup wire' : Of(m, s) => m \in wire /\ m \in wire',
         \A r \in back \cup back' : Of(r, s) => r \in back /\ r \in back',
         sends'[s] = sends[s], recvs'[s] = recvs[s],
         expects'[s] = expects[s], replies'[s] = replies[s],
         \A m \in wire : Of(m, s) /\ call[m.from].pc = "request" => call'[m.from].pc = "request"
  PROVE  Paced(s)'
<1>1. AtRest(s) => AtRest(s)'  BY DEF AtRest, Of
<1>2. Asked(s) => Asked(s)'  BY DEF Asked, Of
<1>3. Answered(s) => Answered(s)'  BY DEF Answered, Of
<1> QED BY <1>1, <1>2, <1>3 DEF Paced

LEMMA CalmCall ==
  ASSUME Inv, Calm, NEW c \in Caller, Others(c),
         call[c].pc # "request", call'[c].pc \notin {"request", "failed"},
         \A d \in Caller : body'[d] # "failed",
         UNCHANGED <<session, handshake, promise, numbers, wire, back, backend>>
  PROVE  Calm'
<1> USE DEF numbers, backend
<1>1. wire \subseteq Message  BY DEF Inv, Types, MessagesOK
<1>2. \A m \in wire : m.from # None /\ call[m.from].pc = "request" => call'[m.from].pc = "request"
  BY <1>1 DEF Message, Others
<1>3. \A s \in Session : Paced(s) => Paced(s)'
  <2> SUFFICES ASSUME NEW s \in Session, Paced(s) PROVE Paced(s)'  OBVIOUS
  <2>1. s \in live' /\ \A m \in wire : Of(m, s) /\ call[m.from].pc = "request" => call'[m.from].pc = "request"
    BY <1>2 DEF Paced, Of
  <2> QED BY <2>1, PacedFrame
<1>4. \A d \in Caller : /\ call'[d].pc = "request" => promise[call'[d].sess] = "ok"
                       /\ call'[d].pc # "failed"
  BY DEF Calm, Others
<1>5. \A s \in Session : Fresh(s)' <=> Fresh(s)  BY DEF Fresh
<1> QED BY <1>3, <1>4, <1>5 DEF Calm

LEMMA BeganCall ==
  ASSUME Inv, NEW c \in Caller, Begin(c) \/ ConfigAnswered(c)
  PROVE  Others(c) /\ call'[c].pc \in {"config", "body"}
<1>1. CASE Settle(c, "config")  BY <1>1, SettleCall DEF Inv, Types
<1>2. ASSUME NEW d \in Caller, call' = [call EXCEPT ![c].pc = "body", ![c].after = d]
      PROVE  Others(c) /\ call'[c].pc \in {"config", "body"}
  BY <1>2, AwaitConfig DEF Inv, Types
<1> QED BY <1>1, <1>2 DEF Begin, ConfigAnswered, Inv, Types, PageOK

LEMMA TurnsBegin ==
  ASSUME Inv, Ordered, Calm, NEW c \in Caller, Begin(c) \/ ConfigAnswered(c)
  PROVE  Ordered' /\ Calm'
<1>1. UNCHANGED <<session, handshake, promise, numbers, wire, back, backend>> /\ tail' = tail
      /\ call[c].pc \in {"new", "config"}
  BY DEF Begin, ConfigAnswered, page
<1>2. \A d \in Caller : body'[d] # "failed"
  BY DEF Begin, ConfigAnswered, page, Calm, Inv, Types, PageOK
<1>3. Others(c) /\ call'[c].pc \in {"config", "body"}  BY BeganCall
<1>4. Ordered'  BY <1>1, <1>3, OrderMove DEF Inv, Chained, Settled
<1>5. Calm'  BY <1>1, <1>2, <1>3, CalmCall
<1> QED BY <1>4, <1>5

LEMMA TurnsConfigured ==
  ASSUME Inv, Ordered, Calm, NEW c \in Caller, Configured(c)
  PROVE  Ordered' /\ Calm'
<1>1. UNCHANGED <<session, handshake, body, promise, numbers, wire, back, backend>>
      /\ call[c].pc = "body"
  BY DEF Configured, MayChain
<1>2. Chain(c)  BY <1>1 DEF Configured, Calm, Inv, Types, CallsOK
<1>3. Others(c) /\ call'[c].pc = "queued"  BY <1>2, ChainCall DEF Inv, Types
<1>4. Ordered'  BY <1>1, <1>2, OrderChain DEF Inv, Chained
<1>5. Calm'  BY <1>1, <1>3, CalmCall DEF Calm
<1> QED BY <1>4, <1>5

LEMMA TurnsConfigRead ==
  ASSUME Inv, Ordered, Calm, NEW c \in Caller, ConfigRead(c)
  PROVE  Ordered' /\ Calm'
<1>1. UNCHANGED <<session, handshake, tail, call, promise, numbers, wire, back, backend>>
  BY DEF ConfigRead
<1>2. \A d \in Caller : body'[d] # "failed"  BY DEF ConfigRead, Calm, Inv, Types, PageOK
<1> USE DEF numbers, backend
<1>3. Ordered'  BY <1>1, OrderSame
<1>4. \A s : Paced(s)' <=> Paced(s)  BY <1>1 DEF Paced, AtRest, Asked, Answered
<1>5. \A s : Fresh(s)' <=> Fresh(s)  BY <1>1 DEF Fresh
<1>6. Calm'  BY <1>1, <1>2, <1>4, <1>5 DEF Calm
<1> QED BY <1>3, <1>6

(* A call whose turn it is finds its session at rest. *)
LEMMA RestBeforeSend ==
  ASSUME Inv, Ordered, Calm, NEW c \in Caller, MayRun(c) \/ call[c].pc = "handshake",
         NEW s \in Session, promise[s] = "ok"
  PROVE  s \in live /\ AtRest(s)
<1>1. \A d \in Caller : call[d].pc # "request"
  BY Alone DEF Inv, InSession, MayRun
<1>2. Paced(s)  BY DEF Calm
<1>3. ~Asked(s)
  <2>1. \A m \in wire : Of(m, s) => m.from \in Caller
    BY DEF Inv, Types, MessagesOK, Message, Of
  <2> QED BY <1>1, <2>1 DEF Asked
<1>4. ~Answered(s)
  <2>1. \A r \in back : Of(r, s) => r.from \in Caller /\ call[r.from].pc = "request"
    BY DEF Inv, Types, MessagesOK, Response, Of, ResponsesOK, IsRequest
  <2> QED BY <1>1, <2>1 DEF Answered
<1> QED BY <1>2, <1>3, <1>4 DEF Paced

LEMMA TurnsSend ==
  ASSUME Inv, Ordered, Calm, NEW c \in Caller, MayRun(c) \/ call[c].pc = "handshake",
         NEW s \in Session, promise[s] = "ok", SendRequest(c, s),
         UNCHANGED <<page, promise, recvs, back, backend>>
  PROVE  Ordered' /\ Calm'
<1> USE DEF page, backend
<1>1. /\ Others(c) /\ call'[c].pc = "request" /\ call'[c].sess = s
      /\ call'[c].after = call[c].after
  <2>1. call' = [call EXCEPT ![c] = Joined(call[c], "request", s)]
    BY SendCall DEF Inv, Types
  <2> QED BY <2>1, JoinCall DEF InSession, Inv, Types
<1>2. Ordered'
  BY <1>1, OrderMove DEF Inv, Chained, Settled, MayRun, InSession
<1>3. s \in live /\ AtRest(s)  BY RestBeforeSend
<1>4. /\ wire \subseteq Message /\ c # None
      /\ sends \in [Session -> Nat] /\ \A t \in Session : expects[t] \in Nat
  BY Bounds DEF Inv, Types, MessagesOK, NumbersOK
<1>5. PICK m : m = [from |-> c, sess |-> s, seq |-> sends[s]]  OBVIOUS
<1>6. /\ wire' = wire \cup {m} /\ Of(m, s) /\ m.from = c /\ m.sess = s /\ m.seq = sends[s]
      /\ sends'[s] = sends[s] + 1
      /\ \A t \in Session : t # s => sends'[t] = sends[t]
  BY <1>4, <1>5 DEF SendRequest, Of
<1>7. Asked(s)'
  <2>1. \A n \in wire' : Of(n, s) => n = m  BY <1>3, <1>6 DEF AtRest
  <2>2. Of(m, s) /\ m.seq = expects[s] /\ call'[m.from].pc = "request" /\ m \in wire'
    BY <1>1, <1>3, <1>6 DEF AtRest
  <2>3. (\A r \in back : ~Of(r, s)) /\ sends'[s] = expects[s] + 1 /\ recvs[s] = replies[s]
    BY <1>3, <1>6 DEF AtRest
  <2> QED BY <2>1, <2>2, <2>3 DEF Asked, Of
<1>8. \A t \in Session \ {s} : Paced(t) => Paced(t)'
  <2> SUFFICES ASSUME NEW t \in Session \ {s}, Paced(t) PROVE Paced(t)'  OBVIOUS
  <2>1. \A n \in wire \cup wire' : Of(n, t) => n \in wire /\ n \in wire'
    BY <1>6 DEF Of
  <2>2. \A n \in wire : Of(n, t) /\ call[n.from].pc = "request" => call'[n.from].pc = "request"
    BY <1>1, <1>4 DEF Of, Message, Others
  <2>3. t \in live' /\ sends'[t] = sends[t]  BY <1>6 DEF Paced
  <2> QED BY <2>1, <2>2, <2>3, PacedFrame
<1>9. \A t \in Session : promise[t] = "ok" => Paced(t)'
  BY <1>3, <1>7, <1>8 DEF Calm, Paced
<1>10. \A t \in Session : promise[t] # "ok" => Fresh(t)'
  BY <1>6 DEF Calm, Fresh
<1>11. \A d \in Caller : /\ call'[d].pc = "request" => promise[call'[d].sess] = "ok"
                        /\ call'[d].pc # "failed"
  BY <1>1 DEF Calm, Others
<1>12. Calm'  BY <1>9, <1>10, <1>11 DEF Calm
<1> QED BY <1>2, <1>12

LEMMA TurnsRun ==
  ASSUME Inv, Ordered, Calm, NEW c \in Caller, Run(c)
  PROVE  Ordered' /\ Calm'
<1>1. MayRun(c) /\ call[c].pc = "queued"  BY DEF Run, MayRun
<1>2. UNCHANGED <<session, tail, body, recvs, back, backend>>  BY DEF Run
<1>3. CASE session # NoSession /\ SendRequest(c, session) /\ UNCHANGED <<made, promise, handshake>>
  <2>1. session \in Session /\ promise[session] = "ok"
    BY <1>3 DEF Inv, Types, PageOK, Calm
  <2>2. UNCHANGED <<page, promise, recvs, back, backend>>  BY <1>3 DEF Run, page
  <2> QED BY <1>1, <1>3, <2>1, <2>2, TurnsSend
<1>4. CASE session = NoSession /\ AwaitHandshake(c) /\ UNCHANGED sends
  <2>1. ASSUME NEW s \in Session,
               call' = [call EXCEPT ![c].pc = "handshake", ![c].sess = s]
        PROVE  Others(c) /\ call'[c].pc = "handshake" /\ Ordered'
    <3>1. call' = [call EXCEPT ![c] = Joined(call[c], "handshake", s)]
      BY <2>1 DEF Inv, Types, CallsOK, CallState, Joined
    <3>2. Others(c) /\ call'[c].pc = "handshake" /\ call'[c].after = call[c].after
      BY <3>1, JoinCall DEF InSession, Inv, Types
    <3> QED BY <1>1, <1>2, <3>2, OrderMove DEF Inv, Chained, Settled
  <2>2. CASE handshake # NoSession /\ UNCHANGED <<made, promise, handshake, wire>>
                /\ call' = [call EXCEPT ![c].pc = "handshake", ![c].sess = handshake]
    <3>1. handshake \in Session  BY <2>2 DEF Inv, Types, PageOK
    <3>2. Others(c) /\ call'[c].pc = "handshake" /\ Ordered'  BY <2>1, <2>2, <3>1
    <3>3. Calm'  BY <1>1, <1>2, <1>4, <2>2, <3>2, CalmCall DEF numbers, Calm
    <3> QED BY <3>2, <3>3
  <2>3. CASE /\ made < MaxSession
             /\ promise' = [promise EXCEPT ![made + 1] = "pending"]
             /\ handshake' = made + 1
             /\ wire' = wire \cup {[from |-> None, sess |-> made + 1, seq |-> 0]}
             /\ call' = [call EXCEPT ![c].pc = "handshake", ![c].sess = made + 1]
    <3>1. PICK s \in Session : s = made + 1
      BY <2>3, Bounds DEF Inv, Types, HistoryOK, Session
    <3>2. Others(c) /\ call'[c].pc = "handshake" /\ Ordered'  BY <2>1, <2>3, <3>1
    <3>3. /\ promise[s] = "none" /\ promise'[s] = "pending" /\ handshake' = s
          /\ \A t \in Session : t # s => promise'[t] = promise[t]
      BY <2>3, <3>1, Bounds DEF Inv, Types, NumbersOK, Begun, Untouched, HistoryOK
    <3>4. \A m \in wire : m.from \in Caller \cup {None}
      BY DEF Inv, Types, MessagesOK, Message
    <3>5. \A t \in Session : Paced(t) => Paced(t)'
      <4> SUFFICES ASSUME NEW t \in Session, Paced(t) PROVE Paced(t)'  OBVIOUS
      <4>1. \A m \in wire \cup wire' : Of(m, t) => m \in wire /\ m \in wire'
        BY <2>3 DEF Of
      <4>2. \A m \in wire : Of(m, t) /\ call[m.from].pc = "request" => call'[m.from].pc = "request"
        BY <1>1, <3>2, <3>4 DEF Of, Others
      <4>3. t \in live'  BY <1>2 DEF Paced, backend
      <4> QED BY <1>2, <1>4, <4>1, <4>2, <4>3, PacedFrame DEF backend
    <3>6. \A t \in Session : Fresh(t)' <=> Fresh(t)  BY <1>2, <1>4 DEF Fresh, backend
    <3>7. \A d \in Caller : /\ call'[d].pc = "request" => promise'[call'[d].sess] = "ok"
                           /\ call'[d].pc # "failed"
      <4> SUFFICES ASSUME NEW d \in Caller
                   PROVE  /\ call'[d].pc = "request" => promise'[call'[d].sess] = "ok"
                          /\ call'[d].pc # "failed"
        OBVIOUS
      <4>1. CASE d = c  BY <3>2, <4>1
      <4>2. CASE d # c
        <5>1. call'[d] = call[d]  BY <3>2, <4>2 DEF Others
        <5>2. call[d].pc = "request" => call[d].sess \in Session /\ promise[call[d].sess] = "ok"
          BY DEF Inv, Types, CallsOK, InSession, Calm
        <5> QED BY <3>3, <5>1, <5>2 DEF Calm
      <4> QED BY <4>1, <4>2
    <3>8. UNCHANGED <<session, body, back, live>>  BY <1>2 DEF backend
    <3>9. session = NoSession  BY <1>4
    <3>10. Calm'
      BY <3>1, <3>3, <3>5, <3>6, <3>7, <3>8, <3>9 DEF Calm
    <3> QED BY <3>2, <3>10
  <2> QED BY <1>4, <2>2, <2>3 DEF AwaitHandshake
<1> QED BY <1>3, <1>4 DEF Run

LEMMA TurnsResume ==
  ASSUME Inv, Ordered, Calm, NEW c \in Caller, Resume(c)
  PROVE  Ordered' /\ Calm'
<1>1. call[c].pc = "handshake" /\ call[c].sess \in Session
  BY DEF Resume, MayResume, Inv, Types, CallsOK, InSession
<1>2. UNCHANGED <<page, promise, recvs, back, backend>>  BY DEF Resume
<1>3. promise[call[c].sess] = "ok" /\ SendRequest(c, call[c].sess)
  BY <1>1 DEF Resume, Calm
<1> QED BY <1>1, <1>2, <1>3, TurnsSend

LEMMA TurnsHandshake ==
  ASSUME Inv, Ordered, Calm, NEW r \in back, HandshakeReturns(r)
  PROVE  Ordered' /\ Calm'
<1>1. ~IsRequest(r) /\ r.code = "ok" /\ r.sess \in live /\ r.sess \in Session
  BY DEF HandshakeReturns, IsRequest, Calm, Inv, Types, MessagesOK, Response
<1>2. /\ promise' = [promise EXCEPT ![r.sess] = "ok"]
      /\ session' = r.sess /\ handshake' = NoSession
      /\ back' = back \ {r}
      /\ UNCHANGED <<tail, body, call, numbers, wire, backend>>
  BY <1>1 DEF HandshakeReturns, Arrives
<1> USE DEF numbers, backend
<1>3. promise[r.sess] = "pending"  BY <1>1 DEF Inv, ResponsesOK
<1>4. promise'[r.sess] = "ok" /\ \A s \in Session : s # r.sess => promise'[s] = promise[s]
  BY <1>1, <1>2 DEF Inv, Types, NumbersOK
<1>5. AtRest(r.sess)
  <2>1. Fresh(r.sess)  BY <1>1, <1>3 DEF Calm
  <2>2. \A m \in wire : ~Of(m, r.sess)
    <3> SUFFICES ASSUME NEW m \in wire, Of(m, r.sess) PROVE FALSE  OBVIOUS
    <3>1. m.seq \in Nat /\ m.seq < sends[m.sess] /\ m.sess = r.sess
      BY DEF Inv, Types, MessagesOK, Message, SeqInv, Of, IsRequest
    <3> QED BY <2>1, <3>1 DEF Fresh
  <2>3. \A q \in back : ~Of(q, r.sess)
    <3> SUFFICES ASSUME NEW q \in back, Of(q, r.sess) PROVE FALSE  OBVIOUS
    <3>1. q.from \in Caller /\ call[q.from].pc = "request" /\ call[q.from].sess = r.sess
      BY DEF Inv, Types, MessagesOK, Response, ResponsesOK, Of, IsRequest
    <3> QED BY <1>3, <3>1 DEF Calm
  <2> QED BY <2>1, <2>2, <2>3 DEF AtRest, Fresh
<1>6. Paced(r.sess)'
  BY <1>1, <1>2, <1>5 DEF AtRest, Paced
<1>7. \A s \in Session : Paced(s) => Paced(s)'
  <2> SUFFICES ASSUME NEW s \in Session, Paced(s) PROVE Paced(s)'  OBVIOUS
  <2>1. \A q \in back \cup back' : Of(q, s) => q \in back /\ q \in back'
    BY <1>1, <1>2 DEF Of, IsRequest
  <2>2. s \in live'  BY <1>2 DEF Paced
  <2> QED BY <1>2, <2>1, <2>2, PacedFrame
<1>8. \A s \in Session : Fresh(s)' <=> Fresh(s)  BY <1>2 DEF Fresh
<1>9. \A c \in Caller : /\ call[c].pc = "request" => promise'[call[c].sess] = "ok"
                       /\ call[c].pc # "failed"
  <2>1. \A c \in Caller : call[c].pc = "request" => call[c].sess \in Session /\ promise[call[c].sess] = "ok"
    BY DEF Inv, Types, CallsOK, InSession, Calm
  <2> QED BY <1>4, <2>1 DEF Calm
<1>10. Calm'
  <2>1. \A s \in Session : promise'[s] # "failed"  BY <1>4 DEF Calm
  <2>2. \A s \in Session : promise'[s] = "ok" => Paced(s)'  BY <1>4, <1>6, <1>7 DEF Calm
  <2>3. \A s \in Session : promise'[s] # "ok" => Fresh(s)'  BY <1>4, <1>8 DEF Calm
  <2>4. \A q \in back' : ~IsRequest(q) => q.code = "ok" /\ q.sess \in live'
    BY <1>2 DEF Calm
  <2> QED BY <1>2, <1>4, <1>9, <2>1, <2>2, <2>3, <2>4 DEF Calm
<1>11. Ordered'  BY <1>2, OrderSame
<1> QED BY <1>10, <1>11

(* What a call that waits for an answer finds: the answer, in step *)
LEMMA AnswerInStep ==
  ASSUME Inv, Calm, NEW r \in back, IsRequest(r)
  PROVE  /\ r.from \in Caller /\ r.sess \in Session
         /\ call[r.from].pc = "request" /\ call[r.from].sess = r.sess
         /\ promise[r.sess] = "ok" /\ Paced(r.sess) /\ Answered(r.sess)
         /\ r.code = "ok" /\ r.seq = recvs[r.sess]
<1>1. /\ r.from \in Caller /\ r.sess \in Session
      /\ call[r.from].pc = "request" /\ call[r.from].sess = r.sess
  BY DEF Inv, Types, MessagesOK, Response, ResponsesOK, IsRequest
<1>2. promise[r.sess] = "ok" /\ Paced(r.sess)  BY <1>1 DEF Calm
<1>3. Of(r, r.sess)  BY DEF Of, IsRequest
<1>4. Answered(r.sess)  BY <1>2, <1>3 DEF Paced, AtRest, Asked
<1> QED BY <1>1, <1>2, <1>3, <1>4 DEF Answered

LEMMA TurnsSucceed ==
  ASSUME Inv, Ordered, Calm, NEW r \in back, Succeed(r)
  PROVE  Ordered' /\ Calm'
<1> DEFINE c == r.from
           s == r.sess
<1>1. IsRequest(r) /\ back' = back \ {r} /\ Settle(c, "ok")
      /\ recvs' = [recvs EXCEPT ![s] = @ + 1]
      /\ UNCHANGED <<page, promise, sends, wire, backend>>
  BY DEF Succeed, Arrives, IsRequest
<1> USE DEF page, backend
<1>2. /\ c \in Caller /\ s \in Session
      /\ call[c].pc = "request" /\ call[c].sess = s
      /\ promise[s] = "ok" /\ Answered(s) /\ s \in live
  BY <1>1, AnswerInStep DEF Paced
<1>3. Others(c) /\ call'[c].pc = "ok" /\ call'[c].after = call[c].after
  BY <1>1, <1>2, SettleCall DEF Inv, Types, PC, InSession
<1>4. recvs'[s] = recvs[s] + 1 /\ \A t \in Session : t # s => recvs'[t] = recvs[t]
  BY <1>1, <1>2 DEF Inv, Types, NumbersOK
<1>5. Of(r, s) /\ r.from = c /\ r.sess = s  BY <1>1 DEF Of, IsRequest
<1> HIDE DEF c, s
<1>6. Ordered'  BY <1>1, <1>2, <1>3, OrderMove DEF Inv, Chained, Settled, InSession
<1>7. AtRest(s)'
  <2>1. \A q \in back' : ~Of(q, s)  BY <1>1, <1>2, <1>5 DEF Answered
  <2> QED BY <1>1, <1>2, <1>4, <2>1 DEF Answered, AtRest, Of
<1>8. \A t \in Session \ {s} : Paced(t) => Paced(t)'
  <2> SUFFICES ASSUME NEW t \in Session \ {s}, Paced(t) PROVE Paced(t)'  OBVIOUS
  <2>1. \A q \in back \cup back' : Of(q, t) => q \in back /\ q \in back'
    BY <1>1, <1>5 DEF Of
  <2>2. \A m \in wire : Of(m, t) /\ call[m.from].pc = "request" => call'[m.from].pc = "request"
    <3> SUFFICES ASSUME NEW m \in wire, Of(m, t), call[m.from].pc = "request"
                 PROVE  call'[m.from].pc = "request"
      OBVIOUS
    <3>1. m.from \in Caller /\ call[m.from].sess = t
      BY DEF Inv, Types, MessagesOK, Message, RequestsOK, Of, IsRequest
    <3>2. m.from # c  BY <1>2, <3>1
    <3> QED BY <1>3, <3>1, <3>2 DEF Others
  <2>3. t \in live' /\ recvs'[t] = recvs[t]  BY <1>1, <1>4 DEF Paced
  <2> QED BY <1>1, <2>1, <2>2, <2>3, PacedFrame
<1>9. Calm'
  <2>1. \A t \in Session : promise'[t] = "ok" => Paced(t)'
    BY <1>1, <1>2, <1>7, <1>8 DEF Calm, Paced
  <2>2. \A t \in Session : promise'[t] # "ok" => Fresh(t)'
    BY <1>1, <1>2, <1>4 DEF Calm, Fresh
  <2>3. \A d \in Caller : /\ call'[d].pc = "request" => promise'[call'[d].sess] = "ok"
                         /\ call'[d].pc # "failed"
    BY <1>1, <1>3 DEF Calm, Others
  <2>4. \A q \in back' : ~IsRequest(q) => q.code = "ok" /\ q.sess \in live'
    BY <1>1 DEF Calm
  <2> QED BY <1>1, <2>1, <2>2, <2>3, <2>4 DEF Calm
<1> QED BY <1>6, <1>9

LEMMA NoneFails ==
  ASSUME Inv, Calm, NEW r \in back
  PROVE  ~Refused(r) /\ ~Broken(r)
<1>1. CASE IsRequest(r)
  <2>1. r.code = "ok" /\ r.seq = recvs[r.sess]  BY <1>1, AnswerInStep
  <2> QED BY <2>1 DEF Refused, Broken
<1>2. CASE ~IsRequest(r)  BY <1>2 DEF Refused, Broken, IsRequest
<1> QED BY <1>1, <1>2

(* What the backend finds when it reads a request *)
LEMMA RequestInStep ==
  ASSUME Inv, Calm, NEW m \in wire, IsRequest(m)
  PROVE  /\ m.sess \in Session /\ promise[m.sess] = "ok"
         /\ Asked(m.sess) /\ InStep(m) /\ Awaited(m)
         /\ \A n \in wire : Of(n, m.sess) => n = m
<1>1. m.sess \in Session /\ m.seq \in Nat /\ m.seq < sends[m.sess] /\ Of(m, m.sess)
  BY DEF Inv, Types, MessagesOK, Message, SeqInv, IsRequest, Of
<1>2. promise[m.sess] = "ok"  BY <1>1 DEF Calm, Fresh
<1>3. Paced(m.sess)  BY <1>1, <1>2 DEF Calm
<1>4. Asked(m.sess)  BY <1>1, <1>3 DEF Paced, AtRest, Answered
<1>5. m.seq = expects[m.sess] /\ call[m.from].pc = "request"
      /\ \A n \in wire : Of(n, m.sess) => n = m
  BY <1>1, <1>4 DEF Asked
<1>6. InStep(m)  BY <1>3, <1>5 DEF InStep, Paced, IsRequest
<1>7. Awaited(m)
  <2>1. \A r \in back : ~(r.from = m.from /\ r.sess = m.sess)
    BY <1>4 DEF Asked, Of, IsRequest
  <2>2. \A r \in back : <<r.from, r.sess>> # <<m.from, m.sess>>  BY <2>1
  <2> QED BY <1>5, <2>2 DEF Awaited, IsRequest
<1> QED BY <1>1, <1>2, <1>4, <1>5, <1>6, <1>7

LEMMA TurnsServe ==
  ASSUME Inv, Ordered, Calm, NEW m \in wire, Serve(m)
  PROVE  Ordered' /\ Calm'
<1> USE DEF numbers, backend
<1>1. m \in Message /\ m.sess \in Session  BY DEF Inv, Types, MessagesOK, Message
<1>2. CASE ServeStart(m)
  <2> DEFINE r == ResponseTo(m, "ok", 0)
  <2>1. ~IsRequest(r) /\ r.code = "ok" /\ r.sess = m.sess
    BY <1>1, <1>2, ResponseFields DEF ServeStart, IsRequest
  <2>2. /\ wire' = wire \ {m} /\ ~IsRequest(m)
        /\ back' = back \/ back' = back \cup {r}
        /\ live' = live \cup {m.sess}
        /\ UNCHANGED <<page, call, promise, numbers, expects, replies>>
    BY <1>2 DEF ServeStart, Respond, IsRequest
  <2> HIDE DEF r
  <2>3. \A s \in Session : Paced(s) => Paced(s)'
    <3> SUFFICES ASSUME NEW s \in Session, Paced(s) PROVE Paced(s)'  OBVIOUS
    <3>1. \A n \in wire \cup wire' : Of(n, s) => n \in wire /\ n \in wire'
      BY <2>2 DEF Of, IsRequest
    <3>2. \A q \in back \cup back' : Of(q, s) => q \in back /\ q \in back'
      BY <2>1, <2>2 DEF Of, IsRequest
    <3>3. s \in live'  BY <2>2 DEF Paced
    <3> QED BY <2>2, <3>1, <3>2, <3>3, PacedFrame
  <2>4. \A s \in Session : Fresh(s)' <=> Fresh(s)  BY <2>2 DEF Fresh
  <2>5. \A q \in back' : ~IsRequest(q) => q.code = "ok" /\ q.sess \in live'
    BY <2>1, <2>2 DEF Calm
  <2>6. Calm'  BY <2>2, <2>3, <2>4, <2>5 DEF Calm, page
  <2>7. Ordered'  BY <2>2, OrderSame DEF page
  <2> QED BY <2>6, <2>7
<1>3. CASE ServeRequest(m)
  <2> DEFINE s == m.sess
  <2>1. /\ IsRequest(m) /\ promise[s] = "ok" /\ Asked(s) /\ s \in live /\ Awaited(m)
        /\ \A n \in wire : Of(n, s) => n = m
    BY <1>3, RequestInStep DEF ServeRequest, InStep, IsRequest
  <2>2. PICK r : r = ResponseTo(m, "ok", replies[s])  OBVIOUS
  <2>3. /\ wire' = wire \ {m} /\ back' = back \cup {r}
        /\ expects' = [expects EXCEPT ![s] = @ + 1]
        /\ replies' = [replies EXCEPT ![s] = @ + 1]
        /\ UNCHANGED <<page, call, promise, numbers, live>>
    BY <1>3, <2>1, <2>2 DEF ServeRequest, Respond
  <2>4. replies[s] \in Nat /\ expects[s] \in Nat /\ sends[s] \in Nat
    BY <1>1 DEF Inv, Types, NumbersOK
  <2>5. Of(r, s) /\ r.code = "ok" /\ r.seq = replies[s] /\ IsRequest(r) /\ r.sess = s
    BY <1>1, <2>1, <2>2, <2>4, ResponseFields DEF IsRequest, Of
  <2>6. /\ expects'[s] = expects[s] + 1 /\ replies'[s] = replies[s] + 1
        /\ \A t \in Session : t # s => expects'[t] = expects[t] /\ replies'[t] = replies[t]
    BY <1>1, <2>3 DEF Inv, Types, NumbersOK
  <2>7. Of(m, s)  BY <2>1 DEF Of, IsRequest
  <2>8. s \in Session  BY <1>1
  <2> HIDE DEF s
  <2>9. Answered(s)'
    <3>1. \A n \in wire' : ~Of(n, s)  BY <2>1, <2>3
    <3>2. /\ r \in back' /\ r.seq = recvs[s]
          /\ \A q \in back' : Of(q, s) => q = r
      BY <2>1, <2>3, <2>5 DEF Asked
    <3>3. sends[s] = expects'[s] /\ replies'[s] = recvs[s] + 1
      BY <2>1, <2>6 DEF Asked
    <3> QED BY <2>3, <2>5, <3>1, <3>2, <3>3 DEF Answered, Of
  <2>10. \A t \in Session \ {s} : Paced(t) => Paced(t)'
    <3> SUFFICES ASSUME NEW t \in Session \ {s}, Paced(t) PROVE Paced(t)'  OBVIOUS
    <3>1. \A n \in wire \cup wire' : Of(n, t) => n \in wire /\ n \in wire'
      BY <2>3, <2>7 DEF Of
    <3>2. \A q \in back \cup back' : Of(q, t) => q \in back /\ q \in back'
      BY <2>3, <2>5 DEF Of
    <3>3. t \in live' /\ expects'[t] = expects[t] /\ replies'[t] = replies[t]
      BY <2>3, <2>6 DEF Paced
    <3> QED BY <2>3, <3>1, <3>2, <3>3, PacedFrame
  <2>11. \A t \in Session : promise'[t] = "ok" => Paced(t)'
    BY <2>1, <2>3, <2>9, <2>10 DEF Calm, Paced
  <2>12. \A t \in Session : promise'[t] # "ok" => Fresh(t)'
    BY <2>1, <2>3, <2>6 DEF Calm, Fresh
  <2>13. \A q \in back' : ~IsRequest(q) => q.code = "ok" /\ q.sess \in live'
    BY <2>3, <2>5 DEF Calm
  <2>14. Calm'  BY <2>3, <2>11, <2>12, <2>13 DEF Calm, page
  <2>15. Ordered'  BY <2>3, OrderSame DEF page
  <2> QED BY <2>14, <2>15
<1>4. ~ServeOutOfStep(m)  BY RequestInStep DEF ServeOutOfStep, IsRequest
<1> QED BY <1>2, <1>3, <1>4 DEF Serve

LEMMA InitTurns == Init => TurnsInv
<1> SUFFICES ASSUME Init PROVE Ordered /\ Calm  BY DEF TurnsInv
<1>1. \A c \in Caller : call[c].pc = "new" /\ ~Chained(c)  BY DEF Init, New, Chained
<1>2. Turns([c \in Caller |-> 0])  BY <1>1 DEF Turns, Init
<1>3. Ordered  BY <1>2 DEF Ordered
<1>4. Calm  BY <1>1 DEF Calm, Init, Fresh, NoSession
<1> QED BY <1>3, <1>4

LEMMA StutterTurns == ASSUME Ordered, Calm, UNCHANGED vars PROVE Ordered' /\ Calm'
<1> USE DEF vars, page, numbers, backend
<1>1. Ordered'  BY OrderSame
<1>2. \A s : Paced(s)' <=> Paced(s)  BY DEF Paced, AtRest, Asked, Answered
<1>3. \A s : Fresh(s)' <=> Fresh(s)  BY DEF Fresh
<1>4. Calm'  BY <1>2, <1>3 DEF Calm
<1> QED BY <1>1, <1>4

LEMMA NextTurns == Inv /\ TurnsInv /\ [Next]_vars => TurnsInv'
<1> SUFFICES ASSUME Inv, TurnsInv, [Next]_vars, NoFault' PROVE Ordered' /\ Calm'
  BY DEF TurnsInv
<1> USE DEF NoFault
<1>1. logouts \in Nat /\ faults \in Nat /\ restarts \in Nat  BY DEF Inv, Types, HistoryOK
<1>2. ~Logout  BY <1>1 DEF Logout
<1>3. ~Fault
  <2>1. \A c \in Caller : ~NotConfigured(c) /\ ~ConfigCut(c)  BY <1>1 DEF NotConfigured, ConfigCut
  <2>2. \A r \in back : ~TooOld(r) /\ ~LoseResponse(r)  BY <1>1 DEF TooOld, LoseResponse
  <2>3. \A m \in wire : ~Refuse(m)  BY <1>1 DEF Refuse, Respond
  <2>4. \A m \in wire : \A code \in {"refused", "error"} : ~GiveUp(m, code)
    BY <1>1 DEF GiveUp
  <2>5. ~Restart  BY <1>1 DEF Restart
  <2> QED BY <2>1, <2>2, <2>3, <2>4, <2>5 DEF Fault
<1>4. CASE UNCHANGED vars
  <2>1. NoFault  BY <1>4 DEF vars, bounds
  <2> QED BY <1>4, <2>1, StutterTurns DEF TurnsInv
<1>5. ASSUME NEW c \in Caller,
             \/ Begin(c) \/ ConfigAnswered(c) \/ ConfigRead(c) \/ Configured(c)
             \/ Run(c) \/ Resume(c)
      PROVE  Ordered' /\ Calm'
  <2>1. NoFault
    BY <1>5 DEF Begin, ConfigAnswered, ConfigRead, Configured, Run, Resume, bounds
  <2> QED BY <1>5, <2>1, TurnsBegin, TurnsConfigRead, TurnsConfigured, TurnsRun, TurnsResume
        DEF TurnsInv
<1>6. ASSUME NEW r \in back, HandshakeReturns(r) \/ Succeed(r) \/ Refused(r) \/ Broken(r)
      PROVE  Ordered' /\ Calm'
  <2>1. NoFault  BY <1>6 DEF HandshakeReturns, Succeed, Refused, Broken, bounds
  <2> QED BY <1>6, <2>1, TurnsHandshake, TurnsSucceed, NoneFails DEF TurnsInv
<1>7. ASSUME NEW m \in wire, Serve(m) PROVE Ordered' /\ Calm'
  <2>1. NoFault
    BY <1>7 DEF Serve, ServeStart, ServeRequest, ServeOutOfStep, Respond
  <2> QED BY <1>7, <2>1, TurnsServe DEF TurnsInv
<1> QED BY <1>2, <1>3, <1>4, <1>5, <1>6, <1>7 DEF Next, Microtask, Event

LEMMA TurnsHold == Spec => []TurnsInv
<1> QED BY InvHolds, InitTurns, NextTurns, PTL DEF Spec

(* Without logouts and faults no call fails, however many are made at once *)
(* (secure-fetch.ts:98-102).                                               *)
THEOREM CallsTakeTurnsHolds == Spec => []CallsTakeTurns
<1>1. TurnsInv => CallsTakeTurns  BY DEF TurnsInv, NoFault, CallsTakeTurns, Failed, Calm
<1> QED BY <1>1, TurnsHold, PTL

-----------------------------------------------------------------------------
(* Calls made one at a time, without a logout *)

OneAtATime == ~overlapped /\ logouts = 0

HandshakesOne ==
  /\ handshake # NoSession =>
       /\ session = NoSession
       /\ promise[handshake] \in {"pending", "failed"}
       /\ \A c \in Caller : call[c].pc # "request"
  /\ session # NoSession => promise[session] = "ok"
  /\ \A s \in Session : promise[s] = "pending" => handshake = s

CallsOne ==
  /\ \A c, d \in Caller : UnderWay(c) /\ UnderWay(d) => c = d
  /\ \A c \in Caller : call[c].pc = "request" => call[c].sess = session
  /\ \A c \in Caller : call[c].pc = "handshake" =>
       IF promise[call[c].sess] = "ok" THEN session = call[c].sess ELSE handshake = call[c].sess

StartsOne ==
  \A r \in back : ~IsRequest(r) /\ r.code = "ok" =>
    \A m \in wire : IsRequest(m) \/ m.sess # r.sess

FreshOne == \A s \in Session : promise[s] = "pending" => Fresh(s)

One == HandshakesOne /\ CallsOne /\ StartsOne /\ FreshOne

(* The configuration that a call awaits is the one that is kept; until it  *)
(* has been read nothing else is under way.                                *)
ConfigOne ==
  /\ \A c \in Caller : call[c].pc = "body" => config = call[c].after
  /\ config # None /\ body[config] # "ok" => \A c \in Caller : UnderWay(c) => call[c].pc = "body"

OneInv == OneAtATime => One /\ ConfigOne

LEMMA OneCallOnly ==
  ASSUME Inv, One, NEW c \in Caller, Others(c), call'[c].pc \notin InSession,
         UnderWay(c)' => UnderWay(c) \/ \A d \in Caller : ~UnderWay(d),
         UNCHANGED <<session, handshake, promise, numbers, wire, back, backend>>
  PROVE  One'
<1> USE DEF numbers, backend
<1>1. HandshakesOne'
  <2>1. \A d \in Caller : call'[d].pc = "request" => call[d].pc = "request"
    BY DEF Others, InSession
  <2> QED BY <2>1 DEF One, HandshakesOne
<1>2. CallsOne'
  <2>1. \A d \in Caller : d # c => call'[d] = call[d] /\ (UnderWay(d)' <=> UnderWay(d))
    BY DEF Others, UnderWay, Settled
  <2>2. \A d, e \in Caller : UnderWay(d)' /\ UnderWay(e)' => d = e
    BY <2>1 DEF One, CallsOne
  <2> QED BY <2>1, <2>2 DEF One, CallsOne, InSession
<1>3. StartsOne' /\ FreshOne'  BY DEF One, StartsOne, FreshOne, Fresh
<1> QED BY <1>1, <1>2, <1>3 DEF One

LEMMA OneBegin == ASSUME Inv, NEW c \in Caller, Begin(c), OneAtATime', One PROVE One'
<1>1. Others(c) /\ call'[c].pc \in {"config", "body"}  BY BeganCall
<1>2. \A d \in Caller : ~UnderWay(d)  BY DEF OneAtATime, Begin
<1>3. UNCHANGED <<session, handshake, promise, numbers, wire, back, backend>>
  BY DEF Begin, page
<1> QED BY <1>1, <1>2, <1>3, OneCallOnly DEF InSession

LEMMA OneConfigured ==
  ASSUME Inv, NEW c \in Caller, ConfigAnswered(c) \/ Configured(c) \/ NotConfigured(c), One
  PROVE  One'
<1>1. Others(c) /\ call'[c].pc \notin InSession
  <2>1. CASE ConfigAnswered(c)  BY <2>1, BeganCall DEF InSession
  <2>2. CASE Settle(c, "failed")  BY <2>2, SettleCall DEF Inv, Types, InSession
  <2>3. CASE Chain(c)  BY <2>3, ChainCall DEF Inv, Types, InSession
  <2> QED BY <2>1, <2>2, <2>3 DEF Configured, NotConfigured
<1>2. UnderWay(c)
  BY DEF ConfigAnswered, Configured, NotConfigured, MayChain, UnderWay, Settled
<1>3. UNCHANGED <<session, handshake, promise, numbers, wire, back, backend>>
  BY DEF ConfigAnswered, Configured, NotConfigured, page
<1> QED BY <1>1, <1>2, <1>3, OneCallOnly

LEMMA OneBody ==
  ASSUME One, NEW c \in Caller, ConfigRead(c) \/ ConfigCut(c)
  PROVE  One'
<1>1. UNCHANGED <<session, handshake, call, promise, numbers, wire, back, backend>>
  BY DEF ConfigRead, ConfigCut
<1>2. HandshakesOne' /\ CallsOne'
  BY <1>1 DEF One, HandshakesOne, CallsOne, UnderWay, Settled
<1>3. StartsOne' /\ FreshOne'
  BY <1>1 DEF One, StartsOne, FreshOne, Fresh, numbers, backend
<1> QED BY <1>2, <1>3 DEF One

(* The answers *)
LEMMA OneAnswer ==
  ASSUME Inv, One, NEW r \in back, IsRequest(r), NEW how \in {"ok", "failed"},
         Settle(r.from, how), back' = back \ {r},
         UNCHANGED <<promise, sends, wire, backend>>,
         \A s \in Session : s # r.sess => recvs'[s] = recvs[s],
         \/ UNCHANGED <<session, handshake>>
         \/ session' = NoSession /\ handshake' = NoSession
  PROVE  One'
<1> USE DEF backend
<1>1. /\ r.from \in Caller /\ r.sess \in Session
      /\ call[r.from].pc = "request" /\ call[r.from].sess = r.sess
      /\ Others(r.from) /\ call'[r.from].pc = how
  BY AnswerCall
<1>2. handshake = NoSession /\ session = r.sess /\ promise[r.sess] = "ok"
  BY <1>1 DEF One, HandshakesOne, CallsOne, Session, NoSession
<1>3. \A d \in Caller : UnderWay(d) => d = r.from
  BY <1>1 DEF One, CallsOne, UnderWay, Settled
<1>4. \A d \in Caller : d # r.from => call'[d] = call[d] /\ ~UnderWay(d)
  BY <1>1, <1>3 DEF Others
<1>5. \A d \in Caller : ~UnderWay(d)' /\ call'[d].pc \notin InSession
  BY <1>1, <1>4 DEF UnderWay, Settled, InSession
<1>6. HandshakesOne'  BY <1>2, <1>5 DEF One, HandshakesOne, InSession
<1>7. CallsOne'  BY <1>5 DEF CallsOne, InSession
<1>8. StartsOne'  BY DEF One, StartsOne
<1>9. FreshOne'  BY <1>1, <1>2 DEF One, FreshOne, Fresh
<1> QED BY <1>6, <1>7, <1>8, <1>9 DEF One

LEMMA OneAnswers ==
  ASSUME Inv, One, NEW r \in back, Succeed(r) \/ TooOld(r) \/ Refused(r) \/ Broken(r)
  PROVE  One'
<1>1. IsRequest(r) /\ back' = back \ {r} /\ UNCHANGED <<promise, sends, wire, backend>>
  BY DEF Succeed, TooOld, Refused, Broken, Arrives, IsRequest, numbers
<1>2. \E how \in {"ok", "failed"} : Settle(r.from, how)
  BY DEF Succeed, TooOld, Refused, Broken
<1>3. \A s \in Session : s # r.sess => recvs'[s] = recvs[s]
  BY DEF Succeed, TooOld, Refused, Broken, numbers, Inv, Types, NumbersOK
<1>4. \/ UNCHANGED <<session, handshake>>
      \/ session' = NoSession /\ handshake' = NoSession
  BY DEF Succeed, TooOld, Refused, Broken, Clear, page
<1> QED BY <1>1, <1>2, <1>3, <1>4, OneAnswer

(* The network and the backend *)
LEMMA OneServed ==
  ASSUME Inv, One, wire' \subseteq wire, StartsOne',
         UNCHANGED <<page, call, promise, numbers>>,
         \A s \in Session : promise[s] = "pending" =>
           expects'[s] = expects[s] /\ replies'[s] = replies[s]
  PROVE  One'
<1> USE DEF page, numbers
<1>1. HandshakesOne'  BY DEF One, HandshakesOne
<1>2. CallsOne'  BY DEF One, CallsOne, UnderWay, Settled
<1>3. FreshOne'  BY DEF One, FreshOne, Fresh
<1> QED BY <1>1, <1>2, <1>3 DEF One

(* A request is in no session that is still being made. *)
LEMMA NotPending ==
  ASSUME Inv, One, NEW m \in wire, IsRequest(m)
  PROVE  m.sess \in Session /\ promise[m.sess] # "pending"
<1>1. m.sess \in Session /\ m.seq \in Nat /\ m.seq < sends[m.sess]
  BY DEF Inv, Types, MessagesOK, Message, SeqInv
<1> QED BY <1>1 DEF One, FreshOne, Fresh

LEMMA OneResponded ==
  ASSUME Inv, One, NEW m \in wire,
         NEW code \in {"ok", "refused", "error"}, NEW seq \in Nat, Respond(m, code, seq)
  PROVE  StartsOne' /\ wire' \subseteq wire /\ UNCHANGED <<page, call, promise, numbers>>
<1> DEFINE r == ResponseTo(m, code, seq)
<1>1. m \in Message /\ wire \subseteq Message  BY DEF Inv, Types, MessagesOK
<1>2. r.from = m.from /\ r.sess = m.sess  BY <1>1, ResponseFields
<1>3. wire' = wire \ {m} /\ (back' = back \/ back' = back \cup {r})
      /\ UNCHANGED <<page, call, promise, numbers>>
  BY DEF Respond
<1> HIDE DEF r
<1>4. ~IsRequest(m) => \A n \in wire : ~IsRequest(n) /\ n.sess = m.sess => n = m
  <2> SUFFICES ASSUME ~IsRequest(m), NEW n \in wire, ~IsRequest(n), n.sess = m.sess PROVE n = m
    OBVIOUS
  <2>1. n.seq = m.seq /\ n.from = m.from  BY DEF Inv, RequestsOK, IsRequest
  <2> QED BY <1>1, <2>1 DEF Message
<1>5. StartsOne'
  BY <1>2, <1>3, <1>4 DEF One, StartsOne, IsRequest
<1> QED BY <1>3, <1>5

LEMMA OneServe ==
  ASSUME Inv, One, NEW m \in wire, Serve(m) \/ Refuse(m)
  PROVE  One'
<1>1. \E code \in {"ok", "refused", "error"}, seq \in Nat : Respond(m, code, seq)
  <2>1. IsRequest(m) => replies[m.sess] \in Nat  BY NotPending DEF Inv, Types, NumbersOK
  <2> QED BY <2>1
     DEF Serve, ServeStart, ServeRequest, ServeOutOfStep, Refuse, InStep, IsRequest
<1>2. StartsOne' /\ wire' \subseteq wire /\ UNCHANGED <<page, call, promise, numbers>>
  BY <1>1, OneResponded
<1>3. \A s \in Session : promise[s] = "pending" =>
        expects'[s] = expects[s] /\ replies'[s] = replies[s]
  <2>1. IsRequest(m) => promise[m.sess] # "pending"  BY NotPending
  <2> QED BY <2>1
     DEF Serve, ServeStart, ServeRequest, ServeOutOfStep, Refuse, InStep, IsRequest, backend,
         Inv, Types, NumbersOK
<1> QED BY <1>2, <1>3, OneServed

LEMMA OneFault ==
  ASSUME Inv, One,
         \/ Restart
         \/ \E r \in back : LoseResponse(r)
         \/ \E m \in wire : \E code \in {"refused", "error"} : GiveUp(m, code)
  PROVE  One'
<1>1. UNCHANGED <<page, call, promise, numbers, expects, replies>> /\ wire' \subseteq wire
  BY DEF Restart, LoseResponse, GiveUp, backend
<1>2. wire \subseteq Message /\ back \subseteq Response  BY DEF Inv, Types, MessagesOK
<1>3. \A r \in back' : r.code = "ok" => r \in back
  <2>1. CASE Restart
    BY <1>2, <2>1, ResponseFields DEF Restart
  <2>2. ASSUME NEW r \in back, LoseResponse(r) PROVE \A q \in back' : q.code = "ok" => q \in back
    BY <1>2, <2>2 DEF LoseResponse, Response
  <2>3. ASSUME NEW m \in wire, NEW code \in {"refused", "error"}, GiveUp(m, code)
        PROVE  \A q \in back' : q.code = "ok" => q \in back
    BY <1>2, <2>3, ResponseFields DEF GiveUp
  <2> QED BY <2>1, <2>2, <2>3
<1>4. StartsOne'  BY <1>1, <1>3 DEF One, StartsOne
<1> QED BY <1>1, <1>4, OneServed

(* The session of a call that may go on *)
LEMMA OneSend ==
  ASSUME Inv, One, NEW c \in Caller, UnderWay(c), NEW s \in Session, session = s,
         SendRequest(c, s), UNCHANGED <<page, promise, recvs, back, backend>>
  PROVE  One'
<1> USE DEF page, backend
<1>1. Others(c) /\ call'[c].pc = "request" /\ call'[c].sess = s
  <2>1. call' = [call EXCEPT ![c] = Joined(call[c], "request", s)]
    BY SendCall DEF Inv, Types
  <2> QED BY <2>1, JoinCall DEF InSession, Inv, Types
<1>2. promise[s] = "ok" /\ handshake = NoSession
  BY DEF One, HandshakesOne, Session, NoSession
<1>3. \A d \in Caller : d # c => ~UnderWay(d) /\ call'[d] = call[d]
  BY <1>1 DEF One, CallsOne, Others
<1>4. HandshakesOne'  BY <1>2 DEF One, HandshakesOne
<1>5. CallsOne'
  BY <1>1, <1>3 DEF CallsOne, UnderWay, Settled
<1>6. wire' = wire \cup {[from |-> c, sess |-> s, seq |-> sends[s]]}
      /\ \A t \in Session : t # s => sends'[t] = sends[t]
  BY DEF SendRequest, Inv, Types, NumbersOK
<1>7. StartsOne'
  <2>1. \A m \in wire' : m \in wire \/ IsRequest(m)  BY <1>6, Bounds DEF IsRequest
  <2> QED BY <2>1 DEF One, StartsOne
<1>8. FreshOne'  BY <1>2, <1>6 DEF One, FreshOne, Fresh
<1> QED BY <1>4, <1>5, <1>7, <1>8 DEF One

LEMMA OneRun == ASSUME Inv, One, NEW c \in Caller, Run(c) PROVE One'
<1>1. UnderWay(c) /\ call[c].pc = "queued"  BY DEF Run, MayRun, UnderWay, Settled
<1>2. UNCHANGED <<session, recvs, back, backend, tail, config, body>>  BY DEF Run
<1>3. CASE session # NoSession /\ SendRequest(c, session) /\ UNCHANGED <<made, promise, handshake>>
  <2>1. session \in Session  BY <1>3 DEF Inv, Types, PageOK
  <2>2. UNCHANGED <<page, promise, recvs, back, backend>>  BY <1>2, <1>3 DEF page
  <2> QED BY <1>1, <1>3, <2>1, <2>2, OneSend
<1>4. CASE session = NoSession /\ AwaitHandshake(c) /\ UNCHANGED sends
  <2>1. ASSUME NEW s \in Session,
               call' = [call EXCEPT ![c].pc = "handshake", ![c].sess = s]
        PROVE  /\ call'[c].pc = "handshake" /\ call'[c].sess = s
               /\ \A d \in Caller : d # c => ~UnderWay(d) /\ call'[d] = call[d]
    <3>1. call' = [call EXCEPT ![c] = Joined(call[c], "handshake", s)]
      BY <2>1 DEF Inv, Types, CallsOK, CallState, Joined
    <3>2. Others(c) /\ call'[c].pc = "handshake" /\ call'[c].sess = s
      BY <3>1, JoinCall DEF InSession, Inv, Types
    <3> QED BY <1>1, <3>2 DEF One, CallsOne, Others
  <2>2. CASE handshake # NoSession /\ UNCHANGED <<made, promise, handshake, wire>>
             /\ call' = [call EXCEPT ![c].pc = "handshake", ![c].sess = handshake]
    <3>1. /\ call'[c].pc = "handshake" /\ call'[c].sess = handshake
          /\ \A d \in Caller : d # c => ~UnderWay(d) /\ call'[d] = call[d]
      BY <2>1, <2>2 DEF Inv, Types, PageOK
    <3>2. HandshakesOne'  BY <1>2, <2>2, <3>1 DEF One, HandshakesOne
    <3>3. promise[handshake] # "ok"  BY <2>2 DEF One, HandshakesOne
    <3>4. CallsOne'  BY <2>2, <3>1, <3>3 DEF CallsOne, UnderWay, Settled
    <3>5. StartsOne' /\ FreshOne'
      BY <1>2, <1>4, <2>2 DEF One, StartsOne, FreshOne, Fresh, backend
    <3> QED BY <3>2, <3>4, <3>5 DEF One
  <2>3. CASE /\ handshake = NoSession /\ made < MaxSession
             /\ promise' = [promise EXCEPT ![made + 1] = "pending"]
             /\ handshake' = made + 1
             /\ wire' = wire \cup {[from |-> None, sess |-> made + 1, seq |-> 0]}
             /\ call' = [call EXCEPT ![c].pc = "handshake", ![c].sess = made + 1]
    <3>1. PICK s \in Session : s = made + 1
      BY <2>3, Bounds DEF Inv, Types, HistoryOK, Session
    <3>2. /\ call'[c].pc = "handshake" /\ call'[c].sess = s
          /\ \A d \in Caller : d # c => ~UnderWay(d) /\ call'[d] = call[d]
      BY <2>1, <2>3, <3>1
    <3>3. /\ Untouched(s) /\ promise'[s] = "pending" /\ handshake' = s
          /\ \A t \in Session : t # s => promise'[t] = promise[t]
      BY <2>3, <3>1, Bounds DEF Inv, Types, NumbersOK, Begun, HistoryOK
    <3>4. \A t \in Session : promise[t] # "pending"
      BY <2>3 DEF One, HandshakesOne, Session, NoSession
    <3>5. HandshakesOne'
      <4>1. \A d \in Caller : call'[d].pc # "request"
        BY <3>2 DEF UnderWay, Settled
      <4> QED BY <1>2, <1>4, <3>3, <3>4, <4>1 DEF HandshakesOne
    <3>6. CallsOne'  BY <3>2, <3>3 DEF CallsOne, UnderWay, Settled
    <3>7. StartsOne'
      <4>1. \A r \in back : ~IsRequest(r) => r.sess # s
        BY <3>3 DEF Inv, ResponsesOK, Untouched
      <4>2. \A m \in wire' : m \in wire \/ m.sess = s  BY <2>3, <3>1
      <4> QED BY <1>2, <4>1, <4>2 DEF One, StartsOne
    <3>8. FreshOne'
      BY <1>2, <1>4, <3>3, <3>4 DEF FreshOne, Fresh, Untouched, backend
    <3> QED BY <3>5, <3>6, <3>7, <3>8 DEF One
  <2> QED BY <1>4, <2>2, <2>3 DEF AwaitHandshake
<1> QED BY <1>3, <1>4 DEF Run

LEMMA OneResume == ASSUME Inv, One, NEW c \in Caller, Resume(c) PROVE One'
<1>1. call[c].pc = "handshake" /\ call[c].sess \in Session /\ UnderWay(c)
  BY DEF Resume, MayResume, Inv, Types, CallsOK, InSession, UnderWay, Settled
<1>2. UNCHANGED <<page, promise, recvs, back, backend>>  BY DEF Resume
<1>3. CASE promise[call[c].sess] = "ok" /\ SendRequest(c, call[c].sess)
  <2>1. session = call[c].sess  BY <1>1, <1>3 DEF One, CallsOne
  <2> QED BY <1>1, <1>2, <1>3, <2>1, OneSend
<1>4. CASE Settle(c, "failed") /\ UNCHANGED <<wire, sends>>
  <2>1. Others(c) /\ call'[c].pc = "failed"
    BY <1>4, SettleCall DEF Inv, Types, PC, InSession
  <2> QED BY <1>1, <1>2, <1>4, <2>1, OneCallOnly DEF InSession, page, numbers
<1> QED BY <1>3, <1>4 DEF Resume

LEMMA OneHandshake == ASSUME Inv, One, NEW r \in back, HandshakeReturns(r) PROVE One'
<1>1. /\ ~IsRequest(r) /\ back' = back \ {r} /\ r.sess \in Session
      /\ promise[r.sess] = "pending"
      /\ UNCHANGED <<call, numbers, wire, backend>>
  BY DEF HandshakeReturns, Arrives, IsRequest, Inv, Types, MessagesOK, Response, ResponsesOK
<1>2. /\ \A s \in Session : s # r.sess => promise'[s] = promise[s]
      /\ \/ promise'[r.sess] = "ok" /\ session' = r.sess /\ handshake' = NoSession
         \/ promise'[r.sess] = "failed" /\ UNCHANGED <<session, handshake>>
  BY <1>1 DEF HandshakeReturns, Inv, Types, NumbersOK
<1>3. /\ handshake = r.sess /\ session = NoSession
      /\ \A c \in Caller : call[c].pc # "request"
      /\ \A s \in Session : promise[s] = "pending" => s = r.sess
      /\ handshake \in Session /\ handshake # NoSession
  BY <1>1 DEF One, HandshakesOne, Session, NoSession
<1>4. HandshakesOne'  BY <1>1, <1>2, <1>3 DEF HandshakesOne
<1>5. CallsOne'
  <2>1. \A c, d \in Caller : UnderWay(c)' /\ UnderWay(d)' => c = d
    BY <1>1 DEF One, CallsOne, UnderWay, Settled
  <2>2. \A c \in Caller : call[c].pc = "handshake" => call[c].sess = r.sess
    <3> SUFFICES ASSUME NEW c \in Caller, call[c].pc = "handshake" PROVE call[c].sess = r.sess
      OBVIOUS
    <3>1. call[c].sess \in Session  BY DEF Inv, Types, CallsOK, InSession
    <3> QED BY <1>3, <3>1 DEF One, CallsOne, Session, NoSession
  <2> QED BY <1>1, <1>2, <1>3, <2>1, <2>2 DEF CallsOne
<1>6. StartsOne'  BY <1>1 DEF One, StartsOne
<1>7. FreshOne'  BY <1>1, <1>2 DEF One, FreshOne, Fresh, numbers, backend
<1> QED BY <1>4, <1>5, <1>6, <1>7 DEF One

LEMMA OneStutter == ASSUME One, UNCHANGED vars PROVE One'
<1> USE DEF vars, page, numbers, backend
<1>1. HandshakesOne' /\ CallsOne'
  BY DEF One, HandshakesOne, CallsOne, UnderWay, Settled
<1>2. StartsOne' /\ FreshOne'  BY DEF One, StartsOne, FreshOne, Fresh
<1> QED BY <1>1, <1>2 DEF One

LEMMA WasOneAtATime == ASSUME Inv, [Next]_vars, OneAtATime' PROVE OneAtATime /\ ~Logout
<1>1. overlapped \in BOOLEAN /\ logouts \in Nat  BY DEF Inv, Types, HistoryOK
<1>2. ~Logout  BY <1>1 DEF Logout, OneAtATime
<1>3. logouts' = logouts /\ (overlapped => overlapped')
  <2>1. CASE UNCHANGED vars  BY <2>1 DEF vars, history, bounds
  <2>2. ASSUME NEW c \in Caller, CallStep(c)
        PROVE  logouts' = logouts /\ (overlapped => overlapped')
    <3>1. CASE Begin(c)
      <4>1. logouts' = logouts  BY <3>1 DEF Begin, bounds
      <4>2. overlapped => overlapped'  BY <3>1, Zenon DEF Begin
      <4> QED BY <4>1, <4>2
    <3>2. CASE Run(c)  BY <3>2 DEF Run, bounds
    <3>3. CASE Resume(c)  BY <3>3 DEF Resume, history, bounds
    <3>4. CASE Configured(c)  BY <3>4 DEF Configured, history, bounds
    <3>5. CASE NotConfigured(c) \/ ConfigCut(c)  BY <3>5 DEF NotConfigured, ConfigCut, history
    <3>6. CASE ConfigAnswered(c) \/ ConfigRead(c)
      BY <3>6 DEF ConfigAnswered, ConfigRead, history, bounds
    <3> QED BY <2>2, <3>1, <3>2, <3>3, <3>4, <3>5, <3>6 DEF CallStep
  <2>3. ASSUME NEW r \in back,
               \/ HandshakeReturns(r) \/ Succeed(r) \/ Refused(r) \/ Broken(r)
               \/ TooOld(r) \/ LoseResponse(r)
        PROVE  logouts' = logouts /\ overlapped' = overlapped
    BY <2>3 DEF HandshakeReturns, Succeed, Refused, Broken, TooOld, LoseResponse, history, bounds
  <2>4. ASSUME NEW m \in wire,
               Serve(m) \/ Refuse(m) \/ \E code \in {"refused", "error"} : GiveUp(m, code)
        PROVE  logouts' = logouts /\ overlapped' = overlapped
    BY <2>4 DEF Serve, ServeStart, ServeRequest, ServeOutOfStep, Refuse, GiveUp, Respond, history
  <2>5. CASE Restart  BY <2>5 DEF Restart, history
  <2> QED BY <1>2, <2>1, <2>2, <2>3, <2>4, <2>5
        DEF Next, Microtask, Event, Fault, CallStep
<1> QED BY <1>1, <1>2, <1>3 DEF OneAtATime

LEMMA TurnCall ==
  ASSUME Inv, NEW c \in Caller, Run(c) \/ Resume(c)
  PROVE  Others(c) /\ call'[c].pc \in InSession \cup {"failed"}
<1> USE DEF Inv, Types
<1>1. ASSUME NEW s \in Session, SendRequest(c, s)
      PROVE  Others(c) /\ call'[c].pc \in InSession
  BY <1>1, SendCall, JoinCall DEF InSession
<1>2. ASSUME NEW s \in Session, call' = [call EXCEPT ![c].pc = "handshake", ![c].sess = s]
      PROVE  Others(c) /\ call'[c].pc \in InSession
  <2>1. call' = [call EXCEPT ![c] = Joined(call[c], "handshake", s)]
    BY <1>2 DEF CallsOK, CallState, Joined
  <2> QED BY <2>1, JoinCall DEF InSession
<1>3. CASE Run(c)
  <2>1. CASE session # NoSession /\ SendRequest(c, session)
    <3>1. session \in Session  BY <2>1 DEF PageOK
    <3> QED BY <1>1, <2>1, <3>1
  <2>2. CASE AwaitHandshake(c)
    <3>1. \E s \in Session : call' = [call EXCEPT ![c].pc = "handshake", ![c].sess = s]
      BY <2>2, Bounds DEF AwaitHandshake, PageOK, HistoryOK, Session
    <3> QED BY <1>2, <3>1
  <2> QED BY <1>3, <2>1, <2>2 DEF Run
<1>4. CASE Resume(c)
  <2>1. call[c].sess \in Session  BY <1>4 DEF Resume, MayResume, CallsOK, InSession
  <2>2. CASE Settle(c, "failed")  BY <2>2, SettleCall
  <2> QED BY <1>1, <1>4, <2>1, <2>2 DEF Resume
<1> QED BY <1>3, <1>4

LEMMA ConfigOneCall ==
  ASSUME ConfigOne, NEW c \in Caller, Others(c), UnderWay(c),
         call[c].pc # "body", call'[c].pc # "body", UNCHANGED <<config, body>>
  PROVE  ConfigOne'
<1>1. config # None => body[config] = "ok"  BY DEF ConfigOne
<1>2. \A d \in Caller : call'[d].pc = "body" => call'[d] = call[d]  BY DEF Others
<1> QED BY <1>1, <1>2 DEF ConfigOne

LEMMA ConfigOneStep ==
  ASSUME Inv, One, ConfigOne, NEW c \in Caller, CallStep(c), OneAtATime'
  PROVE  ConfigOne'
<1> USE DEF Inv, Types
<1>1. CASE Begin(c)
  <2>1. \A d \in Caller : ~UnderWay(d) /\ call[d].pc # "body"
    BY <1>1 DEF OneAtATime, Begin, UnderWay, Settled
  <2>2. UNCHANGED <<config, body>>  BY <1>1 DEF Begin, page
  <2>3. Others(c) /\ \A d \in Caller : d # c => ~UnderWay(d)' /\ call'[d].pc # "body"
    BY <1>1, <2>1, BeganCall DEF Others, UnderWay, Settled
  <2>4. CASE config = None /\ Settle(c, "config")
    <3>1. call'[c].pc = "config"  BY <2>4, SettleCall
    <3> QED BY <2>2, <2>3, <2>4, <3>1 DEF ConfigOne
  <2>5. CASE config # None /\ call' = [call EXCEPT ![c].pc = "body", ![c].after = config]
    <3>1. call'[c].pc = "body" /\ call'[c].after = config  BY <2>5, AwaitConfig DEF PageOK
    <3> QED BY <2>2, <2>3, <3>1 DEF ConfigOne
  <2> QED BY <1>1, <2>4, <2>5 DEF Begin
<1>2. CASE ConfigAnswered(c)
  <2>1. UnderWay(c) /\ config' = c  BY <1>2 DEF ConfigAnswered, UnderWay, Settled
  <2>2. Others(c) /\ call'[c].pc = "body" /\ call'[c].after = c
    BY <1>2, AwaitConfig DEF ConfigAnswered
  <2>3. \A d \in Caller : d # c => ~UnderWay(d)' /\ call'[d].pc # "body"
    BY <2>1, <2>2 DEF One, CallsOne, Others, UnderWay, Settled
  <2> QED BY <2>1, <2>2, <2>3 DEF ConfigOne
<1>3. CASE ConfigRead(c) \/ ConfigCut(c)
  <2>1. UNCHANGED <<config, call>> /\ body[c] = "pending"
        /\ \A d \in Caller : d # c => body'[d] = body[d]
    BY <1>3 DEF ConfigRead, ConfigCut, PageOK
  <2>2. config # None /\ body'[config] # "ok" => body[config] # "ok"
    BY <2>1 DEF PageOK
  <2> QED BY <2>1, <2>2 DEF ConfigOne, UnderWay, Settled
<1>4. CASE Configured(c)
  <2>1. UnderWay(c) /\ call[c].pc = "body" /\ UNCHANGED <<config, body>>
    BY <1>4 DEF Configured, MayChain, UnderWay, Settled
  <2>2. /\ Others(c)
        /\ \/ call'[c].pc = "queued" /\ body[call[c].after] = "ok"
           \/ call'[c].pc = "failed"
    BY <1>4, ChainCall, SettleCall DEF Configured
  <2>3. \A d \in Caller : d # c => ~UnderWay(d)' /\ call'[d].pc # "body"
    <3>1. \A d \in Caller : d # c => call'[d] = call[d] /\ ~UnderWay(d)
      BY <2>1, <2>2 DEF One, CallsOne, Others
    <3> QED BY <3>1 DEF UnderWay, Settled
  <2>4. config = call[c].after  BY <2>1 DEF ConfigOne
  <2> QED BY <2>1, <2>2, <2>3, <2>4 DEF ConfigOne, UnderWay, Settled
<1>5. CASE NotConfigured(c)
  <2>1. Others(c) /\ call'[c].pc = "failed"  BY <1>5, SettleCall DEF NotConfigured
  <2> QED BY <1>5, <2>1, ConfigOneCall DEF NotConfigured, UnderWay, Settled, page
<1>6. CASE Run(c) \/ Resume(c)
  <2>1. UnderWay(c) /\ call[c].pc # "body" /\ UNCHANGED <<config, body>>
    BY <1>6 DEF Run, Resume, MayRun, MayResume, UnderWay, Settled, page
  <2>2. Others(c) /\ call'[c].pc # "body"  BY <1>6, TurnCall DEF InSession
  <2> QED BY <2>1, <2>2, ConfigOneCall
<1> QED BY <1>1, <1>2, <1>3, <1>4, <1>5, <1>6 DEF CallStep

LEMMA ConfigOneAnswer ==
  ASSUME Inv, One, ConfigOne, NEW r \in back, Succeed(r) \/ TooOld(r) \/ Refused(r) \/ Broken(r)
  PROVE  ConfigOne'
<1>1. \E how \in {"ok", "failed"} : Settle(r.from, how)
  BY DEF Succeed, TooOld, Refused, Broken
<1>2. IsRequest(r) /\ back' = back \ {r} /\ UNCHANGED <<wire, promise>>
  BY DEF Succeed, TooOld, Refused, Broken, Arrives, IsRequest
<1>3. r.from \in Caller /\ call[r.from].pc = "request" /\ Others(r.from)
      /\ call'[r.from].pc # "body"
  BY <1>1, <1>2, AnswerCall
<1>4. UnderWay(r.from)  BY <1>3 DEF UnderWay, Settled
<1>5. CASE UNCHANGED <<config, body>>  BY <1>3, <1>4, <1>5, ConfigOneCall
<1>6. CASE config' = None
  <2>1. \A d \in Caller : call'[d].pc # "body"
    BY <1>3, <1>4 DEF One, CallsOne, Others, UnderWay, Settled
  <2> QED BY <1>6, <2>1 DEF ConfigOne
<1> QED BY <1>5, <1>6 DEF Succeed, TooOld, Refused, Broken, Clear, page

LEMMA ConfigOneSame ==
  ASSUME ConfigOne, UNCHANGED <<config, body, call>>
  PROVE  ConfigOne'
  BY DEF ConfigOne, UnderWay, Settled

LEMMA NextOne == Inv /\ OneInv /\ [Next]_vars => OneInv'
<1> SUFFICES ASSUME Inv, OneInv, [Next]_vars, OneAtATime' PROVE One' /\ ConfigOne'  BY DEF OneInv
<1>1. One /\ ConfigOne /\ ~Logout  BY WasOneAtATime DEF OneInv
<1>2. ASSUME NEW c \in Caller, CallStep(c) PROVE One' /\ ConfigOne'
  BY <1>1, <1>2, OneRun, OneResume, OneBegin, OneConfigured, OneBody, ConfigOneStep DEF CallStep
<1>3. ASSUME NEW r \in back,
             \/ HandshakeReturns(r) \/ Succeed(r) \/ Refused(r) \/ Broken(r)
             \/ TooOld(r) \/ LoseResponse(r)
      PROVE  One' /\ ConfigOne'
  <2>1. One'  BY <1>1, <1>3, OneHandshake, OneAnswers, OneFault
  <2>2. HandshakeReturns(r) \/ LoseResponse(r) => UNCHANGED <<config, body, call>>
    BY DEF HandshakeReturns, LoseResponse, page
  <2> QED BY <1>1, <1>3, <2>1, <2>2, ConfigOneAnswer, ConfigOneSame
<1>4. ASSUME NEW m \in wire,
             Serve(m) \/ Refuse(m) \/ \E code \in {"refused", "error"} : GiveUp(m, code)
      PROVE  One' /\ ConfigOne'
  <2>1. One'  BY <1>1, <1>4, OneServe, OneFault
  <2>2. UNCHANGED <<config, body, call>>
    BY <1>4 DEF Serve, ServeStart, ServeRequest, ServeOutOfStep, Refuse, GiveUp, Respond, page
  <2> QED BY <1>1, <2>1, <2>2, ConfigOneSame
<1>5. CASE UNCHANGED vars
  <2>1. UNCHANGED <<config, body, call>>  BY <1>5 DEF vars, page
  <2> QED BY <1>1, <1>5, <2>1, OneStutter, ConfigOneSame
<1>6. CASE Restart
  <2>1. UNCHANGED <<config, body, call>>  BY <1>6 DEF Restart, page
  <2> QED BY <1>1, <1>6, <2>1, OneFault, ConfigOneSame
<1> QED BY <1>1, <1>2, <1>3, <1>4, <1>5, <1>6 DEF Next, Microtask, Event, Fault, CallStep

LEMMA InitOne == Init => OneInv
<1> SUFFICES ASSUME Init PROVE One /\ ConfigOne  BY DEF OneInv
<1>1. \A c \in Caller : call[c].pc = "new"  BY DEF Init, New
<1>2. HandshakesOne /\ CallsOne  BY <1>1 DEF Init, HandshakesOne, CallsOne, UnderWay
<1>3. StartsOne /\ FreshOne  BY DEF Init, StartsOne, FreshOne
<1>4. ConfigOne  BY <1>1 DEF Init, ConfigOne
<1> QED BY <1>2, <1>3, <1>4 DEF One

LEMMA OneHolds == Spec => []OneInv
<1> QED BY InvHolds, InitOne, NextOne, PTL DEF Spec

-----------------------------------------------------------------------------
(* What a fault costs *)

(* the session that the next call will use *)
Current == IF session # NoSession THEN session ELSE handshake

Healthy(s) ==
  IF promise[s] = "pending"
  THEN s \in live \/ \E m \in wire : ~IsRequest(m) /\ m.sess = s
  ELSE Paced(s)

Lost == \E r \in back : IsRequest(r) /\ r.code = "error"
Ill == Current # NoSession /\ ~Healthy(Current)

(* how many calls may still fail without another fault *)
Risk == IF Lost THEN 2 ELSE IF Ill THEN 1 ELSE 0

Charged == Cardinality(Failed) + Risk <= 2 * (faults + restarts)
ChargeInv == OneAtATime /\ ~Wedged => Charged

LEMMA RiskRange ==
  /\ Risk \in {0, 1, 2} /\ (~Lost => Risk <= 1) /\ (Lost => Risk = 2)
  /\ (Lost \/ Ill => Risk >= 1) /\ (~Lost /\ ~Ill => Risk = 0)
  BY DEF Risk

LEMMA RiskRangeNext ==
  /\ Risk' \in {0, 1, 2} /\ (~Lost' => Risk' <= 1) /\ (Lost' => Risk' = 2)
  /\ (Lost' \/ Ill' => Risk' >= 1) /\ (~Lost' /\ ~Ill' => Risk' = 0)
  BY DEF Risk

LEMMA FailedCount ==
  /\ IsFiniteSet(Failed) /\ Cardinality(Failed) \in Nat
  BY Bounds, FS_Subset, FS_CardinalityType DEF Failed

LEMMA FailedSame ==
  ASSUME NEW c \in Caller, Others(c), call[c].pc # "failed", call'[c].pc # "failed"
  PROVE  Failed' = Failed
  BY DEF Failed, Others

LEMMA FailedOne ==
  ASSUME NEW c \in Caller, Others(c), call[c].pc # "failed", call'[c].pc = "failed"
  PROVE  Cardinality(Failed') = Cardinality(Failed) + 1
<1>1. Failed' = Failed \cup {c} /\ c \notin Failed  BY DEF Failed, Others
<1> QED BY <1>1, FailedCount, FS_AddElement

LEMMA Counts ==
  ASSUME Inv
  PROVE  faults \in Nat /\ restarts \in Nat
  BY DEF Inv, Types, HistoryOK

(* A step that is no fault, fails no call and makes nothing worse *)
LEMMA NoWorse ==
  ASSUME Inv, Charged, Failed' = Failed, UNCHANGED <<faults, restarts>>,
         Lost' => Lost, Ill' => Ill \/ Lost
  PROVE  Charged'
<1>1. Risk' <= Risk /\ Risk \in Nat /\ Risk' \in Nat  BY RiskRange, RiskRangeNext
<1> QED BY <1>1, FailedCount, Counts DEF Charged

(* A fault *)
LEMMA OneMore ==
  ASSUME Inv, Charged, faults' + restarts' = faults + restarts + 1,
         \/ Failed' = Failed
         \/ Cardinality(Failed') = Cardinality(Failed) + 1 /\ (~Lost' \/ Risk' <= Risk)
  PROVE  Charged'
<1>1. Risk \in Nat /\ Risk' \in 0..2  BY RiskRange, RiskRangeNext
<1>2. CASE Failed' = Failed  BY <1>1, <1>2, FailedCount, Counts DEF Charged
<1>3. CASE Cardinality(Failed') = Cardinality(Failed) + 1 /\ (~Lost' \/ Risk' <= Risk)
  <2>1. Risk' <= Risk + 1  BY <1>1, <1>3, RiskRangeNext
  <2> QED BY <1>1, <1>3, <2>1, FailedCount, Counts DEF Charged
<1> QED BY <1>2, <1>3

LEMMA HealthyFrame ==
  ASSUME NEW s \in Session, Healthy(s), promise'[s] = promise[s],
         s \in live => s \in live',
         \A m \in wire : ~IsRequest(m) /\ m.sess = s => m \in wire' \/ s \in live',
         \A m \in wire \cup wire' : Of(m, s) => m \in wire /\ m \in wire',
         \A r \in back \cup back' : Of(r, s) => r \in back /\ r \in back',
         sends'[s] = sends[s], recvs'[s] = recvs[s],
         expects'[s] = expects[s], replies'[s] = replies[s],
         \A m \in wire : Of(m, s) /\ call[m.from].pc = "request" => call'[m.from].pc = "request"
  PROVE  Healthy(s)'
<1>1. CASE promise[s] = "pending"  BY <1>1 DEF Healthy, IsRequest
<1>2. CASE promise[s] # "pending"
  <2>1. Paced(s)  BY <1>2 DEF Healthy
  <2>2. s \in live'  BY <2>1 DEF Paced
  <2>3. Paced(s)'  BY <2>1, <2>2, PacedFrame
  <2> QED BY <1>2, <2>3 DEF Healthy
<1> QED BY <1>1, <1>2

LEMMA CurrentSession ==
  ASSUME Inv
  PROVE  Current # NoSession => Current \in Session
  BY DEF Inv, Types, PageOK, Current

(* A step of a call that has no request under way and sends none *)
LEMMA NoRiskCall ==
  ASSUME Inv, NEW c \in Caller, Others(c), call[c].pc # "request",
         UNCHANGED <<session, handshake, promise, numbers, wire, back, backend>>
  PROVE  (Lost' <=> Lost) /\ (Ill' => Ill)
<1> USE DEF numbers, backend
<1>1. Lost' <=> Lost  BY DEF Lost
<1>2. Current' = Current  BY DEF Current
<1>3. ASSUME NEW s \in Session, Healthy(s) PROVE Healthy(s)'
  <2>1. \A m \in wire : Of(m, s) /\ call[m.from].pc = "request" => call'[m.from].pc = "request"
    BY DEF Inv, Types, MessagesOK, Message, Of, Others
  <2> QED BY <1>3, <2>1, HealthyFrame
<1> QED BY <1>1, <1>2, <1>3, CurrentSession DEF Ill

LEMMA ChargeFrame ==
  ASSUME Charged,
         UNCHANGED <<session, handshake, call, promise, numbers, wire, back, backend, faults, restarts>>
  PROVE  Charged'
<1> USE DEF numbers, backend
<1>1. Failed' = Failed  BY DEF Failed
<1>2. Lost' <=> Lost  BY DEF Lost
<1>3. \A s : Paced(s)' <=> Paced(s)  BY DEF Paced, AtRest, Asked, Answered
<1>4. \A s : Healthy(s)' <=> Healthy(s)  BY <1>3 DEF Healthy
<1>5. Current' = Current  BY DEF Current
<1>6. Ill' <=> Ill  BY <1>4, <1>5 DEF Ill
<1>7. Risk' = Risk  BY <1>2, <1>6 DEF Risk
<1> QED BY <1>1, <1>7 DEF Charged

LEMMA ChargeBegin ==
  ASSUME Inv, Charged, NEW c \in Caller, Begin(c) \/ ConfigAnswered(c)
  PROVE  Charged'
<1>1. Others(c) /\ call'[c].pc # "failed" /\ call[c].pc \in {"new", "config"}
  BY BeganCall DEF Begin, ConfigAnswered
<1>2. UNCHANGED <<session, handshake, promise, numbers, wire, back, backend, faults, restarts>>
  BY DEF Begin, ConfigAnswered, page, bounds
<1> QED BY <1>1, <1>2, NoRiskCall, FailedSame, NoWorse

(* A call whose configuration could not be read fails, but then the page   *)
(* is Wedged.                                                              *)
LEMMA ChargeConfigured ==
  ASSUME Inv, ConfigOne, ~Wedged, Charged, NEW c \in Caller, Configured(c)
  PROVE  Charged'
<1>1. call[c].pc = "body" /\ call[c].after \in Caller
      /\ UNCHANGED <<session, handshake, promise, numbers, wire, back, backend, faults, restarts>>
  BY DEF Configured, MayChain, Inv, Types, CallsOK, bounds
<1>2. body[call[c].after] # "failed"  BY <1>1, Bounds DEF ConfigOne, Wedged
<1>3. Chain(c)  BY <1>2 DEF Configured
<1>4. Others(c) /\ call'[c].pc = "queued"  BY <1>3, ChainCall DEF Inv, Types
<1> QED BY <1>1, <1>4, NoRiskCall, FailedSame, NoWorse

LEMMA ChargeConfigRead ==
  ASSUME Inv, Charged, NEW c \in Caller, ConfigRead(c)
  PROVE  Charged'
<1>1. UNCHANGED <<session, handshake, call, promise, numbers, wire, back, backend, faults, restarts>>
  BY DEF ConfigRead, bounds
<1> QED BY <1>1, ChargeFrame

LEMMA ChargeNotConfigured ==
  ASSUME Inv, Charged, NEW c \in Caller, NotConfigured(c)
  PROVE  Charged'
<1>1. Others(c) /\ call'[c].pc = "failed" /\ call[c].pc = "config"
  BY SettleCall DEF NotConfigured, Inv, Types, PC, InSession
<1>2. UNCHANGED <<session, handshake, promise, numbers, wire, back, backend, restarts>>
      /\ faults' = faults + 1
  BY DEF NotConfigured, page
<1>3. (Lost' => Lost) /\ (Ill' => Ill)  BY <1>1, <1>2, NoRiskCall
<1>4. Risk' <= Risk  BY <1>3, RiskRange, RiskRangeNext
<1>5. Cardinality(Failed') = Cardinality(Failed) + 1  BY <1>1, FailedOne
<1> QED BY <1>2, <1>4, <1>5, Counts, OneMore

(* Requests of the one call under way *)
LEMMA ChargeSend ==
  ASSUME Inv, One, Charged, NEW c \in Caller, UnderWay(c), call[c].pc # "request",
         NEW s \in Session, session = s, SendRequest(c, s),
         UNCHANGED <<page, promise, recvs, back, backend, bounds>>
  PROVE  Charged'
<1> USE DEF page, backend, bounds
<1>1. Others(c) /\ call'[c].pc = "request" /\ call'[c].sess = s
  <2>1. call' = [call EXCEPT ![c] = Joined(call[c], "request", s)]
    BY SendCall DEF Inv, Types
  <2> QED BY <2>1, JoinCall DEF InSession, Inv, Types
<1>2. Failed' = Failed  BY <1>1, FailedSame DEF UnderWay, Settled
<1>3. Lost' <=> Lost  BY DEF Lost
<1>4. s # NoSession /\ Current = s /\ Current' = s /\ promise[s] = "ok"
  BY DEF Current, Session, NoSession, One, HandshakesOne
<1>5. Healthy(s) => Healthy(s)'
  <2> SUFFICES ASSUME Paced(s) PROVE Paced(s)'  BY <1>4 DEF Healthy
  <2>1. \A d \in Caller : call[d].pc # "request"
    BY DEF One, CallsOne, UnderWay, Settled
  <2>2. AtRest(s)
    <3>1. \A m \in wire : Of(m, s) => m.from \in Caller
      BY DEF Inv, Types, MessagesOK, Message, Of
    <3>2. \A r \in back : Of(r, s) => r.from \in Caller /\ call[r.from].pc = "request"
      BY DEF Inv, Types, MessagesOK, Response, Of, ResponsesOK, IsRequest
    <3> QED BY <2>1, <3>1, <3>2 DEF Paced, Asked, Answered
  <2>3. PICK m : m = [from |-> c, sess |-> s, seq |-> sends[s]]  OBVIOUS
  <2>4. /\ wire' = wire \cup {m} /\ Of(m, s) /\ m.from = c /\ m.seq = sends[s]
        /\ sends'[s] = sends[s] + 1
    BY <2>3, Bounds DEF SendRequest, Of, Inv, Types, NumbersOK
  <2>5. Asked(s)'
    <3>1. \A n \in wire' : Of(n, s) => n = m  BY <2>2, <2>4 DEF AtRest
    <3>2. m.seq = expects[s] /\ call'[m.from].pc = "request" /\ m \in wire'
      BY <1>1, <2>2, <2>4 DEF AtRest
    <3>3. (\A r \in back : ~Of(r, s)) /\ sends'[s] = expects[s] + 1 /\ recvs[s] = replies[s]
      BY <2>2, <2>4 DEF AtRest
    <3> QED BY <2>4, <3>1, <3>2, <3>3 DEF Asked, Of
  <2> QED BY <2>5 DEF Paced
<1>6. Ill' => Ill  BY <1>4, <1>5 DEF Ill
<1> QED BY <1>2, <1>3, <1>6, NoWorse

LEMMA ChargeRun ==
  ASSUME Inv, One, Charged, NEW c \in Caller, Run(c)
  PROVE  Charged'
<1>1. UnderWay(c) /\ call[c].pc = "queued"  BY DEF Run, MayRun, UnderWay, Settled
<1>2. UNCHANGED <<session, recvs, back, backend, tail, config, body, bounds>>  BY DEF Run
<1>3. CASE session # NoSession /\ SendRequest(c, session) /\ UNCHANGED <<made, promise, handshake>>
  <2>1. session \in Session  BY <1>3 DEF Inv, Types, PageOK
  <2>2. UNCHANGED <<page, promise, recvs, back, backend, bounds>>  BY <1>2, <1>3 DEF page
  <2> QED BY <1>1, <1>3, <2>1, <2>2, ChargeSend
<1>4. CASE session = NoSession /\ AwaitHandshake(c) /\ UNCHANGED sends
  <2>1. \E s \in Session : call' = [call EXCEPT ![c].pc = "handshake", ![c].sess = s]
    BY <1>4, Bounds DEF AwaitHandshake, Inv, Types, PageOK, HistoryOK, Session
  <2>2. Others(c) /\ call'[c].pc = "handshake"
    <3>1. PICK s \in Session : call' = [call EXCEPT ![c] = Joined(call[c], "handshake", s)]
      BY <2>1 DEF Inv, Types, CallsOK, CallState, Joined
    <3> QED BY <3>1, JoinCall DEF InSession, Inv, Types
  <2>3. Failed' = Failed  BY <1>1, <2>2, FailedSame
  <2>4. Lost' <=> Lost  BY <1>2 DEF Lost
  <2>5. Ill' => Ill
    <3>1. CASE handshake # NoSession /\ UNCHANGED <<promise, handshake, wire>>
      BY <1>1, <1>2, <1>4, <2>2, <3>1, NoRiskCall DEF numbers
    <3>2. CASE /\ made < MaxSession
               /\ promise' = [promise EXCEPT ![made + 1] = "pending"]
               /\ handshake' = made + 1
               /\ wire' = wire \cup {[from |-> None, sess |-> made + 1, seq |-> 0]}
      <4>1. PICK s \in Session : s = made + 1
        BY <3>2, Bounds DEF Inv, Types, HistoryOK, Session
      <4>2. promise'[s] = "pending" /\ Current' = s
        BY <1>2, <1>4, <3>2, <4>1 DEF Current, Inv, Types, NumbersOK
      <4>3. \E m \in wire' : ~IsRequest(m) /\ m.sess = s
        <5>1. PICK m : m = [from |-> None, sess |-> made + 1, seq |-> 0]  OBVIOUS
        <5>2. m \in wire' /\ m.from = None /\ m.sess = s  BY <3>2, <4>1, <5>1
        <5> QED BY <5>2 DEF IsRequest
      <4>4. Healthy(s)'  BY <4>2, <4>3 DEF Healthy, IsRequest
      <4> QED BY <4>2, <4>4 DEF Ill
    <3> QED BY <1>4, <3>1, <3>2 DEF AwaitHandshake
  <2> QED BY <1>2, <2>3, <2>4, <2>5, NoWorse DEF bounds
<1> QED BY <1>3, <1>4 DEF Run

LEMMA ChargeResume ==
  ASSUME Inv, One, Charged, ~Wedged, NEW c \in Caller, Resume(c)
  PROVE  Charged'
<1>1. call[c].pc = "handshake" /\ call[c].sess \in Session /\ UnderWay(c)
  BY DEF Resume, MayResume, Inv, Types, CallsOK, InSession, UnderWay, Settled
<1>2. UNCHANGED <<page, promise, recvs, back, backend, bounds>>  BY DEF Resume
<1>3. CASE promise[call[c].sess] = "ok" /\ SendRequest(c, call[c].sess)
  <2>1. session = call[c].sess  BY <1>1, <1>3 DEF One, CallsOne
  <2> QED BY <1>1, <1>2, <1>3, <2>1, ChargeSend
<1>4. promise[call[c].sess] # "failed"
  BY <1>1 DEF One, CallsOne, Wedged, Session, NoSession
<1> QED BY <1>3, <1>4 DEF Resume

LEMMA ChargeHandshake ==
  ASSUME Inv, One, Charged, NEW r \in back, HandshakeReturns(r), ~Wedged'
  PROVE  Charged'
<1>1. /\ ~IsRequest(r) /\ back' = back \ {r} /\ r.sess \in Session
      /\ promise[r.sess] = "pending"
      /\ UNCHANGED <<call, numbers, wire, backend, bounds>>
  BY DEF HandshakeReturns, Arrives, IsRequest, Inv, Types, MessagesOK, Response, ResponsesOK
<1>2. handshake = r.sess /\ session = NoSession /\ r.sess # NoSession
  BY <1>1 DEF One, HandshakesOne, Session, NoSession
<1>3. r.code = "ok" /\ promise'[r.sess] = "ok" /\ session' = r.sess
  <2>1. CASE promise' = [promise EXCEPT ![r.sess] = "failed"] /\ UNCHANGED <<session, handshake>>
    BY <1>1, <1>2, <2>1 DEF Wedged, Inv, Types, NumbersOK
  <2> QED BY <1>1, <2>1 DEF HandshakeReturns, Inv, Types, NumbersOK
<1>4. Failed' = Failed  BY <1>1 DEF Failed
<1>5. Lost' => Lost  BY <1>1 DEF Lost
<1>6. Current = r.sess /\ Current' = r.sess  BY <1>2, <1>3 DEF Current
<1>7. Healthy(r.sess) => Healthy(r.sess)'
  <2> SUFFICES ASSUME Healthy(r.sess) PROVE Paced(r.sess)'  BY <1>3 DEF Healthy
  <2>1. r.sess \in live
    BY <1>1, <1>3 DEF Healthy, One, StartsOne
  <2>2. Fresh(r.sess)  BY <1>1 DEF One, FreshOne
  <2>3. \A m \in wire : ~Of(m, r.sess)  BY <1>1, NotPending DEF Of, IsRequest
  <2>4. \A q \in back : ~Of(q, r.sess)
    <3> SUFFICES ASSUME NEW q \in back, Of(q, r.sess) PROVE FALSE  OBVIOUS
    <3>1. q.from \in Caller /\ call[q.from].pc = "request" /\ call[q.from].sess = r.sess
      BY DEF Inv, Types, MessagesOK, Response, ResponsesOK, Of, IsRequest
    <3> QED BY <1>2, <3>1 DEF One, CallsOne
  <2> QED BY <1>1, <2>1, <2>2, <2>3, <2>4
     DEF Paced, AtRest, Fresh, numbers, backend
<1>8. Ill' => Ill  BY <1>6, <1>7 DEF Ill
<1> QED BY <1>1, <1>4, <1>5, <1>8, NoWorse DEF bounds

(* The answer to the one call under way is the only one. *)
LEMMA OnlyAnswer ==
  ASSUME Inv, One, NEW r \in back, IsRequest(r)
  PROVE  /\ r.from \in Caller /\ r.sess \in Session
         /\ call[r.from].pc = "request"
         /\ session = r.sess /\ promise[r.sess] = "ok"
         /\ Current = r.sess /\ Current # NoSession
         /\ \A q \in back : IsRequest(q) => q = r
<1>1. \A q \in back : IsRequest(q) =>
        /\ q.from \in Caller /\ q.sess \in Session
        /\ call[q.from].pc = "request" /\ call[q.from].sess = q.sess
  BY DEF Inv, Types, MessagesOK, Response, ResponsesOK, IsRequest
<1>2. \A q \in back : IsRequest(q) => UnderWay(q.from) /\ q.sess = session
  BY <1>1 DEF One, CallsOne, UnderWay, Settled
<1>3. \A q \in back : IsRequest(q) => q.from = r.from /\ q.sess = r.sess
  BY <1>1, <1>2 DEF One, CallsOne
<1>4. \A q \in back : IsRequest(q) => q = r  BY <1>3 DEF Inv, ResponsesOK
<1> QED BY <1>1, <1>2, <1>4 DEF One, HandshakesOne, Current, Session, NoSession

LEMMA HealthyAnswer ==
  ASSUME Inv, One, NEW r \in back, IsRequest(r), ~Ill
  PROVE  Answered(r.sess) /\ r.sess \in live /\ r.code = "ok" /\ r.seq = recvs[r.sess]
<1>1. Paced(r.sess) /\ Of(r, r.sess)
  BY OnlyAnswer DEF Ill, Healthy, Of, IsRequest
<1>2. Answered(r.sess)  BY <1>1 DEF Paced, AtRest, Asked
<1> QED BY <1>1, <1>2 DEF Answered, Paced

LEMMA ChargeSucceed ==
  ASSUME Inv, One, Charged, NEW r \in back, Succeed(r)
  PROVE  Charged'
<1>1. /\ IsRequest(r) /\ back' = back \ {r} /\ Settle(r.from, "ok")
      /\ recvs' = [recvs EXCEPT ![r.sess] = @ + 1]
      /\ UNCHANGED <<page, promise, sends, wire, backend, bounds>>
  BY DEF Succeed, Arrives, IsRequest
<1>2. /\ r.from \in Caller /\ r.sess \in Session /\ call[r.from].pc = "request"
      /\ promise[r.sess] = "ok" /\ Current = r.sess
      /\ \A q \in back : IsRequest(q) => q = r
  BY <1>1, OnlyAnswer
<1>3. Others(r.from) /\ call'[r.from].pc = "ok"
  BY <1>1, <1>2, SettleCall DEF Inv, Types, PC, InSession
<1>4. Failed' = Failed  BY <1>2, <1>3, FailedSame
<1>5. ~Lost'  BY <1>1, <1>2 DEF Lost
<1>6. Ill' => Ill
  <2> SUFFICES ASSUME ~Ill PROVE ~Ill'  OBVIOUS
  <2>1. Answered(r.sess) /\ r.sess \in live  BY <1>1, HealthyAnswer
  <2>2. \A q \in back' : ~Of(q, r.sess)  BY <1>1, <1>2 DEF Of, IsRequest
  <2>3. recvs'[r.sess] = recvs[r.sess] + 1  BY <1>1, <1>2 DEF Inv, Types, NumbersOK
  <2>4. AtRest(r.sess)'  BY <1>1, <2>1, <2>2, <2>3 DEF Answered, AtRest, Of, backend
  <2>5. Paced(r.sess)'  BY <1>1, <2>1, <2>4 DEF Paced, backend
  <2>6. Current' = r.sess /\ promise'[r.sess] = "ok"  BY <1>1, <1>2 DEF Current, page
  <2> QED BY <2>5, <2>6 DEF Ill, Healthy
<1> QED BY <1>1, <1>4, <1>5, <1>6, NoWorse DEF bounds

LEMMA ChargeTooOld ==
  ASSUME Inv, One, Charged, NEW r \in back, TooOld(r)
  PROVE  Charged'
<1>1. /\ IsRequest(r) /\ back' = back \ {r} /\ Settle(r.from, "failed")
      /\ faults' = faults + 1 /\ restarts' = restarts
  BY DEF TooOld, Arrives, IsRequest
<1>2. /\ r.from \in Caller /\ call[r.from].pc = "request"
      /\ \A q \in back : IsRequest(q) => q = r
  BY <1>1, OnlyAnswer
<1>3. Others(r.from) /\ call'[r.from].pc = "failed"
  BY <1>1, <1>2, SettleCall DEF Inv, Types, PC, InSession
<1>4. Cardinality(Failed') = Cardinality(Failed) + 1  BY <1>2, <1>3, FailedOne
<1>5. ~Lost'  BY <1>1, <1>2 DEF Lost
<1> QED BY <1>1, <1>4, <1>5, Counts, OneMore

LEMMA ChargeRefused ==
  ASSUME Inv, One, Charged, NEW r \in back, Refused(r)
  PROVE  Charged'
<1>1. /\ IsRequest(r) /\ back' = back \ {r} /\ Settle(r.from, "failed") /\ Clear
      /\ (r.code = "refused" \/ r.seq # recvs[r.sess])
      /\ faults' = faults /\ restarts' = restarts
  BY DEF Refused, Arrives, IsRequest, bounds
<1>2. /\ r.from \in Caller /\ call[r.from].pc = "request"
      /\ \A q \in back : IsRequest(q) => q = r
  BY <1>1, OnlyAnswer
<1>3. Others(r.from) /\ call'[r.from].pc = "failed"
  BY <1>1, <1>2, SettleCall DEF Inv, Types, PC, InSession
<1>4. Cardinality(Failed') = Cardinality(Failed) + 1  BY <1>2, <1>3, FailedOne
<1>5. ~Lost'  BY <1>1, <1>2 DEF Lost
<1>6. ~Ill'  BY <1>1 DEF Ill, Current, Clear
<1>7. Ill  BY <1>1, HealthyAnswer
<1>8. Risk' = 0 /\ Risk >= 1 /\ Risk \in Nat
  BY <1>5, <1>6, <1>7, RiskRange, RiskRangeNext
<1> QED BY <1>1, <1>4, <1>8, FailedCount, Counts DEF Charged

LEMMA ChargeBroken ==
  ASSUME Inv, One, Charged, NEW r \in back, Broken(r)
  PROVE  Charged'
<1>1. /\ IsRequest(r) /\ back' = back \ {r} /\ Settle(r.from, "failed")
      /\ r.code = "error" /\ faults' = faults /\ restarts' = restarts
  BY DEF Broken, Arrives, IsRequest, bounds
<1>2. /\ r.from \in Caller /\ call[r.from].pc = "request"
      /\ \A q \in back : IsRequest(q) => q = r
  BY <1>1, OnlyAnswer
<1>3. Others(r.from) /\ call'[r.from].pc = "failed"
  BY <1>1, <1>2, SettleCall DEF Inv, Types, PC, InSession
<1>4. Cardinality(Failed') = Cardinality(Failed) + 1  BY <1>2, <1>3, FailedOne
<1>5. ~Lost' /\ Lost  BY <1>1, <1>2 DEF Lost
<1>6. Risk' <= 1 /\ Risk = 2 /\ Risk' \in Nat  BY <1>5, RiskRange, RiskRangeNext
<1> QED BY <1>1, <1>4, <1>6, FailedCount, Counts DEF Charged

LEMMA ChargeServe ==
  ASSUME Inv, One, Charged, NEW m \in wire, Serve(m)
  PROVE  Charged'
<1> USE DEF page, numbers, backend, bounds
<1>1. /\ m \in Message /\ m.sess \in Session /\ wire \subseteq Message
      /\ back \subseteq Response
  BY DEF Inv, Types, MessagesOK, Message
<1>2. IsRequest(m) => promise[m.sess] # "pending" /\ replies[m.sess] \in Nat
  BY <1>1, NotPending DEF Inv, Types, NumbersOK
<1>3. PICK code \in {"ok", "refused"}, seq \in Nat : Respond(m, code, seq)
  BY <1>2 DEF Serve, ServeStart, ServeRequest, ServeOutOfStep, InStep, IsRequest
<1>4. PICK r : r = ResponseTo(m, code, seq)  OBVIOUS
<1>5. r.from = m.from /\ r.sess = m.sess /\ r.code = code /\ r.seq = seq
      /\ \A s : Of(r, s) <=> Of(m, s)
  BY <1>1, <1>4, ResponseFields DEF Of
<1>6. /\ wire' = wire \ {m} /\ back' = IF Awaited(m) THEN back \cup {r} ELSE back
      /\ UNCHANGED <<page, call, promise, numbers, logouts, restarts, faults>>
  BY <1>3, <1>4 DEF Respond, Serve, ServeStart, ServeRequest, ServeOutOfStep
<1>7. Failed' = Failed  BY <1>6 DEF Failed
<1>8. Lost' => Lost  BY <1>5, <1>6 DEF Lost, IsRequest
<1>9. Current' = Current  BY <1>6 DEF Current
<1>10. ASSUME NEW s \in Session, Healthy(s), ~Of(m, s)
       PROVE  Healthy(s)'
  <2>1. \A n \in wire \cup wire' : Of(n, s) => n \in wire /\ n \in wire'  BY <1>6, <1>10
  <2>2. \A q \in back \cup back' : Of(q, s) => q \in back /\ q \in back'
    BY <1>5, <1>6, <1>10
  <2>3. s \in live => s \in live'
    BY DEF Serve, ServeStart, ServeRequest, ServeOutOfStep
  <2>4. \A n \in wire : ~IsRequest(n) /\ n.sess = s => n \in wire' \/ s \in live'
    BY <1>6 DEF Serve, ServeStart, ServeRequest, ServeOutOfStep, IsRequest, InStep
  <2>5. expects'[s] = expects[s] /\ replies'[s] = replies[s]
    BY <1>1, <1>10
       DEF Serve, ServeStart, ServeRequest, ServeOutOfStep, Of, InStep, Inv, Types, NumbersOK
  <2> QED BY <1>6, <1>10, <2>1, <2>2, <2>3, <2>4, <2>5, HealthyFrame
<1>11. ASSUME NEW s \in Session, Healthy(s), Of(m, s)
       PROVE  Healthy(s)'
  <2>1. IsRequest(m) /\ m.sess = s  BY <1>11 DEF Of, IsRequest
  <2>2. Paced(s)  BY <1>2, <1>11, <2>1 DEF Healthy
  <2>3. Asked(s)  BY <1>11, <2>2 DEF Paced, AtRest, Answered
  <2>4. m.seq = expects[s] /\ call[m.from].pc = "request"
        /\ \A n \in wire : Of(n, s) => n = m
    BY <1>11, <2>3 DEF Asked
  <2>5. Awaited(m)
    <3>1. \A q \in back : ~(q.from = m.from /\ q.sess = m.sess)
      BY <2>1, <2>3 DEF Asked, Of, IsRequest
    <3>2. \A q \in back : <<q.from, q.sess>> # <<m.from, m.sess>>  BY <3>1
    <3> QED BY <2>1, <2>4, <3>2 DEF Awaited, IsRequest
  <2>6. ServeRequest(m)
    BY <2>1, <2>2, <2>4 DEF Serve, ServeStart, ServeOutOfStep, InStep, IsRequest, Paced
  <2>7. /\ expects'[s] = expects[s] + 1 /\ replies'[s] = replies[s] + 1 /\ live' = live
    BY <1>1, <2>1, <2>6 DEF ServeRequest, Inv, Types, NumbersOK
  <2>8. r.code = "ok" /\ r.seq = replies[s] /\ r \in back'
    <3>1. PICK q : q = ResponseTo(m, "ok", replies[s])  OBVIOUS
    <3>2. q.code = "ok" /\ q.seq = replies[s] /\ q.from = m.from /\ q.sess = m.sess
      BY <1>1, <1>2, <2>1, <3>1, ResponseFields
    <3>3. back' = back \cup {q}  BY <2>1, <2>5, <2>6, <3>1 DEF ServeRequest, Respond
    <3>4. q \notin back  BY <2>3, <1>11, <3>2 DEF Asked, Of
    <3>5. q = r  BY <1>6, <2>5, <3>3, <3>4
    <3> QED BY <3>2, <3>3, <3>5
  <2>9. Answered(s)'
    <3>1. \A n \in wire' : ~Of(n, s)  BY <1>6, <2>4
    <3>2. Of(r, s) /\ \A q \in back' : Of(q, s) => q = r
      BY <1>5, <1>6, <1>11, <2>3, <2>5 DEF Asked
    <3>3. sends[s] = expects'[s] /\ replies'[s] = recvs[s] + 1 /\ r.seq = recvs[s]
      BY <2>3, <2>7, <2>8 DEF Asked
    <3> QED BY <1>6, <2>8, <3>1, <3>2, <3>3 DEF Answered, Of
  <2>10. Paced(s)'  BY <2>2, <2>7, <2>9 DEF Paced
  <2> QED BY <1>2, <1>6, <2>1, <2>10 DEF Healthy
<1>12. Ill' => Ill  BY <1>9, <1>10, <1>11, CurrentSession DEF Ill
<1> QED BY <1>6, <1>7, <1>8, <1>12, NoWorse

LEMMA ChargeFault ==
  ASSUME Inv, Charged,
         \/ Restart
         \/ \E c \in Caller : ConfigCut(c)
         \/ \E r \in back : LoseResponse(r)
         \/ \E m \in wire : Refuse(m) \/ \E code \in {"refused", "error"} : GiveUp(m, code)
  PROVE  Charged'
<1>1. call' = call
  BY DEF Restart, ConfigCut, LoseResponse, Refuse, GiveUp, Respond
<1>2. faults' + restarts' = faults + restarts + 1
  BY Counts DEF Restart, ConfigCut, LoseResponse, Refuse, GiveUp, Respond
<1>3. Failed' = Failed  BY <1>1 DEF Failed
<1> QED BY <1>2, <1>3, OneMore

LEMMA WedgedStays ==
  ASSUME Inv, One, ConfigOne, Wedged, [Next]_vars, ~Logout
  PROVE  Wedged'
<1>1. \A c \in Caller : call[c].pc # "request"
  BY DEF Wedged, One, HandshakesOne, ConfigOne, UnderWay, Settled
<1>2. \A r \in back : ~IsRequest(r)  BY <1>1, OnlyAnswer
<1>3. CASE config # None /\ body[config] = "failed"
  <2>1. \A c \in Caller : UnderWay(c) => call[c].pc = "body"  BY <1>3 DEF ConfigOne
  <2>2. ASSUME UNCHANGED <<config, body>> PROVE Wedged'  BY <1>3, <2>2 DEF Wedged
  <2>3. ASSUME NEW c \in Caller, CallStep(c) PROVE Wedged'
    <3>1. CASE ConfigRead(c) \/ ConfigCut(c)
      <4>1. config' = config /\ body[c] = "pending" /\ \A d \in Caller : d # c => body'[d] = body[d]
        BY <3>1 DEF ConfigRead, ConfigCut, Inv, Types, PageOK
      <4> QED BY <1>3, <4>1 DEF Wedged, Inv, Types, PageOK
    <3>2. CASE Begin(c) \/ Configured(c)
      <4>1. UNCHANGED <<config, body>>  BY <3>2 DEF Begin, Configured, page
      <4> QED BY <2>2, <4>1
    <3>3. ~(NotConfigured(c) \/ ConfigAnswered(c) \/ Run(c) \/ Resume(c))
      BY <2>1 DEF NotConfigured, ConfigAnswered, Run, Resume, MayRun, MayResume, UnderWay, Settled
    <3> QED BY <2>3, <3>1, <3>2, <3>3 DEF CallStep
  <2>4. ASSUME NEW r \in back,
               \/ HandshakeReturns(r) \/ Succeed(r) \/ Refused(r) \/ Broken(r)
               \/ TooOld(r) \/ LoseResponse(r)
        PROVE  UNCHANGED <<config, body>>
    BY <1>2, <2>4
       DEF HandshakeReturns, Succeed, Refused, Broken, TooOld, LoseResponse, IsRequest, page
  <2>5. ASSUME NEW m \in wire,
               Serve(m) \/ Refuse(m) \/ \E code \in {"refused", "error"} : GiveUp(m, code)
        PROVE  UNCHANGED <<config, body>>
    BY <2>5 DEF Serve, ServeStart, ServeRequest, ServeOutOfStep, Refuse, GiveUp, Respond, page
  <2>6. Restart => UNCHANGED <<config, body>>  BY DEF Restart, page
  <2>7. UNCHANGED vars => UNCHANGED <<config, body>>  BY DEF vars, page
  <2> QED BY <2>2, <2>3, <2>4, <2>5, <2>6, <2>7 DEF Next, Microtask, Event, Fault, CallStep
<1>4. CASE handshake # NoSession /\ promise[handshake] = "failed"
  <2>1. ASSUME UNCHANGED <<handshake, promise>> PROVE Wedged'  BY <1>4, <2>1 DEF Wedged
  <2>2. ASSUME NEW c \in Caller, CallStep(c) PROVE UNCHANGED <<handshake, promise>>
    <3>1. CASE Run(c)  BY <1>4, <3>1 DEF Run, AwaitHandshake
    <3>2. CASE ~Run(c)
      BY <2>2, <3>2
         DEF CallStep, Begin, NotConfigured, ConfigAnswered, ConfigRead, ConfigCut, Configured,
             Resume, page
    <3> QED BY <3>1, <3>2
  <2>3. ASSUME NEW r \in back,
               \/ HandshakeReturns(r) \/ Succeed(r) \/ Refused(r) \/ Broken(r)
               \/ TooOld(r) \/ LoseResponse(r)
        PROVE  UNCHANGED <<handshake, promise>>
    <3>1. ~HandshakeReturns(r)
      <4>1. ~IsRequest(r) => r.sess \in Session /\ promise[r.sess] = "pending"
        BY DEF Inv, Types, MessagesOK, Response, ResponsesOK
      <4>2. IsRequest(r) \/ handshake = r.sess  BY <4>1 DEF One, HandshakesOne
      <4> QED BY <1>4, <4>1, <4>2 DEF HandshakeReturns, IsRequest
    <3> QED BY <1>2, <2>3, <3>1
       DEF Succeed, Refused, Broken, TooOld, LoseResponse, IsRequest, page
  <2>4. ASSUME NEW m \in wire,
               Serve(m) \/ Refuse(m) \/ \E code \in {"refused", "error"} : GiveUp(m, code)
        PROVE  UNCHANGED <<handshake, promise>>
    BY <2>4 DEF Serve, ServeStart, ServeRequest, ServeOutOfStep, Refuse, GiveUp, Respond, page
  <2>5. Restart => UNCHANGED <<handshake, promise>>  BY DEF Restart, page
  <2>6. UNCHANGED vars => UNCHANGED <<handshake, promise>>  BY DEF vars, page
  <2> QED BY <2>1, <2>2, <2>3, <2>4, <2>5, <2>6 DEF Next, Microtask, Event, Fault, CallStep
<1> QED BY <1>3, <1>4 DEF Wedged

LEMMA ChargeStutter == ASSUME Charged, UNCHANGED vars PROVE Charged'
<1> QED BY ChargeFrame DEF vars, page, bounds

LEMMA InitCharge == Init => ChargeInv
<1> SUFFICES ASSUME Init PROVE Charged  BY DEF ChargeInv
<1>1. Failed = {}  BY DEF Init, New, Failed
<1>2. Risk = 0  BY DEF Init, Risk, Lost, Ill, Current
<1>3. Cardinality({}) = 0  BY FS_EmptySet
<1> QED BY <1>1, <1>2, <1>3 DEF Charged, Init

LEMMA NextCharge == Inv /\ OneInv /\ ChargeInv /\ [Next]_vars => ChargeInv'
<1> SUFFICES ASSUME Inv, OneInv, ChargeInv, [Next]_vars, OneAtATime', ~Wedged'
             PROVE  Charged'
  BY DEF ChargeInv
<1>1. OneAtATime /\ One /\ ConfigOne /\ ~Logout  BY WasOneAtATime DEF OneInv
<1>2. ~Wedged /\ Charged  BY <1>1, WedgedStays DEF ChargeInv
<1>3. ASSUME NEW c \in Caller, CallStep(c) PROVE Charged'
  BY <1>1, <1>2, <1>3, ChargeBegin, ChargeNotConfigured, ChargeConfigRead, ChargeFault,
     ChargeConfigured, ChargeRun, ChargeResume
     DEF CallStep
<1>4. ASSUME NEW r \in back,
             \/ HandshakeReturns(r) \/ Succeed(r) \/ Refused(r) \/ Broken(r)
             \/ TooOld(r) \/ LoseResponse(r)
      PROVE  Charged'
  BY <1>1, <1>2, <1>4, ChargeHandshake, ChargeSucceed, ChargeRefused, ChargeBroken,
     ChargeTooOld, ChargeFault
<1>5. ASSUME NEW m \in wire,
             Serve(m) \/ Refuse(m) \/ \E code \in {"refused", "error"} : GiveUp(m, code)
      PROVE  Charged'
  BY <1>1, <1>2, <1>5, ChargeServe, ChargeFault
<1>6. CASE UNCHANGED vars  BY <1>2, <1>6, ChargeStutter
<1>7. CASE Restart  BY <1>2, <1>7, ChargeFault
<1> QED BY <1>1, <1>3, <1>4, <1>5, <1>6, <1>7 DEF Next, Microtask, Event, Fault, CallStep

LEMMA ChargeHolds == Spec => []ChargeInv
<1> QED BY InvHolds, OneHolds, InitCharge, NextCharge, PTL DEF Spec

(* Of calls made one at a time a fault fails two at most                   *)
(* (secure-fetch.ts:127-136), unless the promise of a handshake or of a    *)
(* configuration was rejected and is kept (secure-fetch.ts:84, 157).       *)
THEOREM FailuresBoundedHolds == Spec => []FailuresBounded
<1>1. Inv /\ ChargeInv => FailuresBounded
  BY RiskRange, FailedCount, Counts DEF ChargeInv, Charged, FailuresBounded, OneAtATime
<1> QED BY <1>1, InvHolds, ChargeHolds, PTL
=============================================================================
