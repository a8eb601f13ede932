------------------------- MODULE SecureSession_proofs -------------------------
(***************************************************************************)
(* Proofs about SecureSession, for any number of threads, calls, sessions, *)
(* faults and restarts, of the backend's kind and of the agent's.          *)
(*                                                                         *)
(* Inv: types, and no sequence number is used twice, since whoever has     *)
(* allocated one holds the session's lock until it has been advanced.      *)
(* OnceInv: only a call none of whose requests was dispatched sends.       *)
(* BirthInv: a session in the making is known to its maker alone.          *)
(* StoredInv: a stored session is in step, forgotten, or about to go.      *)
(* Charged: failures are paid for by faults and restarts in advance.       *)
(* ToldInv: a request is open exactly while its call is under way; with    *)
(* OnceInv, each step is one of RequestChannel or none that callers see.   *)
(***************************************************************************)
EXTENDS SecureSession, SequenceTheorems, FiniteSetTheorems, TLAPS

Allocated == {"send", "wait"}

(* Locks, numbers and requests under way *)
SeqInv ==
  /\ \A c \in Caller : call[c].pc \in Allocated => holder[call[c].sess] = c
  /\ \A c \in Caller : call[c].pc = "send" => call[c].seq = sends[call[c].sess]
  /\ \A m \in wire : m.kind = "request" => m.seq < sends[m.sess]
  /\ NoSeqReuse

InSession == {"start", "finish", "lock", "send", "wait"}

CallOK(r) == r \in Call /\ (r.pc \in InSession => r.sess \in Session)

(* TypeOK, by the actors that change its parts *)
CallsOK == call \in [Caller -> Call] /\ \A c \in Caller : CallOK(call[c])

ClientOK ==
  /\ store \in Seq(Session)
  /\ creator \in Caller \cup {None}
  /\ holder \in [Session -> Caller \cup {None}]
  /\ sends \in [Session -> Nat] /\ recvs \in [Session -> Nat]
  /\ answer \in [Caller -> [code : Code, seq : Nat]]
  /\ outcome \in [Request -> {"none", "ok", "failed"}]
  /\ made \in 0..MaxSession

ServerOK ==
  /\ expects \in [Session -> Nat] /\ replies \in [Session -> Nat]
  /\ pending \subseteq Session
  /\ live \subseteq Session
  /\ executed \in [Request -> Nat]

CountsOK == faults \in 0..MaxFault /\ restarts \in 0..MaxRestart

LEMMA Parts ==
  TypeOK <=> CallsOK /\ ClientOK /\ ServerOK /\ CountsOK /\ wire \subseteq Message
<1>1. CallsOK <=> /\ call \in [Caller -> Call]
                  /\ \A c \in Caller : call[c].pc \in InSession => call[c].sess \in Session
  BY DEF CallsOK, CallOK
<1> QED BY <1>1 DEF TypeOK, ClientOK, ServerOK, CountsOK, InSession

Inv == CallsOK /\ ClientOK /\ ServerOK /\ CountsOK /\ wire \subseteq Message /\ SeqInv

LEMMA Bounds ==
  /\ MaxCall \in Nat /\ MaxSession \in Nat /\ MaxFault \in Nat /\ MaxRestart \in Nat
  /\ None \notin Caller
  BY SecureSessionAssumption

-----------------------------------------------------------------------------
(* Calls *)

LEMMA RestingOK ==
  \A k \in 0..MaxCall : /\ CallOK(Resting(k)) /\ Resting(k).pc = "idle"
                        /\ Resting(k).k = k /\ Resting(k).attempt = 0
                        /\ Resting(k).sess = NoSession
  BY DEF CallOK, Resting, Call, PC, InSession

LEMMA MovedOK ==
  ASSUME NEW r, CallOK(r), NEW pc \in PC, r.sess \in Session \/ pc \notin InSession
  PROVE  LET q == [r EXCEPT !.pc = pc] IN
         CallOK(q) /\ q.pc = pc /\ q.k = r.k /\ q.sess = r.sess /\ q.attempt = r.attempt
<1> DEFINE q == [r EXCEPT !.pc = pc]
<1>1. q \in Call
  BY DEF CallOK, Call
<1>2. q.pc = pc /\ q.k = r.k /\ q.sess = r.sess /\ q.attempt = r.attempt
  BY DEF CallOK, Call
<1> HIDE DEF q
<1> QED BY <1>1, <1>2 DEF CallOK, q

Joined(r, pc, s) == [r EXCEPT !.pc = pc, !.sess = s]

LEMMA JoinedOK ==
  ASSUME NEW r, CallOK(r), NEW pc \in PC, NEW s \in Session
  PROVE  LET q == Joined(r, pc, s) IN
         CallOK(q) /\ q.pc = pc /\ q.k = r.k /\ q.sess = s /\ q.attempt = r.attempt
<1> DEFINE q == Joined(r, pc, s)
<1>1. q \in Call
  BY DEF CallOK, Call, Joined
<1>2. q.pc = pc /\ q.k = r.k /\ q.sess = s /\ q.attempt = r.attempt
  BY DEF CallOK, Call, Joined
<1> HIDE DEF q
<1> QED BY <1>1, <1>2 DEF CallOK, q

Diagnosed(r, pc, s, a) == [r EXCEPT !.pc = pc, !.sess = s, !.attempt = a]

LEMMA DiagnosedOK ==
  ASSUME NEW r, CallOK(r), NEW pc \in PC, NEW s \in Session, NEW a \in 0..2
  PROVE  LET q == Diagnosed(r, pc, s, a) IN
         CallOK(q) /\ q.pc = pc /\ q.k = r.k /\ q.sess = s /\ q.attempt = a
<1> DEFINE q == Diagnosed(r, pc, s, a)
<1>1. q \in Call
  BY DEF CallOK, Call, Diagnosed
<1>2. q.pc = pc /\ q.k = r.k /\ q.sess = s /\ q.attempt = a
  BY DEF CallOK, Call, Diagnosed
<1> HIDE DEF q
<1> QED BY <1>1, <1>2 DEF CallOK, q

Numbered(r, pc, n) == [r EXCEPT !.pc = pc, !.seq = n]

LEMMA NumberedOK ==
  ASSUME NEW r, CallOK(r), r.sess \in Session, NEW pc \in PC, NEW n \in Nat
  PROVE  LET q == Numbered(r, pc, n) IN
         CallOK(q) /\ q.pc = pc /\ q.k = r.k /\ q.sess = r.sess /\ q.attempt = r.attempt /\ q.seq = n
<1> DEFINE q == Numbered(r, pc, n)
<1>1. q \in Call
  BY DEF CallOK, Call, Numbered
<1>2. q.pc = pc /\ q.k = r.k /\ q.sess = r.sess /\ q.attempt = r.attempt /\ q.seq = n
  BY DEF CallOK, Call, Numbered
<1> HIDE DEF q
<1> QED BY <1>1, <1>2 DEF CallOK, q

Attempted(r, pc, a) == [r EXCEPT !.pc = pc, !.attempt = a]

LEMMA AttemptedOK ==
  ASSUME NEW r, CallOK(r), NEW pc \in PC, pc \notin InSession, NEW a \in 0..2
  PROVE  LET q == Attempted(r, pc, a) IN
         CallOK(q) /\ q.pc = pc /\ q.k = r.k /\ q.sess = r.sess /\ q.attempt = a
<1> DEFINE q == Attempted(r, pc, a)
<1>1. q \in Call
  BY DEF CallOK, Call, Attempted
<1>2. q.pc = pc /\ q.k = r.k /\ q.sess = r.sess /\ q.attempt = a
  BY DEF CallOK, Call, Attempted
<1> HIDE DEF q
<1> QED BY <1>1, <1>2 DEF CallOK, q

Picking(k, a) == Attempted(Resting(k), "pick", a)

LEMMA PickingOK ==
  ASSUME NEW k \in 0..MaxCall, NEW a \in 1..2
  PROVE  LET q == Picking(k, a) IN CallOK(q) /\ q.pc = "pick" /\ q.k = k /\ q.attempt = a
<1>1. "pick" \in PC /\ "pick" \notin InSession /\ a \in 0..2
  BY DEF PC, InSession
<1> DEFINE r == Resting(k)
<1>2. CallOK(r) /\ r.k = k
  BY RestingOK
<1> HIDE DEF r
<1>3. LET q == Attempted(r, "pick", a) IN CallOK(q) /\ q.pc = "pick" /\ q.k = k /\ q.attempt = a
  BY <1>1, <1>2, AttemptedOK
<1> QED BY <1>3 DEF Picking, r

LEMMA CallStep ==
  ASSUME CallsOK, NEW c \in Caller, NEW r, CallOK(r), call' = [call EXCEPT ![c] = r]
  PROVE  CallsOK' /\ \A d \in Caller : call'[d] = IF d = c THEN r ELSE call[d]
<1>1. r \in Call
  BY DEF CallOK
<1>2. \A d \in Caller : call'[d] = IF d = c THEN r ELSE call[d]
  BY <1>1 DEF CallsOK
<1>3. call' \in [Caller -> Call]
  BY <1>1 DEF CallsOK
<1>4. \A d \in Caller : CallOK(call'[d])
  BY <1>2 DEF CallsOK
<1> QED BY <1>2, <1>3, <1>4 DEF CallsOK, CallOK, InSession, Call, PC, Session, NoSession

(* A step of a thread that allocates no number and sends no request; it    *)
(* may release what it holds, if it is on its way out.                     *)
LEMMA SeqFrame ==
  ASSUME Inv, NEW c \in Caller, NEW r, CallOK(r), call' = [call EXCEPT ![c] = r],
         r.pc \notin Allocated, sends' = sends,
         \A s \in Session : holder'[s] = holder[s] \/ holder[s] = c,
         \A m \in wire' : m \in wire \/ m.kind # "request"
  PROVE  CallsOK' /\ SeqInv'
<1>1. CallsOK' /\ \A d \in Caller : call'[d] = IF d = c THEN r ELSE call[d]
  BY CallStep DEF Inv
<1>2. ASSUME NEW d \in Caller, call'[d].pc \in Allocated
      PROVE  /\ d # c /\ call'[d] = call[d] /\ call[d].sess \in Session
             /\ holder[call[d].sess] = d
  BY <1>1, <1>2 DEF Inv, SeqInv, CallsOK, CallOK, Allocated, InSession
<1>3. \A d \in Caller : call'[d].pc \in Allocated => holder'[call'[d].sess] = d
  BY <1>2
<1>4. \A d \in Caller : call'[d].pc = "send" => call'[d].seq = sends'[call'[d].sess]
  BY <1>2 DEF Inv, SeqInv, Allocated
<1>5. \A m \in wire' : m.kind = "request" => m \in wire /\ m.seq < sends'[m.sess]
  BY DEF Inv, SeqInv
<1>6. NoSeqReuse'
  BY <1>5 DEF Inv, SeqInv, NoSeqReuse
<1> QED BY <1>1, <1>3, <1>4, <1>5, <1>6 DEF SeqInv

(* A step of the server, or of nobody *)
LEMMA ServerFrame ==
  ASSUME Inv, UNCHANGED <<call, sends, holder>>, wire' \subseteq wire
  PROVE  CallsOK' /\ SeqInv' /\ wire' \subseteq Message
  BY DEF Inv, CallsOK, CallOK, SeqInv, NoSeqReuse

LEMMA UnlockOK ==
  ASSUME Inv, NEW c \in Caller, Unlock(c)
  PROVE  /\ creator' \in Caller \cup {None}
         /\ holder' \in [Session -> Caller \cup {None}]
         /\ \A s \in Session : holder'[s] = holder[s] \/ holder[s] = c
  BY DEF Inv, ClientOK, Unlock

LEMMA NoAnswerOK ==
  /\ NoAnswer \in [code : Code, seq : Nat]
  /\ [NoAnswer EXCEPT !.code = "bad"] \in [code : Code, seq : Nat]
  /\ \A code \in Code, n \in Nat : [code |-> code, seq |-> n] \in [code : Code, seq : Nat]
  BY DEF NoAnswer, Code

(* What a failing call does to its thread *)
LEMMA FailOK ==
  ASSUME Inv, NEW c \in Caller, NEW code, Fail(c, code),
         UNCHANGED <<store, sends, recvs, made, wire>>
  PROVE  CallsOK' /\ SeqInv' /\ ClientOK' /\ wire' \subseteq Message
<1>1. call \in [Caller -> Call] /\ CallOK(call[c]) /\ call[c].k \in 0..MaxCall
  BY DEF Inv, CallsOK, Call
<1>2. PICK r : CallOK(r) /\ r.pc \notin Allocated /\ call' = [call EXCEPT ![c] = r]
  <2>1. CASE call' = [call EXCEPT ![c] = Resting(@.k)]
    <3>1. call' = [call EXCEPT ![c] = Resting(call[c].k)]
      BY <2>1, <1>1
    <3>2. CallOK(Resting(call[c].k)) /\ Resting(call[c].k).pc \notin Allocated
      BY <1>1, RestingOK DEF Allocated
    <3> QED BY <3>1, <3>2
  <2>2. ASSUME NEW pc \in {"retry", "discard"}, call' = [call EXCEPT ![c].pc = pc]
        PROVE  \E r : CallOK(r) /\ r.pc \notin Allocated /\ call' = [call EXCEPT ![c] = r]
    <3> DEFINE r == [call[c] EXCEPT !.pc = pc]
    <3>1. CallOK(r)
      BY <1>1, MovedOK DEF PC, InSession
    <3>2. r.pc = pc
      BY <1>1 DEF Call
    <3>3. call' = [call EXCEPT ![c] = r]
      BY <1>1, <2>2
    <3> HIDE DEF r
    <3> QED BY <3>1, <3>2, <3>3 DEF Allocated
  <2>3. \/ call' = [call EXCEPT ![c] = Resting(@.k)]
        \/ call' = [call EXCEPT ![c].pc = IF code = "missing" THEN "retry" ELSE "discard"]
        \/ call' = [call EXCEPT ![c].pc = "discard"]
    BY DEF Fail
  <2>4. \/ call' = [call EXCEPT ![c] = Resting(@.k)]
        \/ call' = [call EXCEPT ![c].pc = "retry"]
        \/ call' = [call EXCEPT ![c].pc = "discard"]
    BY <2>3
  <2> QED BY <2>1, <2>2, <2>4
<1>3. Unlock(c) /\ answer' = [answer EXCEPT ![c] = NoAnswer]
  BY DEF Fail
<1>4. /\ creator' \in Caller \cup {None}
      /\ holder' \in [Session -> Caller \cup {None}]
      /\ \A s \in Session : holder'[s] = holder[s] \/ holder[s] = c
  BY <1>3, UnlockOK
<1>5. CallsOK' /\ SeqInv'
  BY <1>2, <1>4, SeqFrame
<1>6. answer' \in [Caller -> [code : Code, seq : Nat]]
  BY <1>3, NoAnswerOK DEF Inv, ClientOK
<1>7. outcome' \in [Request -> {"none", "ok", "failed"}]
  <2>1. outcome' = outcome \/ outcome' = [outcome EXCEPT ![<<c, call[c].k>>] = "failed"]
    BY DEF Fail
  <2> QED BY <2>1 DEF Inv, ClientOK
<1>8. ClientOK'
  BY <1>4, <1>6, <1>7 DEF Inv, ClientOK
<1> QED BY <1>5, <1>8 DEF Inv

-----------------------------------------------------------------------------
(* The client's actions *)

(* A thread goes on without a lock or a message *)
LEMMA QuietStep ==
  ASSUME Inv, NEW c \in Caller, NEW r, CallOK(r), call' = [call EXCEPT ![c] = r],
         r.pc \notin Allocated,
         UNCHANGED <<creator, holder, sends, recvs, answer, made, wire, server, faults, restarts>>,
         store' \in Seq(Session), outcome' \in [Request -> {"none", "ok", "failed"}]
  PROVE  Inv'
<1>1. CallsOK' /\ SeqInv'
  BY SeqFrame
<1>2. ClientOK' /\ ServerOK' /\ CountsOK' /\ wire' \subseteq Message
  BY DEF Inv, ClientOK, ServerOK, CountsOK, server
<1> QED BY <1>1, <1>2 DEF Inv

LEMMA BeginStep == ASSUME Inv, NEW c \in Caller, Begin(c) PROVE Inv'
<1> DEFINE r == Picking(call[c].k + 1, 1)
<1>1. call[c].k \in 0..MaxCall /\ call[c].k < MaxCall /\ call \in [Caller -> Call]
  BY DEF Begin, Inv, CallsOK, Call
<1>2. call[c].k + 1 \in 0..MaxCall
  BY <1>1, Bounds
<1>3. CallOK(r) /\ r.pc = "pick"
  BY <1>2, PickingOK
<1>4. call' = [call EXCEPT ![c] = r]
  BY <1>1 DEF Begin, Picking, Attempted
<1>5. /\ UNCHANGED <<creator, holder, sends, recvs, answer, made, wire, server, faults, restarts>>
      /\ store' \in Seq(Session) /\ outcome' \in [Request -> {"none", "ok", "failed"}]
  BY DEF Begin, Inv, ClientOK
<1> HIDE DEF r
<1> QED BY <1>3, <1>4, <1>5, QuietStep DEF Allocated

LEMMA UseOK ==
  ASSUME Inv, NEW c \in Caller, store # <<>>, Use(c, Head(store))
  PROVE  \E r : CallOK(r) /\ r.pc = "lock" /\ call' = [call EXCEPT ![c] = r]
<1> DEFINE s == Head(store)
           r == Joined(call[c], "lock", s)
<1>1. s \in Session /\ call \in [Caller -> Call] /\ CallOK(call[c])
  BY DEF Inv, ClientOK, CallsOK
<1>2. call' = [call EXCEPT ![c] = r]
  BY <1>1 DEF Use, Joined
<1> HIDE DEF s
<1>3. CallOK(r) /\ r.pc = "lock"
  <2>1. "lock" \in PC
    BY DEF PC
  <2> QED BY <1>1, <2>1, JoinedOK
<1> HIDE DEF r
<1> QED BY <1>2, <1>3

LEMMA PickStep == ASSUME Inv, NEW c \in Caller, Pick(c) \/ Reuse(c) PROVE Inv'
<1>1. /\ UNCHANGED <<creator, holder, sends, recvs, answer, made, wire, server, faults, restarts>>
      /\ store' \in Seq(Session) /\ outcome' \in [Request -> {"none", "ok", "failed"}]
  BY DEF Pick, Reuse, Inv, ClientOK
<1>2. CASE store # <<>> /\ Use(c, Head(store))
  BY <1>1, <1>2, UseOK, QuietStep DEF Allocated
<1>3. CASE call' = [call EXCEPT ![c].pc = "create"]
  <2> DEFINE r == [call[c] EXCEPT !.pc = "create"]
  <2>1. CallOK(call[c]) /\ call \in [Caller -> Call]
    BY DEF Inv, CallsOK
  <2>2. CallOK(r) /\ r.pc = "create"
    BY <2>1, MovedOK DEF PC, InSession
  <2>3. call' = [call EXCEPT ![c] = r]
    BY <1>3, <2>1
  <2> HIDE DEF r
  <2> QED BY <1>1, <2>2, <2>3, QuietStep DEF Allocated
<1> QED BY <1>2, <1>3 DEF Pick, Reuse

(* A thread goes on with a handshake *)
LEMMA HandshakeStep ==
  ASSUME Inv, NEW c \in Caller, NEW r, CallOK(r), call' = [call EXCEPT ![c] = r],
         r.pc \notin Allocated,
         UNCHANGED <<holder, sends, recvs, outcome, server, faults, restarts>>,
         \/ wire' = wire
         \/ \E m \in Message : m.kind # "request" /\ wire' = wire \cup {m},
         store' \in Seq(Session), creator' \in Caller \cup {None}, made' \in 0..MaxSession,
         answer' \in [Caller -> [code : Code, seq : Nat]]
  PROVE  Inv'
<1>1. wire' \subseteq Message /\ \A m \in wire' : m \in wire \/ m.kind # "request"
  BY DEF Inv
<1>2. CallsOK' /\ SeqInv'
  BY <1>1, SeqFrame
<1>3. ClientOK' /\ ServerOK' /\ CountsOK'
  BY DEF Inv, ClientOK, ServerOK, CountsOK, server
<1> QED BY <1>1, <1>2, <1>3 DEF Inv

LEMMA MessageOK ==
  \A kind \in Kind, c \in Caller, k \in 0..MaxCall, s \in Session, n \in Nat :
    [kind |-> kind, from |-> c, k |-> k, sess |-> s, seq |-> n] \in Message
  BY DEF Message

LEMMA CreateStep == ASSUME Inv, NEW c \in Caller, Create(c) \/ Diagnose(c) PROVE Inv'
<1> DEFINE s == made + 1
           m == [kind |-> "start", from |-> c, k |-> call[c].k, sess |-> s, seq |-> 0]
<1>1. /\ call \in [Caller -> Call] /\ CallOK(call[c]) /\ call[c].k \in 0..MaxCall
      /\ made < MaxSession /\ made \in 0..MaxSession
  BY DEF Create, Diagnose, SendStart, Inv, CallsOK, ClientOK, Call
<1>2. s \in Session /\ s \in 0..MaxSession
  BY <1>1, Bounds DEF Session
<1>3. m \in Message /\ m.kind # "request"
  BY <1>1, <1>2, MessageOK DEF Kind
<1>4. wire' = wire \cup {m} /\ made' = s
  BY DEF Create, Diagnose, SendStart
<1>5. \E r : CallOK(r) /\ r.pc = "start" /\ call' = [call EXCEPT ![c] = r]
  <2>1. CASE call' = [call EXCEPT ![c].pc = "start", ![c].sess = made + 1]
    <3> DEFINE r == Joined(call[c], "start", s)
    <3>1. call' = [call EXCEPT ![c] = r]
      BY <1>1, <2>1 DEF Joined
    <3>2. CallOK(r) /\ r.pc = "start"
      <4>1. "start" \in PC
        BY DEF PC
      <4> HIDE DEF s
      <4> QED BY <1>1, <1>2, <4>1, JoinedOK
    <3> HIDE DEF r
    <3> QED BY <3>1, <3>2
  <2>2. CASE call' = [call EXCEPT ![c].pc = "start", ![c].sess = made + 1, ![c].attempt = 0]
    <3> DEFINE r == Diagnosed(call[c], "start", s, 0)
    <3>1. 0 \in 0..2 /\ "start" \in PC
      BY DEF PC
    <3>2. CallOK(r) /\ r.pc = "start"
      <4> HIDE DEF s
      <4> QED BY <1>1, <1>2, <3>1, DiagnosedOK
    <3>3. call' = [call EXCEPT ![c] = r]
      BY <1>1, <2>2 DEF Diagnosed
    <3> HIDE DEF r
    <3> QED BY <3>2, <3>3
  <2> QED BY <2>1, <2>2 DEF Create, Diagnose
<1>6. /\ UNCHANGED <<holder, sends, recvs, outcome, server, faults, restarts>>
      /\ store' \in Seq(Session) /\ creator' \in Caller \cup {None}
      /\ answer' \in [Caller -> [code : Code, seq : Nat]]
  BY DEF Create, Diagnose, SendStart, Inv, ClientOK
<1> HIDE DEF s, m
<1> QED BY <1>2, <1>3, <1>4, <1>5, <1>6, HandshakeStep DEF Allocated

LEMMA StartedStep == ASSUME Inv, NEW c \in Caller, Started(c) PROVE Inv'
<1> DEFINE m == [kind |-> "finish", from |-> c, k |-> call[c].k, sess |-> call[c].sess,
                 seq |-> 0]
           r == [call[c] EXCEPT !.pc = "finish"]
<1>1. /\ call \in [Caller -> Call] /\ CallOK(call[c]) /\ call[c].k \in 0..MaxCall
      /\ call[c].sess \in Session
  BY DEF Started, Receive, Inv, CallsOK, CallOK, Call, InSession
<1>2. m \in Message /\ m.kind # "request"
  BY <1>1, MessageOK DEF Kind
<1>3. CallOK(r) /\ r.pc = "finish"
  BY <1>1, MovedOK DEF PC
<1>4. call' = [call EXCEPT ![c] = r] /\ wire' = wire \cup {m}
  BY <1>1 DEF Started
<1>5. /\ UNCHANGED <<holder, sends, recvs, outcome, server, faults, restarts>>
      /\ store' \in Seq(Session) /\ creator' \in Caller \cup {None} /\ made' \in 0..MaxSession
  BY DEF Started, Inv, ClientOK
<1>6. answer' \in [Caller -> [code : Code, seq : Nat]]
  BY NoAnswerOK DEF Started, Inv, ClientOK
<1> HIDE DEF m, r
<1> QED BY <1>2, <1>3, <1>4, <1>5, <1>6, HandshakeStep DEF Allocated

LEMMA FinishedStep == ASSUME Inv, NEW c \in Caller, Finished(c) PROVE Inv'
<1>1. /\ call \in [Caller -> Call] /\ CallOK(call[c]) /\ call[c].k \in 0..MaxCall
      /\ call[c].sess \in Session
  BY DEF Finished, Receive, Inv, CallsOK, CallOK, Call, InSession
<1>2. \E r : CallOK(r) /\ r.pc \in {"idle", "lock"} /\ call' = [call EXCEPT ![c] = r]
  <2>1. CASE call' = [call EXCEPT ![c] = Resting(@.k)]
    <3>1. call' = [call EXCEPT ![c] = Resting(call[c].k)]
      BY <2>1, <1>1
    <3> QED BY <3>1, <1>1, RestingOK
  <2>2. CASE call' = [call EXCEPT ![c].pc = "lock"]
    <3> DEFINE r == [call[c] EXCEPT !.pc = "lock"]
    <3>1. CallOK(r) /\ r.pc = "lock"
      BY <1>1, MovedOK DEF PC
    <3>2. call' = [call EXCEPT ![c] = r]
      BY <1>1, <2>2
    <3> HIDE DEF r
    <3> QED BY <3>1, <3>2
  <2> QED BY <2>1, <2>2 DEF Finished
<1>3. /\ UNCHANGED <<holder, sends, recvs, outcome, server, faults, restarts>> /\ wire' = wire
      /\ made' \in 0..MaxSession /\ creator' \in Caller \cup {None}
  BY DEF Finished, Inv, ClientOK
<1>4. store' \in Seq(Session)
  BY <1>1 DEF Finished, Inv, ClientOK
<1>5. answer' \in [Caller -> [code : Code, seq : Nat]]
  BY NoAnswerOK DEF Finished, Inv, ClientOK
<1> QED BY <1>2, <1>3, <1>4, <1>5, HandshakeStep DEF Allocated

(* The number is allocated under the lock.                                 *)
LEMMA LockStep == ASSUME Inv, NEW c \in Caller, Lock(c) PROVE Inv'
<1> DEFINE s == call[c].sess
           n == sends[s]
           r == Numbered(call[c], "send", n)
<1>1. /\ call \in [Caller -> Call] /\ CallOK(call[c]) /\ s \in Session /\ n \in Nat
      /\ holder[s] = None
  BY DEF Lock, Inv, CallsOK, CallOK, ClientOK, InSession
<1>2. /\ call' = [call EXCEPT ![c] = r] /\ holder' = [holder EXCEPT ![s] = c]
      /\ UNCHANGED <<store, creator, sends, recvs, answer, outcome, made, wire, server, faults,
                     restarts>>
  BY <1>1 DEF Lock, Numbered
<1>3. CallOK(r) /\ r.pc = "send" /\ r.seq = n /\ r.sess = s
  <2>1. "send" \in PC
    BY DEF PC
  <2> HIDE DEF n
  <2> QED BY <1>1, <2>1, NumberedOK
<1> HIDE DEF s, n, r
<1>4. CallsOK' /\ \A d \in Caller : call'[d] = IF d = c THEN r ELSE call[d]
  BY <1>2, <1>3, CallStep DEF Inv
<1>5. /\ holder' \in [Session -> Caller \cup {None}]
      /\ \A x \in Session : holder'[x] = IF x = s THEN c ELSE holder[x]
  BY <1>1, <1>2 DEF Inv, ClientOK
<1>6. ASSUME NEW d \in Caller, call'[d].pc \in Allocated
      PROVE  /\ holder'[call'[d].sess] = d
             /\ call'[d].pc = "send" => call'[d].seq = sends'[call'[d].sess]
  <2>1. CASE d = c
    BY <1>1, <1>2, <1>3, <1>4, <1>5, <2>1 DEF n, s
  <2>2. CASE d # c
    <3>1. call'[d] = call[d] /\ holder[call[d].sess] = d /\ call[d].sess \in Session
      BY <1>4, <1>6, <2>2 DEF Inv, SeqInv, CallsOK, CallOK, Allocated, InSession
    <3>2. call[d].sess # s
      BY <1>1, <3>1, Bounds
    <3> QED BY <1>2, <1>5, <3>1, <3>2 DEF Inv, SeqInv
  <2> QED BY <2>1, <2>2
<1>7. SeqInv'
  BY <1>2, <1>6 DEF Inv, SeqInv, NoSeqReuse, Allocated
<1>8. ClientOK' /\ ServerOK' /\ CountsOK' /\ wire' \subseteq Message
  BY <1>2, <1>5 DEF Inv, ClientOK, ServerOK, CountsOK, server
<1> QED BY <1>4, <1>7, <1>8 DEF Inv

(* A request is sent with a number above those of its session's requests,  *)
(* and nobody else has the number, as nobody else has the lock.            *)
LEMMA SendStep == ASSUME Inv, NEW c \in Caller, Send(c) PROVE Inv'
<1> DEFINE s == call[c].sess
           n == call[c].seq
           r == [call[c] EXCEPT !.pc = "wait"]
           m == [kind |-> "request", from |-> c, k |-> call[c].k, sess |-> s, seq |-> n]
<1>1. /\ call \in [Caller -> Call] /\ CallOK(call[c]) /\ s \in Session /\ n \in Nat
      /\ call[c].k \in 0..MaxCall /\ call[c].pc = "send"
      /\ holder[s] = c /\ n = sends[s]
  BY DEF Send, Inv, CallsOK, CallOK, Call, InSession, SeqInv, Allocated
<1>2. /\ call' = [call EXCEPT ![c] = r] /\ sends' = [sends EXCEPT ![s] = n + 1]
      /\ wire' = wire \cup {m}
      /\ UNCHANGED <<store, creator, holder, recvs, answer, outcome, made, server, faults,
                     restarts>>
  BY <1>1 DEF Send
<1>3. m \in Message /\ m.kind = "request" /\ m.sess = s /\ m.seq = n
  BY <1>1, MessageOK DEF Kind
<1>4. CallOK(r) /\ r.pc = "wait" /\ r.sess = s
  BY <1>1, MovedOK DEF PC
<1> HIDE DEF s, n, r, m
<1>5. CallsOK' /\ \A d \in Caller : call'[d] = IF d = c THEN r ELSE call[d]
  BY <1>2, <1>4, CallStep DEF Inv
<1>6. /\ sends \in [Session -> Nat] /\ sends' \in [Session -> Nat]
      /\ \A x \in Session : sends'[x] = IF x = s THEN n + 1 ELSE sends[x]
  BY <1>1, <1>2 DEF Inv, ClientOK
<1>7. ASSUME NEW d \in Caller, call'[d].pc \in Allocated
      PROVE  /\ holder'[call'[d].sess] = d
             /\ call'[d].pc = "send" => call'[d].seq = sends'[call'[d].sess]
  <2>1. CASE d = c
    BY <1>1, <1>2, <1>4, <1>5, <2>1
  <2>2. CASE d # c
    <3>1. call'[d] = call[d] /\ holder[call[d].sess] = d /\ call[d].sess \in Session
      BY <1>5, <1>7, <2>2 DEF Inv, SeqInv, CallsOK, CallOK, Allocated, InSession
    <3>2. call[d].sess # s
      BY <1>1, <3>1, <2>2
    <3> QED BY <1>2, <1>6, <3>1, <3>2 DEF Inv, SeqInv
  <2> QED BY <2>1, <2>2
<1>8. ASSUME NEW x \in wire, x.kind = "request"
      PROVE  /\ x.seq < sends'[x.sess]
             /\ x.sess = s => x.seq # n
  <2>1. x.seq < sends[x.sess] /\ x.sess \in Session /\ x.seq \in Nat
    BY <1>8 DEF Inv, SeqInv, Message
  <2>2. sends[x.sess] \in Nat
    BY <1>6, <2>1
  <2> QED BY <1>1, <1>6, <2>1, <2>2
<1>9. \A x \in wire' : x.kind = "request" => x.seq < sends'[x.sess]
  BY <1>1, <1>2, <1>3, <1>6, <1>8
<1>10. NoSeqReuse'
  BY <1>2, <1>3, <1>8 DEF Inv, SeqInv, NoSeqReuse
<1>11. SeqInv'
  BY <1>7, <1>9, <1>10 DEF SeqInv, Allocated
<1>12. ClientOK' /\ ServerOK' /\ CountsOK' /\ wire' \subseteq Message
  BY <1>2, <1>3, <1>6 DEF Inv, ClientOK, ServerOK, CountsOK, server
<1> QED BY <1>5, <1>11, <1>12 DEF Inv

LEMMA SucceedStep == ASSUME Inv, NEW c \in Caller, Succeed(c) PROVE Inv'
<1>1. call \in [Caller -> Call] /\ call[c].k \in 0..MaxCall
  BY DEF Inv, CallsOK, Call
<1> DEFINE r == Resting(call[c].k)
<1>2. CallOK(r) /\ r.pc = "idle"
  BY <1>1, RestingOK
<1>3. /\ call' = [call EXCEPT ![c] = r] /\ Unlock(c)
      /\ recvs' = [recvs EXCEPT ![call[c].sess] = @ + 1]
      /\ outcome' = [outcome EXCEPT ![<<c, call[c].k>>] = "ok"]
      /\ answer' = [answer EXCEPT ![c] = NoAnswer]
      /\ UNCHANGED <<store, sends, made, wire, server, faults, restarts>>
  BY <1>1 DEF Succeed
<1>4. /\ creator' \in Caller \cup {None}
      /\ holder' \in [Session -> Caller \cup {None}]
      /\ \A s \in Session : holder'[s] = holder[s] \/ holder[s] = c
  BY <1>3, UnlockOK
<1> HIDE DEF r
<1>5. CallsOK' /\ SeqInv'
  BY <1>2, <1>3, <1>4, SeqFrame DEF Allocated
<1>6. recvs' \in [Session -> Nat]
  <2>1. recvs \in [Session -> Nat] /\ \A s \in Session : recvs[s] + 1 \in Nat
    BY DEF Inv, ClientOK
  <2> DEFINE x == call[c].sess
  <2>2. recvs' = [s \in Session |-> IF s = x THEN recvs[s] + 1 ELSE recvs[s]]
    BY <1>3, <2>1
  <2> HIDE DEF x
  <2> QED BY <2>1, <2>2
<1>7. outcome' \in [Request -> {"none", "ok", "failed"}]
  BY <1>3 DEF Inv, ClientOK
<1>8. answer' \in [Caller -> [code : Code, seq : Nat]]
  BY <1>3, NoAnswerOK DEF Inv, ClientOK
<1>9. ClientOK' /\ ServerOK' /\ CountsOK' /\ wire' \subseteq Message
  BY <1>3, <1>4, <1>6, <1>7, <1>8 DEF Inv, ClientOK, ServerOK, CountsOK, server
<1> QED BY <1>5, <1>9 DEF Inv

LEMMA FailStep == ASSUME Inv, NEW c \in Caller, Refused(c) \/ Timeout(c) PROVE Inv'
<1>1. /\ Fail(c, answer[c].code) \/ Fail(c, "bad")
      /\ UNCHANGED <<store, sends, recvs, made, wire, server, restarts>>
  BY DEF Refused, Timeout
<1>2. CallsOK' /\ SeqInv' /\ ClientOK' /\ wire' \subseteq Message
  BY <1>1, FailOK
<1>3. faults' \in 0..MaxFault
  BY Bounds DEF Refused, Timeout, Inv, CountsOK
<1>4. ServerOK' /\ CountsOK'
  BY <1>1, <1>3 DEF Inv, ServerOK, CountsOK, server
<1> QED BY <1>2, <1>4 DEF Inv

LEMMA DropStep == ASSUME Inv, NEW c \in Caller, Retry(c) \/ Discard(c) PROVE Inv'
<1>1. call \in [Caller -> Call] /\ call[c].k \in 0..MaxCall
  BY DEF Inv, CallsOK, Call
<1>2. \E r : CallOK(r) /\ r.pc \in {"idle", "pick"} /\ call' = [call EXCEPT ![c] = r]
  <2> DEFINE r == Resting(call[c].k)
             q == Picking(call[c].k, 2)
  <2>1. CallOK(r) /\ r.pc = "idle" /\ CallOK(q) /\ q.pc = "pick"
    BY <1>1, RestingOK, PickingOK
  <2>2. call' = [call EXCEPT ![c] = r] \/ call' = [call EXCEPT ![c] = q]
    BY <1>1 DEF Retry, Discard, Picking, Attempted
  <2> HIDE DEF r, q
  <2> QED BY <2>1, <2>2
<1>3. store' \in Seq(Session)
  <2>1. store' = <<>> /\ <<>> \in Seq(Session)
    BY DEF Retry, Discard
  <2> QED BY <2>1
<1>4. outcome' \in [Request -> {"none", "ok", "failed"}]
  BY DEF Retry, Discard, Inv, ClientOK
<1>5. UNCHANGED <<creator, holder, sends, recvs, answer, made, wire, server, faults, restarts>>
  BY DEF Retry, Discard
<1> QED BY <1>2, <1>3, <1>4, <1>5, QuietStep DEF Allocated

-----------------------------------------------------------------------------
(* The server's actions *)

LEMMA ReplyOK ==
  ASSUME Inv, NEW m \in wire, NEW code \in Code, NEW seq \in Nat, Reply(m, code, seq)
  PROVE  CallsOK' /\ SeqInv' /\ ClientOK' /\ wire' \subseteq Message /\ restarts' = restarts
<1>1. /\ wire' = wire \ {m}
      /\ UNCHANGED <<store, creator, holder, sends, recvs, call, outcome, made, restarts>>
      /\ \/ answer' = [answer EXCEPT ![m.from] = [code |-> code, seq |-> seq]]
         \/ answer' = answer
  BY DEF Reply
<1>2. CallsOK' /\ SeqInv' /\ wire' \subseteq Message
  BY <1>1, ServerFrame
<1>3. answer' \in [Caller -> [code : Code, seq : Nat]]
  <2> DEFINE a == [code |-> code, seq |-> seq]
  <2>1. a \in [code : Code, seq : Nat] /\ answer \in [Caller -> [code : Code, seq : Nat]]
    BY DEF Inv, ClientOK
  <2>2. answer' = [answer EXCEPT ![m.from] = a] \/ answer' = answer
    BY <1>1
  <2> HIDE DEF a
  <2> QED BY <2>1, <2>2
<1>4. ClientOK'
  BY <1>1, <1>3 DEF Inv, ClientOK
<1> QED BY <1>1, <1>2, <1>4

LEMMA ServeStep ==
  ASSUME Inv, NEW m \in wire, Serve(m) \/ Refuse(m) \/ DispatchRaises(m)
  PROVE  Inv'
<1>1. m \in Message /\ m.sess \in Session
  BY DEF Inv, Message
<1>2. replies[m.sess] \in Nat /\ 0 \in Nat /\ {"ok", "bad", "missing"} \subseteq Code
  BY <1>1 DEF Inv, ServerOK, Code
<1>3. \/ Reply(m, "ok", replies[m.sess])
      \/ \E code \in {"ok", "bad", "missing"} : Reply(m, code, 0)
  BY DEF Serve, ServeStart, ServeFinish, ServeRequest, ServeUnknown, ServeOutOfStep, Refuse,
     DispatchRaises
<1>4. CallsOK' /\ SeqInv' /\ ClientOK' /\ wire' \subseteq Message /\ restarts' = restarts
  BY <1>2, <1>3, ReplyOK
<1>5. expects' = expects \/ expects' = [expects EXCEPT ![m.sess] = @ + 1]
  BY DEF Serve, ServeStart, ServeFinish, ServeRequest, ServeUnknown, ServeOutOfStep, Refuse,
     DispatchRaises, server
<1>6. replies' = replies \/ replies' = [replies EXCEPT ![m.sess] = @ + 1]
  BY DEF Serve, ServeStart, ServeFinish, ServeRequest, ServeUnknown, ServeOutOfStep, Refuse,
     DispatchRaises, server
<1>7. executed' = executed \/ executed' = [executed EXCEPT ![<<m.from, m.k>>] = @ + 1]
  BY DEF Serve, ServeStart, ServeFinish, ServeRequest, ServeUnknown, ServeOutOfStep, Refuse,
     DispatchRaises, server
<1>8. pending' \subseteq pending \cup {m.sess} /\ live' \subseteq live \cup {m.sess}
  BY DEF Serve, ServeStart, ServeFinish, ServeRequest, ServeUnknown, ServeOutOfStep, Refuse,
     DispatchRaises, server
<1>9. faults' = faults \/ (faults < MaxFault /\ faults' = faults + 1)
  BY DEF Serve, ServeStart, ServeFinish, ServeRequest, ServeUnknown, ServeOutOfStep, Refuse,
     DispatchRaises, server
<1>10. expects' \in [Session -> Nat] /\ replies' \in [Session -> Nat]
  BY <1>5, <1>6 DEF Inv, ServerOK
<1>11. executed' \in [Request -> Nat]
  BY <1>7 DEF Inv, ServerOK
<1>12. pending' \subseteq Session /\ live' \subseteq Session
  BY <1>1, <1>8 DEF Inv, ServerOK
<1>13. CountsOK'
  BY <1>4, <1>9, Bounds DEF Inv, CountsOK
<1> QED BY <1>4, <1>10, <1>11, <1>12, <1>13 DEF Inv, ServerOK

LEMMA ExpireStep == ASSUME Inv, NEW s \in Session, Expire(s) PROVE Inv'
<1>1. /\ faults < MaxFault /\ faults' = faults + 1 /\ pending' = pending \ {s}
      /\ UNCHANGED <<store, creator, holder, sends, recvs, call, answer, outcome, made, wire, live,
                     expects, replies, executed, restarts>>
  BY DEF Expire, client
<1>2. CallsOK' /\ SeqInv' /\ wire' \subseteq Message
  BY <1>1, ServerFrame
<1>3. ClientOK' /\ ServerOK'
  BY <1>1 DEF Inv, ClientOK, ServerOK
<1>4. CountsOK'
  BY <1>1, Bounds DEF Inv, CountsOK
<1> QED BY <1>2, <1>3, <1>4 DEF Inv

LEMMA RestartStep == ASSUME Inv, Restart PROVE Inv'
<1>1. /\ restarts < MaxRestart /\ restarts' = restarts + 1
      /\ pending' = {} /\ live' = {} /\ wire' = {}
      /\ UNCHANGED <<store, creator, holder, sends, recvs, call, outcome, made, expects, replies,
                     executed, faults>>
  BY DEF Restart
<1>2. answer' \in [Caller -> [code : Code, seq : Nat]]
  BY NoAnswerOK DEF Restart, Inv, ClientOK
<1>3. CallsOK' /\ SeqInv' /\ wire' \subseteq Message
  BY <1>1, ServerFrame
<1>4. ClientOK' /\ ServerOK'
  BY <1>1, <1>2 DEF Inv, ClientOK, ServerOK
<1>5. CountsOK'
  BY <1>1, Bounds DEF Inv, CountsOK
<1> QED BY <1>3, <1>4, <1>5 DEF Inv

-----------------------------------------------------------------------------
LEMMA Start == Init => Inv
<1> SUFFICES ASSUME Init PROVE Inv
  OBVIOUS
<1>1. 0 \in 0..MaxCall /\ 0 \in 0..MaxSession /\ 0 \in 0..MaxFault /\ 0 \in 0..MaxRestart
  BY Bounds
<1>2. CallsOK
  <2>1. CallOK(Resting(0)) /\ Resting(0) \in Call
    BY <1>1, RestingOK DEF CallOK
  <2> QED BY <2>1 DEF Init, CallsOK
<1>3. ClientOK
  BY <1>1, NoAnswerOK DEF Init, ClientOK
<1>4. ServerOK /\ CountsOK /\ wire \subseteq Message
  BY <1>1 DEF Init, ServerOK, CountsOK
<1>5. \A c \in Caller : call[c].pc = "idle"
  BY <1>1, RestingOK DEF Init
<1>6. SeqInv
  BY <1>5 DEF Init, SeqInv, NoSeqReuse, Allocated
<1> QED BY <1>2, <1>3, <1>4, <1>6 DEF Inv

LEMMA Step == Inv /\ [Next]_vars => Inv'
<1> SUFFICES ASSUME Inv, [Next]_vars PROVE Inv'
  OBVIOUS
<1>1. ASSUME NEW c \in Caller, Begin(c) \/ Diagnose(c) \/ Proceed(c) \/ Timeout(c) PROVE Inv'
  BY <1>1, BeginStep, PickStep, CreateStep, StartedStep, FinishedStep, LockStep, SendStep,
     SucceedStep, FailStep, DropStep DEF Proceed
<1>2. ASSUME NEW m \in wire, Serve(m) \/ Refuse(m) \/ DispatchRaises(m) PROVE Inv'
  BY <1>2, ServeStep
<1>3. ASSUME NEW s \in Session, Expire(s) PROVE Inv'
  BY <1>3, ExpireStep
<1>4. CASE Restart
  BY <1>4, RestartStep
<1>5. CASE UNCHANGED vars
  <2>1. CallsOK' /\ SeqInv' /\ wire' \subseteq Message
    BY <1>5, ServerFrame DEF vars, client
  <2>2. ClientOK' /\ ServerOK' /\ CountsOK'
    BY <1>5 DEF vars, client, server, Inv, ClientOK, ServerOK, CountsOK
  <2> QED BY <2>1, <2>2 DEF Inv
<1> QED BY <1>1, <1>2, <1>3, <1>4, <1>5 DEF Next, Fault

LEMMA Invariance == Spec => []Inv
<1> QED BY Start, Step, PTL DEF Spec

(* A call that is in a session has one, whatever thread made or dropped it *)
(* meanwhile (secure_transport.py:100-222).                                *)
THEOREM SessionTypeCorrect == Spec => []TypeOK
<1>1. Inv => TypeOK
  BY Parts DEF Inv
<1> QED BY <1>1, Invariance, PTL

(* No two requests under way have the same number in a session, for any    *)
(* threads and however calls time out, fail and drop sessions; with        *)
(* NonceFollowsNumber of Handshake_proofs, no two are sealed under one     *)
(* nonce (replay.py:14-19, secure_transport.py:174-190).                   *)
THEOREM NoSeqReuseHolds == Spec => []NoSeqReuse
<1>1. Inv => NoSeqReuse
  BY DEF Inv, SeqInv
<1> QED BY <1>1, Invariance, PTL

-----------------------------------------------------------------------------
(* Why a request that may be sent twice is dispatched at most once.  A     *)
(* call is Unserved before it sends, and after an answer that the server   *)
(* does not have its session; it has then no request under way and none of *)
(* its requests was dispatched.  Only such a call sends.  Every other      *)
(* failure ends the call, and its request may still be read.               *)

IsRequest(m, c, k) == m.kind = "request" /\ m.from = c /\ m.k = k

Fresh(c, k) == executed[<<c, k>>] = 0 /\ \A m \in wire : ~IsRequest(m, c, k)

Before == {"pick", "create", "start", "finish", "lock", "send", "retry"}

Unserved(c) ==
  /\ call[c].attempt # 0
  /\ \/ call[c].pc \in Before
     \/ call[c].pc = "wait" /\ answer[c].code = "missing"

AnswerInv == \A c \in Caller : Waits(c) \/ answer[c] = NoAnswer

AttemptOK(r) ==
  /\ r.pc \in {"idle", "start", "finish"} \/ r.attempt # 0
  /\ r.attempt # 0 => r.k # 0

WireInv ==
  /\ \A m \in wire : m.kind = "request" =>
       m.k \in 1..call[m.from].k /\ executed[<<m.from, m.k>>] = 0
  /\ \A m, n \in wire : m.kind = "request" /\ IsRequest(n, m.from, m.k) => m = n

ExecutedInv ==
  \A c \in Caller, k \in 1..MaxCall :
    /\ executed[<<c, k>>] <= 1
    /\ executed[<<c, k>>] # 0 => k <= call[c].k
    /\ outcome[<<c, k>>] = "ok" => executed[<<c, k>>] = 1

CallInv ==
  \A c \in Caller :
    /\ Unserved(c) => Fresh(c, call[c].k)
    /\ call[c].pc = "wait" /\ answer[c].code = "ok" => executed[<<c, call[c].k>>] = 1

OnceInv ==
  /\ AnswerInv
  /\ \A c \in Caller : AttemptOK(call[c])
  /\ WireInv /\ ExecutedInv /\ CallInv

LEMMA IndexOK == \A c \in Caller, k \in 1..MaxCall : <<c, k>> \in Request
  BY DEF Request

(* What is known of a call and of a request under way *)
LEMMA CallKnown ==
  ASSUME Inv, OnceInv, NEW c \in Caller
  PROVE  /\ call[c] \in Call /\ call[c].k \in 0..MaxCall
         /\ call[c].attempt # 0 => call[c].k \in 1..MaxCall
  BY Bounds DEF Inv, CallsOK, Call, OnceInv, AttemptOK

LEMMA RequestKnown ==
  ASSUME Inv, OnceInv, NEW m \in wire, m.kind = "request"
  PROVE  /\ m.from \in Caller /\ m.k \in 1..MaxCall /\ m.k <= call[m.from].k
         /\ executed[<<m.from, m.k>>] = 0 /\ <<m.from, m.k>> \in Request
<1>1. m.from \in Caller /\ m.k \in 1..call[m.from].k /\ executed[<<m.from, m.k>>] = 0
  BY DEF Inv, OnceInv, WireInv, Message
<1>2. call[m.from].k \in 0..MaxCall
  BY <1>1, CallKnown
<1>3. m.k \in 1..MaxCall
  BY <1>1, <1>2, Bounds
<1> QED BY <1>1, <1>2, <1>3, IndexOK

-----------------------------------------------------------------------------
(* A thread goes on and sends no request. *)
LEMMA OnceFrame ==
  ASSUME Inv, OnceInv, NEW c \in Caller, NEW r, CallOK(r), call' = [call EXCEPT ![c] = r],
         r.pc # "wait", AttemptOK(r), call[c].k <= r.k,
         r.attempt # 0 /\ r.pc \in Before => Fresh(c, r.k),
         answer' = answer \/ answer' = [answer EXCEPT ![c] = NoAnswer],
         r.pc \in {"start", "finish"} \/ answer'[c] = NoAnswer,
         executed' = executed,
         \/ outcome' = outcome
         \/ \E o : /\ outcome' = [outcome EXCEPT ![<<c, call[c].k>>] = o]
                   /\ o = "ok" => executed[<<c, call[c].k>>] = 1,
         \A m \in wire' : m \in wire \/ m.kind # "request"
  PROVE  OnceInv'
<1>1. \A d \in Caller : call'[d] = IF d = c THEN r ELSE call[d]
  BY DEF Inv, CallsOK
<1>2. \A d \in Caller : d # c => answer'[d] = answer[d]
  BY DEF Inv, ClientOK
<1>3. AnswerInv'
  BY <1>1, <1>2 DEF OnceInv, AnswerInv, Waits
<1>4. (\A d \in Caller : AttemptOK(call[d]))'
  BY <1>1 DEF OnceInv, AttemptOK
<1>5. \A d \in Caller : call[d].k \in Nat /\ call'[d].k \in Nat /\ call[d].k <= call'[d].k
  BY <1>1, CallKnown DEF CallOK, Call
<1>6. WireInv'
  <2>1. ASSUME NEW m \in wire', m.kind = "request"
        PROVE  m.k \in 1..call'[m.from].k /\ executed'[<<m.from, m.k>>] = 0
    <3>1. m \in wire
      BY <2>1
    <3>2. /\ m.from \in Caller /\ m.k \in 1..MaxCall /\ m.k <= call[m.from].k
          /\ executed[<<m.from, m.k>>] = 0
      BY <3>1, <2>1, RequestKnown
    <3> QED BY <3>2, <1>5, Bounds
  <2>2. \A m, n \in wire' : m.kind = "request" /\ IsRequest(n, m.from, m.k) => m = n
    BY DEF OnceInv, WireInv, IsRequest
  <2> QED BY <2>1, <2>2 DEF WireInv, IsRequest
<1>7. ASSUME NEW d \in Caller, NEW k \in 1..MaxCall
      PROVE  /\ executed[<<d, k>>] <= 1
             /\ executed[<<d, k>>] # 0 => k <= call'[d].k
             /\ outcome'[<<d, k>>] = "ok" => executed[<<d, k>>] = 1
  <2>1. /\ executed[<<d, k>>] <= 1
        /\ executed[<<d, k>>] # 0 => k <= call[d].k
        /\ outcome[<<d, k>>] = "ok" => executed[<<d, k>>] = 1
    BY DEF OnceInv, ExecutedInv
  <2>2. executed[<<d, k>>] # 0 => k <= call'[d].k
    BY <2>1, <1>5
  <2>3. outcome'[<<d, k>>] = "ok" => executed[<<d, k>>] = 1
    <3>1. <<d, k>> \in Request
      BY IndexOK
    <3> DEFINE x == <<d, k>>
               y == <<c, call[c].k>>
    <3>2. outcome \in [Request -> {"none", "ok", "failed"}] /\ x \in Request
      BY <3>1 DEF Inv, ClientOK
    <3>3. x = y => executed[x] = executed[y]
      OBVIOUS
    <3> HIDE DEF x, y
    <3>4. ASSUME NEW o, outcome' = [outcome EXCEPT ![y] = o], o = "ok" => executed[y] = 1,
                 outcome'[x] = "ok", outcome[x] = "ok" => executed[x] = 1
          PROVE  executed[x] = 1
      BY <3>2, <3>3, <3>4
    <3>5. outcome[x] = "ok" => executed[x] = 1
      BY <2>1 DEF x
    <3>6. outcome' = outcome \/ \E o : /\ outcome' = [outcome EXCEPT ![y] = o]
                                       /\ o = "ok" => executed[y] = 1
      BY DEF y
    <3>7. outcome'[x] = "ok" => executed[x] = 1
      BY <3>4, <3>5, <3>6
    <3> QED BY <3>7 DEF x
  <2> QED BY <2>1, <2>2, <2>3
<1>8. ExecutedInv'
  BY <1>7 DEF ExecutedInv
<1>9. ASSUME NEW d \in Caller, NEW k, Fresh(d, k) PROVE Fresh(d, k)'
  BY <1>9 DEF Fresh, IsRequest
<1>10. ASSUME NEW d \in Caller
       PROVE  (/\ Unserved(d) => Fresh(d, call[d].k)
               /\ call[d].pc = "wait" /\ answer[d].code = "ok"
                    => executed[<<d, call[d].k>>] = 1)'
  <2>1. CASE d = c
    <3>1. Unserved(c)' => r.attempt # 0 /\ r.pc \in Before
      BY <1>1 DEF Unserved
    <3>2. Unserved(c)' => Fresh(c, r.k) /\ Fresh(c, r.k)'
      BY <3>1, <1>9
    <3>3. call'[c] = r
      BY <1>1
    <3>4. Fresh(c, call[c].k)' <=> Fresh(c, r.k)'
      BY <3>3 DEF Fresh, IsRequest
    <3> QED BY <2>1, <3>2, <3>3, <3>4
  <2>2. CASE d # c
    <3>1. call'[d] = call[d] /\ answer'[d] = answer[d]
      BY <2>2, <1>1, <1>2
    <3>2. Unserved(d)' => Unserved(d)
      BY <3>1 DEF Unserved
    <3>3. Unserved(d) => Fresh(d, call[d].k)'
      <4>1. Unserved(d) => Fresh(d, call[d].k)
        BY DEF OnceInv, CallInv
      <4> QED BY <3>1, <4>1 DEF Fresh, IsRequest
    <3> QED BY <3>1, <3>2, <3>3 DEF OnceInv, CallInv
  <2> QED BY <2>1, <2>2
<1>11. CallInv'
  BY <1>10 DEF CallInv
<1> QED BY <1>3, <1>4, <1>6, <1>8, <1>11 DEF OnceInv

(* The step of each action of a thread that sends no request *)

LEMMA BeginOnce == ASSUME Inv, OnceInv, NEW c \in Caller, Begin(c) PROVE OnceInv'
<1> DEFINE k == call[c].k + 1
           r == Picking(k, 1)
<1>1. call[c].k \in 0..MaxCall /\ call[c].k < MaxCall /\ call[c].pc = "idle"
  BY CallKnown DEF Begin
<1>2. k \in 1..MaxCall /\ k \in 0..MaxCall /\ call[c].k <= k /\ ~(k <= call[c].k) /\ k # 0
  BY <1>1, Bounds
<1>3. /\ call' = [call EXCEPT ![c] = r]
      /\ answer' = answer /\ executed' = executed /\ outcome' = outcome /\ wire' = wire
  <2>1. call \in [Caller -> Call]
    BY DEF Inv, CallsOK
  <2> QED BY <2>1 DEF Begin, server, Picking, Attempted
<1>4. CallOK(r) /\ r.pc = "pick" /\ r.attempt = 1 /\ r.k = k
  BY <1>2, PickingOK
<1>5. Fresh(c, k)
  <2>1. executed[<<c, k>>] = 0
    BY <1>2 DEF OnceInv, ExecutedInv
  <2>2. ASSUME NEW m \in wire, IsRequest(m, c, k) PROVE FALSE
    BY <1>2, <2>2, RequestKnown DEF IsRequest
  <2> QED BY <2>1, <2>2 DEF Fresh
<1>6. answer'[c] = NoAnswer
  BY <1>1, <1>3 DEF OnceInv, AnswerInv, Waits
<1>7. AttemptOK(r) /\ r.pc # "wait"
  BY <1>2, <1>4 DEF AttemptOK
<1> HIDE DEF k, r
<1> QED BY <1>2, <1>3, <1>4, <1>5, <1>6, <1>7, OnceFrame

(* A call that has not sent its request goes on to another place before it *)
(* does.                                                                   *)
LEMMA OnwardOnce ==
  ASSUME Inv, OnceInv, NEW c \in Caller, NEW r, CallOK(r), call' = [call EXCEPT ![c] = r],
         call[c].pc \in Before, r.pc \in Before, r.k = call[c].k, r.attempt = call[c].attempt,
         r.pc \in {"start", "finish"} \/ r.attempt # 0,
         answer' = answer \/ answer' = [answer EXCEPT ![c] = NoAnswer],
         r.pc \in {"start", "finish"} \/ ~Waits(c) \/ answer'[c] = NoAnswer,
         executed' = executed, outcome' = outcome,
         \A m \in wire' : m \in wire \/ m.kind # "request"
  PROVE  OnceInv'
<1>1. r.pc # "wait"
  BY DEF Before
<1>2. AttemptOK(r) /\ call[c].k <= r.k
  BY CallKnown DEF AttemptOK, OnceInv
<1>3. r.attempt # 0 => Fresh(c, r.k)
  BY DEF OnceInv, CallInv, Unserved
<1>4. answer \in [Caller -> [code : Code, seq : Nat]]
  BY DEF Inv, ClientOK
<1>5. r.pc \in {"start", "finish"} \/ answer'[c] = NoAnswer
  BY <1>4 DEF OnceInv, AnswerInv
<1> QED BY <1>1, <1>2, <1>3, <1>5, OnceFrame

(* A call ends. *)
LEMMA EndOnce ==
  ASSUME Inv, OnceInv, NEW c \in Caller, call' = [call EXCEPT ![c] = Resting(call[c].k)],
         answer' = answer \/ answer' = [answer EXCEPT ![c] = NoAnswer],
         ~Waits(c) \/ answer'[c] = NoAnswer,
         executed' = executed,
         \/ outcome' = outcome
         \/ \E o : /\ outcome' = [outcome EXCEPT ![<<c, call[c].k>>] = o]
                   /\ o = "ok" => executed[<<c, call[c].k>>] = 1,
         wire' = wire
  PROVE  OnceInv'
<1> DEFINE r == Resting(call[c].k)
<1>1. CallOK(r) /\ r.pc = "idle" /\ r.k = call[c].k /\ r.attempt = 0 /\ call[c].k <= r.k
  BY CallKnown, RestingOK
<1>2. call' = [call EXCEPT ![c] = r]
  OBVIOUS
<1> HIDE DEF r
<1>3. AttemptOK(r) /\ r.pc # "wait"
  BY <1>1 DEF AttemptOK
<1>4. answer'[c] = NoAnswer
  <2>1. answer \in [Caller -> [code : Code, seq : Nat]]
    BY DEF Inv, ClientOK
  <2> QED BY <2>1 DEF OnceInv, AnswerInv
<1> QED BY <1>1, <1>2, <1>3, <1>4, OnceFrame

LEMMA PickOnce ==
  ASSUME Inv, OnceInv, NEW c \in Caller,
         Pick(c) \/ Reuse(c) \/ Create(c) \/ Diagnose(c) \/ Started(c) \/ Lock(c)
  PROVE  OnceInv'
<1>1. call \in [Caller -> Call] /\ CallOK(call[c]) /\ AttemptOK(call[c])
  BY DEF Inv, CallsOK, OnceInv
<1>2. executed' = executed /\ outcome' = outcome
  BY DEF Pick, Reuse, Create, Diagnose, Started, Lock, server
<1>3. \A m \in wire' : m \in wire \/ m.kind # "request"
  BY DEF Pick, Reuse, Create, Diagnose, SendStart, Started, Lock
<1>4. CASE Pick(c) \/ Reuse(c) \/ Create(c) \/ Lock(c)
  <2>1. answer' = answer /\ call[c].pc \in {"pick", "create", "lock"}
    BY <1>4 DEF Pick, Reuse, Create, Lock
  <2>2. call[c].pc \in Before /\ ~Waits(c) /\ call[c].attempt # 0
    BY <1>1, <2>1 DEF Before, Waits, AttemptOK
  <2>3. PICK r : /\ CallOK(r) /\ r.pc \in Before /\ r.k = call[c].k
                 /\ r.attempt = call[c].attempt /\ call' = [call EXCEPT ![c] = r]
    <3>1. CASE store # <<>> /\ Use(c, Head(store))
      <4> DEFINE s == Head(store)
                 r == Joined(call[c], "lock", s)
      <4>1. s \in Session /\ "lock" \in PC
        BY <3>1 DEF Inv, ClientOK, PC
      <4>2. call' = [call EXCEPT ![c] = r]
        BY <1>1, <3>1 DEF Use, Joined
      <4> HIDE DEF s
      <4>3. CallOK(r) /\ r.pc = "lock" /\ r.k = call[c].k /\ r.attempt = call[c].attempt
        BY <1>1, <4>1, JoinedOK
      <4> HIDE DEF r
      <4> QED BY <4>2, <4>3 DEF Before
    <3>2. CASE call' = [call EXCEPT ![c].pc = "create"]
      <4> DEFINE r == [call[c] EXCEPT !.pc = "create"]
      <4>1. call' = [call EXCEPT ![c] = r]
        BY <1>1, <3>2
      <4>2. "create" \in PC /\ "create" \notin InSession
        BY DEF PC, InSession
      <4>3. CallOK(r) /\ r.pc = "create" /\ r.k = call[c].k /\ r.attempt = call[c].attempt
        BY <1>1, <4>2, MovedOK
      <4> HIDE DEF r
      <4> QED BY <4>1, <4>3 DEF Before
    <3>3. CASE Create(c)
      <4> DEFINE s == made + 1
                 r == Joined(call[c], "start", s)
      <4>1. s \in Session /\ "start" \in PC
        BY <3>3, Bounds DEF Create, SendStart, Inv, ClientOK, Session, PC
      <4>2. call' = [call EXCEPT ![c] = r]
        BY <1>1, <3>3 DEF Create, Joined
      <4> HIDE DEF s
      <4>3. CallOK(r) /\ r.pc = "start" /\ r.k = call[c].k /\ r.attempt = call[c].attempt
        BY <1>1, <4>1, JoinedOK
      <4> HIDE DEF r
      <4> QED BY <4>2, <4>3 DEF Before
    <3>4. CASE Lock(c)
      <4> DEFINE n == sends[call[c].sess]
                 r == Numbered(call[c], "send", n)
      <4>1. "send" \in PC /\ call[c].sess \in Session /\ n \in Nat
        BY <1>1, <3>4 DEF Lock, PC, CallOK, InSession, Inv, ClientOK
      <4>2. call' = [call EXCEPT ![c] = r]
        BY <1>1, <3>4 DEF Lock, Numbered
      <4> HIDE DEF n
      <4>3. CallOK(r) /\ r.pc = "send" /\ r.k = call[c].k /\ r.attempt = call[c].attempt
        BY <1>1, <4>1, NumberedOK
      <4> HIDE DEF r
      <4> QED BY <4>2, <4>3 DEF Before
    <3> QED BY <1>4, <3>1, <3>2, <3>3, <3>4 DEF Pick, Reuse
  <2> QED BY <1>2, <1>3, <2>1, <2>2, <2>3, OnwardOnce
<1>5. CASE Diagnose(c)
  <2> DEFINE s == made + 1
             r == Diagnosed(call[c], "start", s, 0)
  <2>1. s \in Session /\ "start" \in PC /\ 0 \in 0..2
    BY <1>5, Bounds DEF Diagnose, SendStart, Inv, ClientOK, Session, PC
  <2>2. call' = [call EXCEPT ![c] = r] /\ answer' = answer
    BY <1>1, <1>5 DEF Diagnose, Diagnosed
  <2> HIDE DEF s
  <2>3. CallOK(r) /\ r.pc = "start" /\ r.k = call[c].k /\ r.attempt = 0
    BY <1>1, <2>1, DiagnosedOK
  <2> HIDE DEF r
  <2>4. AttemptOK(r) /\ call[c].k <= r.k
    BY <2>3, CallKnown DEF AttemptOK
  <2> QED BY <1>2, <1>3, <2>2, <2>3, <2>4, OnceFrame
<1>6. CASE Started(c)
  <2> DEFINE r == [call[c] EXCEPT !.pc = "finish"]
  <2>1. /\ call[c].pc = "start" /\ call[c].pc \in Before
        /\ answer' = [answer EXCEPT ![c] = NoAnswer]
    BY <1>6 DEF Started, Receive, Before
  <2>2. "finish" \in PC /\ call[c].sess \in Session
    BY <1>1, <2>1 DEF PC, CallOK, InSession
  <2>3. call' = [call EXCEPT ![c] = r]
    BY <1>1, <1>6 DEF Started
  <2>4. CallOK(r) /\ r.pc = "finish" /\ r.k = call[c].k /\ r.attempt = call[c].attempt
    BY <1>1, <2>2, MovedOK
  <2> HIDE DEF r
  <2>5. r.pc \in Before
    BY <2>4 DEF Before
  <2> QED BY <1>2, <1>3, <2>1, <2>3, <2>4, <2>5, OnwardOnce
<1> QED BY <1>4, <1>5, <1>6

LEMMA FinishedOnce == ASSUME Inv, OnceInv, NEW c \in Caller, Finished(c) PROVE OnceInv'
<1>1. /\ call \in [Caller -> Call] /\ CallOK(call[c]) /\ AttemptOK(call[c])
      /\ answer \in [Caller -> [code : Code, seq : Nat]]
  BY DEF Inv, CallsOK, ClientOK, OnceInv
<1>2. /\ call[c].pc = "finish"
      /\ answer' = [answer EXCEPT ![c] = NoAnswer] /\ answer'[c] = NoAnswer
      /\ executed' = executed /\ outcome' = outcome /\ wire' = wire
  BY <1>1 DEF Finished, Receive, server
<1>3. CASE call[c].attempt = 0 /\ call' = [call EXCEPT ![c] = Resting(@.k)]
  <2>1. call' = [call EXCEPT ![c] = Resting(call[c].k)]
    BY <1>1, <1>3
  <2> QED BY <1>2, <2>1, EndOnce
<1>4. CASE call[c].attempt # 0 /\ call' = [call EXCEPT ![c].pc = "lock"]
  <2> DEFINE r == [call[c] EXCEPT !.pc = "lock"]
  <2>1. call' = [call EXCEPT ![c] = r]
    BY <1>1, <1>4
  <2>2. "lock" \in PC /\ call[c].sess \in Session
    BY <1>1, <1>2 DEF PC, CallOK, InSession
  <2>3. CallOK(r) /\ r.pc = "lock" /\ r.k = call[c].k /\ r.attempt = call[c].attempt
    BY <1>1, <2>2, MovedOK
  <2> HIDE DEF r
  <2>4. r.pc \in Before /\ call[c].pc \in Before
    BY <1>2, <2>3 DEF Before
  <2> QED BY <1>2, <1>4, <2>1, <2>3, <2>4, OnwardOnce
<1> QED BY <1>3, <1>4 DEF Finished

LEMMA SucceedOnce == ASSUME Inv, OnceInv, NEW c \in Caller, Succeed(c) PROVE OnceInv'
<1>1. /\ call \in [Caller -> Call]
      /\ answer \in [Caller -> [code : Code, seq : Nat]]
  BY DEF Inv, CallsOK, ClientOK
<1>2. /\ call' = [call EXCEPT ![c] = Resting(call[c].k)]
      /\ answer' = [answer EXCEPT ![c] = NoAnswer] /\ answer'[c] = NoAnswer
      /\ outcome' = [outcome EXCEPT ![<<c, call[c].k>>] = "ok"]
      /\ executed' = executed /\ wire' = wire
  BY <1>1 DEF Succeed, server
<1>3. executed[<<c, call[c].k>>] = 1
  BY DEF Succeed, Receive, OnceInv, CallInv
<1> QED BY <1>2, <1>3, EndOnce

(* Only after an answer that the session is missing does a call try again. *)
LEMMA FailOnce ==
  ASSUME Inv, OnceInv, NEW c \in Caller, NEW code, Fail(c, code), Waits(c),
         code = "missing" => answer[c].code = "missing",
         executed' = executed, wire' = wire
  PROVE  OnceInv'
<1>1. /\ call \in [Caller -> Call] /\ CallOK(call[c]) /\ AttemptOK(call[c])
      /\ answer \in [Caller -> [code : Code, seq : Nat]]
  BY DEF Inv, CallsOK, ClientOK, OnceInv
<1>2. answer' = [answer EXCEPT ![c] = NoAnswer] /\ answer'[c] = NoAnswer
  BY <1>1 DEF Fail
<1>3. CASE call' = [call EXCEPT ![c] = Resting(@.k)]
  <2>1. call' = [call EXCEPT ![c] = Resting(call[c].k)]
    BY <1>1, <1>3
  <2>2. outcome' = outcome \/ outcome' = [outcome EXCEPT ![<<c, call[c].k>>] = "failed"]
    <3>1. call[c].attempt \in 0..2
      BY <1>1 DEF Call
    <3>2. call[c].k = call[c].k
      OBVIOUS
    <3> QED BY <3>1 DEF Fail
  <2> QED BY <1>2, <2>1, <2>2, EndOnce
<1>4. ASSUME NEW pc \in {"retry", "discard"}, call' = [call EXCEPT ![c].pc = pc],
             outcome' = outcome, call[c].attempt # 0, pc = "retry" => code = "missing"
      PROVE  OnceInv'
  <2> DEFINE r == [call[c] EXCEPT !.pc = pc]
  <2>1. call' = [call EXCEPT ![c] = r]
    BY <1>1, <1>4
  <2>2. pc \in PC /\ pc \notin InSession
    BY DEF PC, InSession
  <2>3. CallOK(r) /\ r.pc = pc /\ r.k = call[c].k /\ r.attempt = call[c].attempt
    BY <1>1, <2>2, MovedOK
  <2> HIDE DEF r
  <2>4. r.attempt # 0 /\ r.pc \in Before => Fresh(c, r.k)
    <3>1. SUFFICES ASSUME pc = "retry" PROVE Unserved(c)
      BY <2>3 DEF Before, OnceInv, CallInv
    <3>2. answer[c].code = "missing" /\ call[c].pc \in {"start", "finish", "wait"}
      BY <1>4, <3>1 DEF Waits
    <3> QED BY <1>4, <3>2 DEF Unserved, Before
  <2>5. AttemptOK(r) /\ call[c].k <= r.k /\ r.pc # "wait"
    BY <1>1, <1>4, <2>3, CallKnown DEF AttemptOK
  <2> QED BY <1>2, <1>4, <2>1, <2>3, <2>4, <2>5, OnceFrame
<1>5. \/ call' = [call EXCEPT ![c] = Resting(@.k)]
      \/ /\ outcome' = outcome /\ call[c].attempt # 0
         /\ \/ call' = [call EXCEPT ![c].pc = "retry"] /\ code = "missing"
            \/ call' = [call EXCEPT ![c].pc = "discard"]
  <2>1. \/ call' = [call EXCEPT ![c] = Resting(@.k)]
        \/ /\ outcome' = outcome /\ call[c].attempt = 1
           /\ call' = [call EXCEPT ![c].pc = IF code = "missing" THEN "retry" ELSE "discard"]
        \/ /\ outcome' = outcome /\ call[c].attempt = 2
           /\ call' = [call EXCEPT ![c].pc = "discard"]
    BY DEF Fail
  <2> QED BY <2>1
<1> QED BY <1>3, <1>4, <1>5

LEMMA DropOnce ==
  ASSUME Inv, OnceInv, NEW c \in Caller,
         Refused(c) \/ Timeout(c) \/ Retry(c) \/ Discard(c)
  PROVE  OnceInv'
<1>1. call \in [Caller -> Call] /\ call[c].k \in 0..MaxCall
  BY CallKnown DEF Inv, CallsOK
<1>2. executed' = executed /\ wire' = wire
  BY DEF Refused, Timeout, Retry, Discard, server
<1>3. CASE Refused(c) \/ Timeout(c)
  <2>1. Waits(c) /\ (Fail(c, answer[c].code) \/ Fail(c, "bad"))
    BY <1>3 DEF Refused, Timeout
  <2> QED BY <1>2, <2>1, FailOnce
<1>4. CASE Discard(c)
  <2>1. /\ call' = [call EXCEPT ![c] = Resting(call[c].k)] /\ answer' = answer
        /\ outcome' = [outcome EXCEPT ![<<c, call[c].k>>] = "failed"] /\ ~Waits(c)
    BY <1>1, <1>4 DEF Discard, Waits
  <2>2. \E o : /\ outcome' = [outcome EXCEPT ![<<c, call[c].k>>] = o]
               /\ o = "ok" => executed[<<c, call[c].k>>] = 1
    <3> WITNESS "failed"
    <3> QED BY <2>1
  <2> QED BY <1>2, <2>1, <2>2, EndOnce
<1>5. CASE Retry(c)
  <2> DEFINE r == Picking(call[c].k, 2)
  <2>1. /\ call[c].pc = "retry" /\ call[c].pc \in Before /\ ~Waits(c) /\ answer' = answer
        /\ outcome' = outcome
    BY <1>5 DEF Retry, Waits, Before
  <2>2. call' = [call EXCEPT ![c] = r]
    BY <1>1, <1>5 DEF Retry, Picking, Attempted
  <2>3. CallOK(r) /\ r.pc = "pick" /\ r.k = call[c].k /\ r.attempt = 2
    BY <1>1, PickingOK
  <2> HIDE DEF r
  <2>4. call[c].attempt # 0 /\ call[c].k # 0 /\ call[c].k <= r.k
    BY <1>1, <2>1, <2>3 DEF OnceInv, AttemptOK
  <2>5. Fresh(c, r.k)
    BY <2>1, <2>3, <2>4 DEF OnceInv, CallInv, Unserved
  <2>6. AttemptOK(r) /\ r.pc # "wait" /\ answer'[c] = NoAnswer
    BY <2>1, <2>3, <2>4 DEF AttemptOK, OnceInv, AnswerInv
  <2> QED BY <1>2, <2>1, <2>2, <2>3, <2>4, <2>5, <2>6, OnceFrame
<1> QED BY <1>3, <1>4, <1>5

(* A call sends its request while it is Unserved. *)
LEMMA SendOnce == ASSUME Inv, OnceInv, NEW c \in Caller, Send(c) PROVE OnceInv'
<1> DEFINE k == call[c].k
           r == [call[c] EXCEPT !.pc = "wait"]
           m == [kind |-> "request", from |-> c, k |-> k, sess |-> call[c].sess,
                 seq |-> call[c].seq]
<1>1. /\ call \in [Caller -> Call] /\ CallOK(call[c]) /\ AttemptOK(call[c])
      /\ call[c].pc = "send" /\ call[c].attempt # 0 /\ k \in 1..MaxCall
      /\ answer[c] = NoAnswer
  BY CallKnown DEF Send, Inv, CallsOK, OnceInv, AttemptOK, AnswerInv, Waits
<1>2. /\ call' = [call EXCEPT ![c] = r] /\ wire' = wire \cup {m}
      /\ answer' = answer /\ executed' = executed /\ outcome' = outcome
  BY <1>1 DEF Send, server
<1>3. r.pc = "wait" /\ r.k = k /\ r.attempt = call[c].attempt
  <2>1. "wait" \in PC /\ call[c].sess \in Session
    BY <1>1 DEF PC, CallOK, InSession
  <2> QED BY <1>1, <2>1, MovedOK
<1>4. m.kind = "request" /\ m.from = c /\ m.k = k
  OBVIOUS
<1>5. Fresh(c, k)
  BY <1>1 DEF OnceInv, CallInv, Unserved, Before
<1> HIDE DEF k, r, m
<1>6. \A d \in Caller : call'[d] = IF d = c THEN r ELSE call[d]
  BY <1>1, <1>2
<1>7. call[c].k = k /\ \A d \in Caller : call'[d].k = call[d].k
  BY <1>3, <1>6 DEF k
<1>8. AnswerInv'
  BY <1>2, <1>3, <1>6 DEF OnceInv, AnswerInv, Waits
<1>9. (\A d \in Caller : AttemptOK(call[d]))'
  BY <1>1, <1>3, <1>6 DEF OnceInv, AttemptOK, k
<1>10. WireInv'
  <2>1. ASSUME NEW x \in wire', x.kind = "request"
        PROVE  x.k \in 1..call'[x.from].k /\ executed'[<<x.from, x.k>>] = 0
    <3>1. CASE x \in wire
      <4>1. x.from \in Caller /\ x.k \in 1..call[x.from].k /\ executed[<<x.from, x.k>>] = 0
        BY <2>1, <3>1, RequestKnown DEF OnceInv, WireInv
      <4> QED BY <1>2, <1>7, <4>1
    <3>2. CASE x = m
      BY <1>1, <1>2, <1>4, <1>5, <1>7, <3>2 DEF Fresh
    <3> QED BY <1>2, <3>1, <3>2
  <2>2. ASSUME NEW x \in wire', NEW y \in wire', x.kind = "request", IsRequest(y, x.from, x.k)
        PROVE  x = y
    <3>1. CASE x \in wire /\ y \in wire
      BY <2>2, <3>1 DEF OnceInv, WireInv
    <3>2. CASE x = m /\ y \in wire
      BY <1>4, <1>5, <2>2, <3>2 DEF Fresh
    <3>3. CASE x \in wire /\ y = m
      BY <1>4, <1>5, <2>2, <3>3 DEF Fresh, IsRequest
    <3> QED BY <1>2, <3>1, <3>2, <3>3
  <2> QED BY <2>1, <2>2 DEF WireInv, IsRequest
<1>11. ExecutedInv'
  BY <1>2, <1>7 DEF OnceInv, ExecutedInv
<1>12. ASSUME NEW d \in Caller
       PROVE  (/\ Unserved(d) => Fresh(d, call[d].k)
               /\ call[d].pc = "wait" /\ answer[d].code = "ok"
                    => executed[<<d, call[d].k>>] = 1)'
  <2>1. CASE d = c
    <3>1. call'[c].pc = "wait" /\ answer'[c].code = "none"
      BY <1>1, <1>2, <1>3, <1>6 DEF NoAnswer
    <3> QED BY <2>1, <3>1 DEF Unserved, Before
  <2>2. CASE d # c
    <3>1. call'[d] = call[d] /\ answer'[d] = answer[d]
      BY <2>2, <1>2, <1>6
    <3>2. Unserved(d)' => Unserved(d)
      BY <3>1 DEF Unserved
    <3>3. Fresh(d, call[d].k) => Fresh(d, call[d].k)'
      BY <1>2, <1>4, <2>2, <3>1 DEF Fresh, IsRequest
    <3> QED BY <1>2, <3>1, <3>2, <3>3 DEF OnceInv, CallInv
  <2> QED BY <2>1, <2>2
<1>13. CallInv'
  BY <1>12 DEF CallInv
<1> QED BY <1>8, <1>9, <1>10, <1>11, <1>13 DEF OnceInv

-----------------------------------------------------------------------------
(* The server reads a message: a request, and dispatches it, or something  *)
(* else, or refuses it.                                                    *)
LEMMA ReadOnce ==
  ASSUME Inv, OnceInv, NEW m \in wire, NEW code, NEW seq, Reply(m, code, seq),
         \/ /\ m.kind = "request" /\ code # "missing"
            /\ executed' = [executed EXCEPT ![<<m.from, m.k>>] = @ + 1]
         \/ /\ executed' = executed
            /\ m.kind # "request" \/ code # "ok"
  PROVE  OnceInv'
<1>1. /\ wire' = wire \ {m} /\ call' = call /\ outcome' = outcome
      /\ \/ Waited(m) /\ answer' = [answer EXCEPT ![m.from] = [code |-> code, seq |-> seq]]
         \/ answer' = answer
  BY DEF Reply
<1>2. /\ answer \in [Caller -> [code : Code, seq : Nat]] /\ executed \in [Request -> Nat]
      /\ m.from \in Caller /\ m.kind \in Kind
  BY DEF Inv, ClientOK, ServerOK, Message
<1>3. AnswerInv'
  BY <1>1, <1>2 DEF OnceInv, AnswerInv, Waits, Waited
<1>4. (\A d \in Caller : AttemptOK(call[d]))'
  BY <1>1 DEF OnceInv, AttemptOK
<1>5. ASSUME NEW d \in Caller, NEW k \in 1..MaxCall,
             ~(m.kind = "request" /\ m.from = d /\ m.k = k)
      PROVE  executed'[<<d, k>>] = executed[<<d, k>>]
  <2>1. CASE executed' = executed
    BY <2>1
  <2>2. CASE m.kind = "request" /\ executed' = [executed EXCEPT ![<<m.from, m.k>>] = @ + 1]
    <3>1. <<d, k>> # <<m.from, m.k>> /\ <<d, k>> \in Request
      BY <1>5, <2>2, IndexOK
    <3> DEFINE x == <<d, k>>
    <3> HIDE DEF x
    <3>2. executed'[x] = executed[x]
      BY <1>2, <2>2, <3>1 DEF x
    <3> QED BY <3>2 DEF x
  <2> QED BY <2>1, <2>2
<1>6. ASSUME m.kind = "request"
      PROVE  /\ executed[<<m.from, m.k>>] = 0 /\ m.k \in 1..MaxCall /\ m.k <= call[m.from].k
             /\ executed'[<<m.from, m.k>>] \in {0, 1}
             /\ code = "ok" => executed'[<<m.from, m.k>>] = 1
             /\ code = "missing" => executed'[<<m.from, m.k>>] = 0
  <2>1. /\ executed[<<m.from, m.k>>] = 0 /\ m.k \in 1..MaxCall /\ m.k <= call[m.from].k
        /\ <<m.from, m.k>> \in Request
    BY <1>6, RequestKnown
  <2> DEFINE x == <<m.from, m.k>>
  <2> HIDE DEF x
  <2>2. executed[x] = 0 /\ x \in Request
    BY <2>1 DEF x
  <2>3. \/ code # "missing" /\ executed' = [executed EXCEPT ![x] = @ + 1]
        \/ code # "ok" /\ executed' = executed
    BY <1>6 DEF x
  <2>4. \/ code # "missing" /\ executed'[x] = 1
        \/ code # "ok" /\ executed'[x] = 0
    BY <1>2, <2>2, <2>3
  <2> QED BY <2>1, <2>4 DEF x
<1>7. WireInv'
  <2>1. ASSUME NEW x \in wire', x.kind = "request"
        PROVE  x.k \in 1..call'[x.from].k /\ executed'[<<x.from, x.k>>] = 0
    <3>1. x \in wire /\ x # m
      BY <1>1
    <3>2. /\ x.from \in Caller /\ x.k \in 1..call[x.from].k /\ x.k \in 1..MaxCall
          /\ executed[<<x.from, x.k>>] = 0
      BY <2>1, <3>1, RequestKnown DEF OnceInv, WireInv
    <3>3. ~(m.kind = "request" /\ m.from = x.from /\ m.k = x.k)
      BY <2>1, <3>1 DEF OnceInv, WireInv, IsRequest
    <3> QED BY <1>1, <1>5, <3>2, <3>3
  <2>2. \A x, y \in wire' : x.kind = "request" /\ IsRequest(y, x.from, x.k) => x = y
    BY <1>1 DEF OnceInv, WireInv, IsRequest
  <2> QED BY <2>1, <2>2 DEF WireInv, IsRequest
<1>8. ASSUME NEW d \in Caller, NEW k \in 1..MaxCall
      PROVE  (/\ executed[<<d, k>>] <= 1
              /\ executed[<<d, k>>] # 0 => k <= call[d].k
              /\ outcome[<<d, k>>] = "ok" => executed[<<d, k>>] = 1)'
  <2>1. /\ executed[<<d, k>>] <= 1
        /\ executed[<<d, k>>] # 0 => k <= call[d].k
        /\ outcome[<<d, k>>] = "ok" => executed[<<d, k>>] = 1
    BY DEF OnceInv, ExecutedInv
  <2>2. CASE m.kind = "request" /\ m.from = d /\ m.k = k
    BY <1>1, <1>6, <2>1, <2>2
  <2>3. CASE ~(m.kind = "request" /\ m.from = d /\ m.k = k)
    BY <1>1, <1>5, <2>1, <2>3
  <2> QED BY <2>2, <2>3
<1>9. ExecutedInv'
  BY <1>8 DEF ExecutedInv
<1>10. ASSUME NEW d \in Caller, Unserved(d)' PROVE Fresh(d, call[d].k)'
  <2>1. call[d].attempt # 0 /\ call[d].k \in 1..MaxCall
    BY <1>1, <1>10, CallKnown DEF Unserved
  <2>2. CASE Unserved(d)
    <3>1. Fresh(d, call[d].k)
      BY <2>2 DEF OnceInv, CallInv
    <3>2. ~(m.kind = "request" /\ m.from = d /\ m.k = call[d].k)
      BY <3>1 DEF Fresh, IsRequest
    <3>3. executed'[<<d, call[d].k>>] = 0
      BY <1>5, <2>1, <3>1, <3>2 DEF Fresh
    <3> QED BY <1>1, <3>1, <3>3 DEF Fresh, IsRequest
  <2>3. CASE ~Unserved(d)
    <3>1. /\ d = m.from /\ Waited(m) /\ call[d].pc = "wait"
          /\ answer' = [answer EXCEPT ![m.from] = [code |-> code, seq |-> seq]]
          /\ code = "missing"
      BY <1>1, <1>2, <1>10, <2>3 DEF Unserved
    <3>2. m.kind = "request" /\ m.k = call[d].k
      BY <1>2, <3>1 DEF Waited, Kind
    <3>3. executed'[<<d, call[d].k>>] = 0
      BY <1>6, <3>1, <3>2
    <3>4. \A x \in wire' : ~IsRequest(x, d, call[d].k)
      BY <1>1, <3>1, <3>2 DEF OnceInv, WireInv
    <3> QED BY <1>1, <3>3, <3>4 DEF Fresh, IsRequest
  <2> QED BY <2>2, <2>3
<1>11. ASSUME NEW d \in Caller, call[d].pc = "wait", answer'[d].code = "ok"
       PROVE  executed'[<<d, call[d].k>>] = 1
  <2>1. call[d].k \in 1..MaxCall
    BY <1>11, CallKnown DEF OnceInv, AttemptOK
  <2>2. CASE answer[d].code = "ok"
    <3>1. executed[<<d, call[d].k>>] = 1
      BY <1>11, <2>2 DEF OnceInv, CallInv
    <3>2. ~(m.kind = "request" /\ m.from = d /\ m.k = call[d].k)
      BY <1>6, <3>1
    <3> QED BY <1>5, <2>1, <3>1, <3>2
  <2>3. CASE answer[d].code # "ok"
    <3>1. d = m.from /\ Waited(m) /\ code = "ok"
      BY <1>1, <1>2, <1>11, <2>3
    <3>2. m.kind = "request" /\ m.k = call[d].k
      BY <1>2, <1>11, <3>1 DEF Waited, Kind
    <3> QED BY <1>6, <3>1, <3>2
  <2> QED BY <2>2, <2>3
<1>12. CallInv'
  BY <1>1, <1>10, <1>11 DEF CallInv
<1> QED BY <1>3, <1>4, <1>7, <1>9, <1>12 DEF OnceInv

LEMMA ServeOnce ==
  ASSUME Inv, OnceInv, NEW m \in wire, Serve(m) \/ Refuse(m) \/ DispatchRaises(m)
  PROVE  OnceInv'
<1>1. CASE ServeRequest(m)
  <2>1. /\ Reply(m, "ok", replies[m.sess]) /\ m.kind = "request" /\ "ok" # "missing"
        /\ executed' = [executed EXCEPT ![<<m.from, m.k>>] = @ + 1]
    BY <1>1 DEF ServeRequest
  <2> QED BY <2>1, ReadOnce
<1>2. CASE DispatchRaises(m)
  <2>1. /\ Reply(m, "bad", 0) /\ m.kind = "request" /\ "bad" # "missing"
        /\ executed' = [executed EXCEPT ![<<m.from, m.k>>] = @ + 1]
    BY <1>2 DEF DispatchRaises
  <2> QED BY <2>1, ReadOnce
<1>3. CASE ServeStart(m) \/ ServeFinish(m)
  <2>1. /\ Reply(m, "ok", 0) \/ Reply(m, "missing", 0)
        /\ executed' = executed /\ m.kind # "request"
    BY <1>3 DEF ServeStart, ServeFinish
  <2> QED BY <2>1, ReadOnce
<1>4. CASE ServeUnknown(m) \/ ServeOutOfStep(m) \/ Refuse(m)
  <2>1. /\ Reply(m, "bad", 0) \/ Reply(m, "missing", 0)
        /\ executed' = executed /\ "bad" # "ok" /\ "missing" # "ok"
    BY <1>4 DEF ServeUnknown, ServeOutOfStep, Refuse, server
  <2> QED BY <2>1, ReadOnce
<1> QED BY <1>1, <1>2, <1>3, <1>4 DEF Serve

(* Nothing is read; connections may break. *)
LEMMA QuietOnce ==
  ASSUME Inv, OnceInv, UNCHANGED <<call, executed, outcome>>, wire' \subseteq wire,
         \A c \in Caller : \/ answer'[c] = answer[c]
                           \/ Waits(c) /\ answer'[c].code = "bad"
  PROVE  OnceInv'
<1>1. AnswerInv' /\ (\A d \in Caller : AttemptOK(call[d]))'
  BY DEF OnceInv, AnswerInv, AttemptOK, Waits
<1>2. WireInv' /\ ExecutedInv'
  BY DEF OnceInv, WireInv, ExecutedInv, IsRequest
<1>3. ASSUME NEW d \in Caller
      PROVE  (/\ Unserved(d) => Fresh(d, call[d].k)
              /\ call[d].pc = "wait" /\ answer[d].code = "ok"
                   => executed[<<d, call[d].k>>] = 1)'
  <2>1. Unserved(d)' => Unserved(d)
    BY DEF Unserved
  <2>2. Fresh(d, call[d].k) => Fresh(d, call[d].k)'
    BY DEF Fresh, IsRequest
  <2> QED BY <2>1, <2>2 DEF OnceInv, CallInv
<1> QED BY <1>1, <1>2, <1>3 DEF OnceInv, CallInv

LEMMA RestartOnce == ASSUME Inv, OnceInv, Restart PROVE OnceInv'
<1>1. UNCHANGED <<call, executed, outcome>> /\ wire' \subseteq wire
  BY DEF Restart
<1>2. ASSUME NEW c \in Caller
      PROVE  answer'[c] = answer[c] \/ (Waits(c) /\ answer'[c].code = "bad")
  BY DEF Restart, NoAnswer
<1> QED BY <1>1, <1>2, QuietOnce

LEMMA StartOnce == Init => OnceInv
<1> SUFFICES ASSUME Init PROVE OnceInv
  OBVIOUS
<1>1. \A c \in Caller : call[c].pc = "idle" /\ call[c].attempt = 0
  <2>1. 0 \in 0..MaxCall
    BY Bounds
  <2> QED BY <2>1, RestingOK DEF Init
<1>2. AnswerInv /\ \A c \in Caller : AttemptOK(call[c])
  BY <1>1 DEF Init, AnswerInv, AttemptOK
<1>3. WireInv /\ CallInv
  BY <1>1 DEF Init, WireInv, CallInv, Unserved
<1>4. ExecutedInv
  <2>1. \A r \in Request : executed[r] = 0 /\ outcome[r] = "none"
    BY DEF Init
  <2>2. ASSUME NEW c \in Caller, NEW k \in 1..MaxCall
        PROVE  /\ executed[<<c, k>>] <= 1
               /\ executed[<<c, k>>] # 0 => k <= call[c].k
               /\ outcome[<<c, k>>] = "ok" => executed[<<c, k>>] = 1
    <3>1. executed[<<c, k>>] = 0 /\ outcome[<<c, k>>] = "none"
      BY <2>1, IndexOK
    <3> QED BY <3>1
  <2> QED BY <2>2 DEF ExecutedInv
<1> QED BY <1>2, <1>3, <1>4 DEF OnceInv

LEMMA StepOnce == Inv /\ OnceInv /\ [Next]_vars => OnceInv'
<1> SUFFICES ASSUME Inv, OnceInv, [Next]_vars PROVE OnceInv'
  OBVIOUS
<1>1. ASSUME NEW c \in Caller, Begin(c) \/ Diagnose(c) \/ Proceed(c) \/ Timeout(c) PROVE OnceInv'
  BY <1>1, BeginOnce, PickOnce, FinishedOnce, SendOnce, SucceedOnce, DropOnce DEF Proceed
<1>2. ASSUME NEW m \in wire, Serve(m) \/ Refuse(m) \/ DispatchRaises(m) PROVE OnceInv'
  BY <1>2, ServeOnce
<1>3. CASE Restart
  BY <1>3, RestartOnce
<1>4. ASSUME NEW s \in Session, Expire(s) PROVE OnceInv'
  BY <1>4, QuietOnce DEF Expire, client
<1>5. CASE UNCHANGED vars
  BY <1>5, QuietOnce DEF vars, client, server
<1> QED BY <1>1, <1>2, <1>3, <1>4, <1>5 DEF Next, Fault

(* A request is dispatched at most once although a call may send it twice, *)
(* and one that was answered was dispatched, for any threads, timeouts,    *)
(* restarts and refusals (secure_transport.py:142-158).                    *)
THEOREM DispatchedOnceHolds == Spec => []DispatchedOnce
<1>1. Inv /\ OnceInv => DispatchedOnce
  BY DEF OnceInv, ExecutedInv, DispatchedOnce, Request
<1>2. Spec => []OnceInv
  BY StartOnce, StepOnce, Invariance, PTL DEF Spec
<1> QED BY <1>1, <1>2, Invariance, PTL

-----------------------------------------------------------------------------
(* Where each action leads its thread *)

Goes(c, pc, s, a) ==
  /\ \A d \in Caller : d # c => call'[d] = call[d]
  /\ call'[c].pc = pc /\ call'[c].sess = s /\ call'[c].attempt = a

Fails(c) ==
  /\ \/ Goes(c, "idle", NoSession, 0)
     \/ /\ call[c].attempt # 0 /\ outcome' = outcome
        /\ \E pc \in {"retry", "discard"} : Goes(c, pc, call[c].sess, call[c].attempt)
  /\ RetryDiscards => outcome' = outcome
  /\ RetryDiscards /\ call[c].attempt # 0 => call'[c].pc # "idle"
  /\ answer' = [answer EXCEPT ![c] = NoAnswer]
  /\ creator' = IF creator = c THEN None ELSE creator

LEMMA CallFacts ==
  ASSUME Inv, NEW c \in Caller
  PROVE  /\ call \in [Caller -> Call] /\ call[c] \in Call /\ CallOK(call[c])
         /\ call[c] = [pc |-> call[c].pc, k |-> call[c].k, attempt |-> call[c].attempt,
                       sess |-> call[c].sess, seq |-> call[c].seq]
         /\ call[c].attempt \in 0..2
  BY DEF Inv, CallsOK, CallOK, Call

LEMMA EndMoves ==
  ASSUME Inv, NEW c \in Caller, call' = [call EXCEPT ![c] = Resting(@.k)]
  PROVE  Goes(c, "idle", NoSession, 0)
<1>1. call' = [call EXCEPT ![c] = Resting(call[c].k)] /\ call[c].k \in 0..MaxCall
  BY CallFacts DEF Call
<1>2. \A d \in Caller : call'[d] = IF d = c THEN Resting(call[c].k) ELSE call[d]
  BY <1>1, CallFacts
<1> QED BY <1>1, <1>2, RestingOK DEF Goes

LEMMA StayMoves ==
  ASSUME Inv, NEW c \in Caller, NEW pc \in {"retry", "discard"},
         call' = [call EXCEPT ![c].pc = pc]
  PROVE  Goes(c, pc, call[c].sess, call[c].attempt)
<1> DEFINE r == [call[c] EXCEPT !.pc = pc]
<1>1. pc \in PC /\ pc \notin InSession
  BY DEF PC, InSession
<1>2. r.pc = pc /\ r.sess = call[c].sess /\ r.attempt = call[c].attempt
  BY <1>1, CallFacts, MovedOK
<1>3. \A d \in Caller : call'[d] = IF d = c THEN r ELSE call[d]
  BY CallFacts
<1> HIDE DEF r
<1> QED BY <1>2, <1>3 DEF Goes

LEMMA PickMoves ==
  ASSUME Inv, NEW c \in Caller
  PROVE  /\ Begin(c) => Goes(c, "pick", NoSession, 1)
         /\ Pick(c) \/ Reuse(c) =>
              \/ store = <<>> /\ Goes(c, "create", call[c].sess, call[c].attempt)
              \/ store # <<>> /\ Goes(c, "lock", Head(store), call[c].attempt)
<1>1. Begin(c) => Goes(c, "pick", NoSession, 1)
  BY CallFacts DEF Begin, Goes, Resting
<1>2. Pick(c) /\ store = <<>> => Goes(c, "create", call[c].sess, call[c].attempt)
  BY CallFacts DEF Pick, Goes
<1>3. store # <<>> /\ Use(c, Head(store)) => Goes(c, "lock", Head(store), call[c].attempt)
  BY CallFacts DEF Use, Goes
<1> QED BY <1>1, <1>2, <1>3 DEF Pick, Reuse

LEMMA HandshakeMoves ==
  ASSUME Inv, NEW c \in Caller
  PROVE  /\ Create(c) => Goes(c, "start", made + 1, call[c].attempt)
         /\ Diagnose(c) => Goes(c, "start", made + 1, 0)
         /\ Started(c) => Goes(c, "finish", call[c].sess, call[c].attempt)
         /\ Finished(c) => \/ call[c].attempt = 0 /\ Goes(c, "idle", NoSession, 0)
                           \/ /\ call[c].attempt # 0
                              /\ Goes(c, "lock", call[c].sess, call[c].attempt)
<1>1. Create(c) => Goes(c, "start", made + 1, call[c].attempt)
  BY CallFacts DEF Create, Goes
<1>2. Diagnose(c) => Goes(c, "start", made + 1, 0)
  BY CallFacts DEF Diagnose, Goes
<1>3. Started(c) => Goes(c, "finish", call[c].sess, call[c].attempt)
  BY CallFacts DEF Started, Goes
<1>4. Finished(c) /\ call[c].attempt = 0 => Goes(c, "idle", NoSession, 0)
  BY EndMoves DEF Finished
<1>5. Finished(c) /\ call[c].attempt # 0 => Goes(c, "lock", call[c].sess, call[c].attempt)
  BY CallFacts DEF Finished, Goes
<1> QED BY <1>1, <1>2, <1>3, <1>4, <1>5

LEMMA ExchangeMoves ==
  ASSUME Inv, NEW c \in Caller
  PROVE  /\ Lock(c) => Goes(c, "send", call[c].sess, call[c].attempt)
         /\ Send(c) => /\ Goes(c, "wait", call[c].sess, call[c].attempt)
                       /\ call'[c].seq = call[c].seq /\ call'[c].k = call[c].k
         /\ Succeed(c) => Goes(c, "idle", NoSession, 0)
         /\ Retry(c) => Goes(c, "pick", NoSession, 2)
         /\ Discard(c) => Goes(c, "idle", NoSession, 0)
<1>1. Lock(c) => Goes(c, "send", call[c].sess, call[c].attempt)
  BY CallFacts DEF Lock, Goes
<1>2. Send(c) => /\ Goes(c, "wait", call[c].sess, call[c].attempt)
                 /\ call'[c].seq = call[c].seq /\ call'[c].k = call[c].k
  BY CallFacts DEF Send, Goes
<1>3. Succeed(c) => Goes(c, "idle", NoSession, 0)
  BY EndMoves DEF Succeed
<1>4. Retry(c) => Goes(c, "pick", NoSession, 2)
  BY CallFacts DEF Retry, Goes, Resting
<1>5. Discard(c) => Goes(c, "idle", NoSession, 0)
  BY EndMoves DEF Discard
<1> QED BY <1>1, <1>2, <1>3, <1>4, <1>5

LEMMA FailMoves ==
  ASSUME Inv, NEW c \in Caller, NEW code, Fail(c, code) PROVE Fails(c)
<1>1. CASE call[c].attempt = 0
  <2>1. call' = [call EXCEPT ![c] = Resting(@.k)] /\ outcome' = outcome
    BY <1>1 DEF Fail
  <2> QED BY <1>1, <2>1, EndMoves DEF Fail, Fails, Unlock
<1>2. CASE call[c].attempt = 1
  <2>1. PICK pc \in {"retry", "discard"} : call' = [call EXCEPT ![c].pc = pc]
    BY <1>2 DEF Fail
  <2>2. Goes(c, pc, call[c].sess, call[c].attempt)
    BY <2>1, StayMoves
  <2>3. outcome' = outcome
    BY <1>2 DEF Fail
  <2> QED BY <1>2, <2>2, <2>3 DEF Fail, Fails, Unlock, Goes
<1>3. CASE call[c].attempt = 2 /\ RetryDiscards
  <2>1. call' = [call EXCEPT ![c].pc = "discard"] /\ outcome' = outcome
    BY <1>3 DEF Fail
  <2>2. Goes(c, "discard", call[c].sess, call[c].attempt)
    BY <2>1, StayMoves
  <2> QED BY <1>3, <2>1, <2>2 DEF Fail, Fails, Unlock, Goes
<1>4. CASE call[c].attempt = 2 /\ ~RetryDiscards
  <2>1. call' = [call EXCEPT ![c] = Resting(@.k)]
    BY <1>4 DEF Fail
  <2> QED BY <1>4, <2>1, EndMoves DEF Fail, Fails, Unlock
<1>5. call[c].attempt = 0 \/ call[c].attempt = 1 \/ call[c].attempt = 2
  <2>1. call[c].attempt \in 0..2
    BY CallFacts
  <2> QED BY <2>1
<1> QED BY <1>1, <1>2, <1>3, <1>4, <1>5

-----------------------------------------------------------------------------
(* A session that is being made is unknown to everybody else.              *)

Handshaking(c) == call[c].pc \in {"start", "finish"}

Stored(s) == \E i \in DOMAIN store : store[i] = s

RequestOf(m, s) == m.kind = "request" /\ m.sess = s

Quiet(s) == \A m \in wire : ~RequestOf(m, s)

Unused(s) ==
  /\ ~Stored(s) /\ Quiet(s)
  /\ sends[s] = 0 /\ recvs[s] = 0 /\ expects[s] = 0 /\ replies[s] = 0

(* what a thread in a handshake or an exchange sent last *)
Sent(c) ==
  [kind |-> IF call[c].pc = "wait" THEN "request" ELSE call[c].pc, from |-> c,
   k |-> call[c].k, sess |-> call[c].sess,
   seq |-> IF call[c].pc = "wait" THEN call[c].seq ELSE 0]

NewInv ==
  \A s \in Session : s > made =>
    /\ Unused(s)
    /\ \A c \in Caller : call[c].sess # s
    /\ \A m \in wire : m.sess # s

Begun(c) ==
  /\ Unused(call[c].sess)
  /\ \A d \in Caller : call[d].sess = call[c].sess => d = c
  /\ \A m \in wire : m.sess = call[c].sess => m = Sent(c) /\ answer[c] = NoAnswer

BirthInv ==
  /\ NewInv
  /\ \A c \in Caller : Handshaking(c) => Begun(c)
  /\ \A c \in Caller : call[c].pc \in {"idle", "pick", "create"} => call[c].sess = NoSession

LEMMA NoSessionOK == NoSession \notin Session
  BY DEF NoSession, Session

LEMMA StoredKnown ==
  ASSUME store \in Seq(Session)
  PROVE  /\ \A s : Stored(s) => s \in Session
         /\ store # <<>> => Stored(Head(store)) /\ Head(store) \in Session
         /\ store = <<>> => \A s : ~Stored(s)
<1>1. \A s : Stored(s) => s \in Session
  BY DEF Stored
<1>2. store # <<>> => Stored(Head(store))
  <2>1. SUFFICES ASSUME store # <<>> PROVE 1 \in DOMAIN store /\ store[1] = Head(store)
    BY DEF Stored
  <2>2. Len(store) \in Nat /\ DOMAIN store = 1..Len(store) /\ Head(store) = store[1]
    OBVIOUS
  <2>3. Len(store) # 0
    <3>1. Len(store) \in Nat \ {0}
      BY <2>1, EmptySeq
    <3> QED BY <3>1
  <2> QED BY <2>2, <2>3
<1>3. store = <<>> => \A s : ~Stored(s)
  BY DEF Stored
<1> QED BY <1>1, <1>2, <1>3

LEMMA StoredMore ==
  ASSUME store \in Seq(Session), NEW x \in Session, store' = Append(store, x)
  PROVE  /\ \A s : Stored(s)' <=> Stored(s) \/ s = x
         /\ store' # <<>> /\ Head(store') = IF store = <<>> THEN x ELSE Head(store)
<1>1. /\ DOMAIN store' = 1..(Len(store) + 1) /\ DOMAIN store = 1..Len(store)
      /\ Len(store) \in Nat /\ store'[Len(store) + 1] = x
      /\ \A i \in 1..Len(store) : store'[i] = store[i]
  OBVIOUS
<1>2. ASSUME NEW s, Stored(s)' PROVE Stored(s) \/ s = x
  <2>1. PICK i \in DOMAIN store' : store'[i] = s
    BY <1>2 DEF Stored
  <2>2. i \in 1..Len(store) \/ i = Len(store) + 1
    BY <1>1, <2>1
  <2> QED BY <1>1, <2>1, <2>2 DEF Stored
<1>3. ASSUME NEW s, Stored(s) PROVE Stored(s)'
  <2>1. PICK i \in DOMAIN store : store[i] = s
    BY <1>3 DEF Stored
  <2>2. i \in DOMAIN store' /\ store'[i] = s
    BY <1>1, <2>1
  <2> QED BY <2>2 DEF Stored
<1>4. Stored(x)'
  <2>1. Len(store) + 1 \in DOMAIN store'
    BY <1>1
  <2> QED BY <1>1, <2>1 DEF Stored
<1>5. store' # <<>> /\ Head(store') = IF store = <<>> THEN x ELSE Head(store)
  OBVIOUS
<1> QED BY <1>2, <1>3, <1>4, <1>5

(* A step of a thread that is then in no handshake *)
LEMMA BirthFrame ==
  ASSUME Inv, BirthInv, NEW c \in Caller, NEW pc, NEW s, NEW a, Goes(c, pc, s, a),
         pc \notin {"start", "finish"},
         pc \in {"idle", "pick", "create"} => s = NoSession,
         s = call[c].sess \/ s = NoSession \/ Stored(s),
         made' = made,
         \A d \in Caller : d # c => answer'[d] = answer[d],
         \A x \in Session : x # call[c].sess /\ Unused(x) => Unused(x)',
         \A m \in wire' : m \in wire \/ m.sess = call[c].sess
  PROVE  BirthInv'
<1>1. \A d \in Caller : d # c => call'[d] = call[d]
  BY DEF Goes
<1>2. call'[c].pc = pc /\ call'[c].sess = s
  BY DEF Goes
<1>3. ASSUME NEW x \in Session, Unused(x), call[c].sess # x PROVE s # x
  BY <1>3, NoSessionOK DEF Unused
<1>4. ASSUME NEW x \in Session, x > made
      PROVE  (/\ Unused(x)
              /\ \A d \in Caller : call[d].sess # x
              /\ \A m \in wire : m.sess # x)'
  <2>1. /\ Unused(x) /\ \A d \in Caller : call[d].sess # x
        /\ \A m \in wire : m.sess # x
    BY <1>4 DEF BirthInv, NewInv
  <2>2. Unused(x)' /\ s # x
    BY <2>1, <1>3
  <2> QED BY <1>1, <1>2, <2>1, <2>2
<1>5. NewInv'
  BY <1>4 DEF NewInv
<1>6. ASSUME NEW d \in Caller, Handshaking(d)' PROVE Begun(d)'
  <2>1. d # c /\ call'[d] = call[d]
    BY <1>1, <1>2, <1>6 DEF Handshaking
  <2>2. Handshaking(d) /\ Begun(d)
    BY <1>6, <2>1 DEF Handshaking, BirthInv
  <2>a. PICK x : x = call[d].sess
    OBVIOUS
  <2>3. x \in Session /\ call[c].sess # x /\ Unused(x)
    <3>1. call[d].sess \in Session
      BY <2>2, CallFacts DEF Handshaking, CallOK, InSession
    <3> QED BY <2>1, <2>2, <2>a, <3>1 DEF Begun
  <2>4. Unused(x)' /\ s # x
    BY <2>3, <1>3
  <2>5. \A e \in Caller : call'[e].sess = x => e = d
    BY <1>1, <1>2, <2>2, <2>4, <2>a DEF Begun
  <2>6. \A m \in wire' : m.sess = x => m = Sent(d) /\ answer[d] = NoAnswer
    BY <2>2, <2>3, <2>a DEF Begun
  <2>7. Sent(d)' = Sent(d) /\ answer'[d] = answer[d]
    BY <2>1 DEF Sent
  <2>8. call'[d].sess = x
    BY <2>1, <2>a
  <2>9. Unused(call[d].sess)'
    BY <2>4, <2>8 DEF Unused, Stored, Quiet, RequestOf
  <2> QED BY <2>5, <2>6, <2>7, <2>8, <2>9 DEF Begun
<1>7. \A d \in Caller : call'[d].pc \in {"idle", "pick", "create"} => call'[d].sess = NoSession
  BY <1>1, <1>2 DEF BirthInv
<1> QED BY <1>5, <1>6, <1>7 DEF BirthInv

LEMMA UnusedKept ==
  ASSUME NEW x, Unused(x), ~Stored(x)',
         \A m \in wire' : RequestOf(m, x) => m \in wire,
         sends'[x] = sends[x], recvs'[x] = recvs[x],
         expects'[x] = expects[x], replies'[x] = replies[x]
  PROVE  Unused(x)'
  BY DEF Unused, Quiet, RequestOf

LEMMA StoreLess ==
  ASSUME store' = store \/ store' = <<>>
  PROVE  \A x : Stored(x)' => Stored(x)
  BY DEF Stored

LEMMA AnswersKept ==
  ASSUME Inv, NEW c \in Caller, answer' = answer \/ answer' = [answer EXCEPT ![c] = NoAnswer]
  PROVE  \A d \in Caller : d # c => answer'[d] = answer[d]
  BY DEF Inv, ClientOK

(* A thread goes on, keeps silent, or gives up, and leaves every session   *)
(* as it is.                                                               *)
LEMMA QuietBirth ==
  ASSUME Inv, OnceInv, BirthInv, NEW c \in Caller,
         Begin(c) \/ Pick(c) \/ Reuse(c) \/ Lock(c) \/ Refused(c) \/ Timeout(c)
           \/ Retry(c) \/ Discard(c)
  PROVE  BirthInv'
<1>1. /\ UNCHANGED <<sends, recvs, expects, replies, wire, made>>
      /\ store' = store \/ store' = <<>>
      /\ answer' = answer \/ answer' = [answer EXCEPT ![c] = NoAnswer]
  BY DEF Begin, Pick, Reuse, Lock, Refused, Timeout, Retry, Discard, Fail, server
<1>2. ASSUME NEW x \in Session, Unused(x) PROVE Unused(x)'
  <2>1. ~Stored(x)'
    BY <1>1, <1>2, StoreLess DEF Unused
  <2> QED BY <1>1, <1>2, <2>1, UnusedKept
<1>3. \A d \in Caller : d # c => answer'[d] = answer[d]
  BY <1>1, AnswersKept
<1>4. store # <<>> => Stored(Head(store))
  BY StoredKnown DEF Inv, ClientOK
<1>5. call[c].pc \in {"pick", "create"} => call[c].sess = NoSession
  BY DEF BirthInv
<1>6. \E pc, s, a : /\ Goes(c, pc, s, a) /\ pc \notin {"start", "finish"}
                    /\ pc \in {"idle", "pick", "create"} => s = NoSession
                    /\ s = call[c].sess \/ s = NoSession \/ Stored(s)
  <2>1. CASE Begin(c)
    BY <2>1, PickMoves
  <2>2. CASE Pick(c) \/ Reuse(c)
    <3>1. CASE store = <<>> /\ Goes(c, "create", call[c].sess, call[c].attempt)
      BY <2>2, <3>1, <1>5 DEF Pick, Reuse
    <3>2. CASE store # <<>> /\ Goes(c, "lock", Head(store), call[c].attempt)
      BY <3>2, <1>4
    <3> QED BY <2>2, <3>1, <3>2, PickMoves
  <2>3. CASE Lock(c) \/ Retry(c) \/ Discard(c)
    BY <2>3, ExchangeMoves
  <2>4. CASE Refused(c) \/ Timeout(c)
    <3>1. Fails(c)
      BY <2>4, FailMoves DEF Refused, Timeout
    <3> QED BY <3>1 DEF Fails
  <2> QED BY <2>1, <2>2, <2>3, <2>4
<1> QED BY <1>1, <1>2, <1>3, <1>6, BirthFrame

LEMMA FinishedBirth ==
  ASSUME Inv, OnceInv, BirthInv, NEW c \in Caller, Finished(c) PROVE BirthInv'
<1>1. /\ UNCHANGED <<sends, recvs, expects, replies, wire, made>>
      /\ store' = Append(store, call[c].sess) /\ store \in Seq(Session)
      /\ answer' = [answer EXCEPT ![c] = NoAnswer] /\ call[c].sess \in Session
  BY CallFacts DEF Finished, Receive, server, CallOK, InSession, Inv, ClientOK
<1>2. ASSUME NEW x \in Session, x # call[c].sess, Unused(x) PROVE Unused(x)'
  <2>1. ~Stored(x)'
    <3>1. PICK y \in Session : y = call[c].sess
      BY <1>1
    <3> QED BY <1>1, <1>2, <3>1, StoredMore DEF Unused
  <2> QED BY <1>1, <1>2, <2>1, UnusedKept
<1>3. \A d \in Caller : d # c => answer'[d] = answer[d]
  BY <1>1, AnswersKept
<1>4. \E pc, s, a : /\ Goes(c, pc, s, a) /\ pc \notin {"start", "finish"}
                    /\ pc \in {"idle", "pick", "create"} => s = NoSession
                    /\ s = call[c].sess \/ s = NoSession \/ Stored(s)
  BY HandshakeMoves
<1> QED BY <1>1, <1>2, <1>3, <1>4, BirthFrame

LEMMA SendBirth ==
  ASSUME Inv, OnceInv, BirthInv, NEW c \in Caller, Send(c) PROVE BirthInv'
<1>1. /\ UNCHANGED <<store, recvs, expects, replies, made>> /\ answer' = answer
      /\ sends' = [sends EXCEPT ![call[c].sess] = call[c].seq + 1]
      /\ sends \in [Session -> Nat]
      /\ \A m \in wire' : m \in wire \/ m.sess = call[c].sess
  BY DEF Send, server, Inv, ClientOK
<1>2. ASSUME NEW x \in Session, x # call[c].sess, Unused(x) PROVE Unused(x)'
  <2>1. ~Stored(x)' /\ sends'[x] = sends[x]
    BY <1>1, <1>2 DEF Unused, Stored
  <2>2. \A m \in wire' : RequestOf(m, x) => m \in wire
    BY <1>1, <1>2 DEF RequestOf
  <2> QED BY <1>1, <1>2, <2>1, <2>2, UnusedKept
<1>3. Goes(c, "wait", call[c].sess, call[c].attempt)
  BY ExchangeMoves
<1> QED BY <1>1, <1>2, <1>3, BirthFrame

LEMMA SucceedBirth ==
  ASSUME Inv, OnceInv, BirthInv, NEW c \in Caller, Succeed(c) PROVE BirthInv'
<1>1. /\ UNCHANGED <<store, sends, expects, replies, made, wire>>
      /\ answer' = [answer EXCEPT ![c] = NoAnswer]
      /\ recvs' = [recvs EXCEPT ![call[c].sess] = @ + 1] /\ recvs \in [Session -> Nat]
  BY DEF Succeed, server, Inv, ClientOK
<1>2. ASSUME NEW x \in Session, x # call[c].sess, Unused(x) PROVE Unused(x)'
  <2>1. ~Stored(x)' /\ recvs'[x] = recvs[x]
    BY <1>1, <1>2 DEF Unused, Stored
  <2> QED BY <1>1, <1>2, <2>1, UnusedKept
<1>3. \A d \in Caller : d # c => answer'[d] = answer[d]
  BY <1>1, AnswersKept
<1>4. Goes(c, "idle", NoSession, 0)
  BY ExchangeMoves
<1> QED BY <1>1, <1>2, <1>3, <1>4, BirthFrame

(* A thread begins a handshake or goes on with it. *)
LEMMA HandshakeBirth ==
  ASSUME Inv, BirthInv, NEW c \in Caller, NEW pc \in {"start", "finish"}, NEW s \in Session, NEW a,
         Goes(c, pc, s, a), call'[c].k = call[c].k,
         wire' = wire \cup {[kind |-> pc, from |-> c, k |-> call[c].k, sess |-> s, seq |-> 0]},
         UNCHANGED <<store, sends, recvs, expects, replies>>,
         made' = made \/ made' = made + 1, s <= made',
         Unused(s), \A d \in Caller : call[d].sess = s => d = c, \A m \in wire : m.sess # s,
         answer'[c] = NoAnswer, \A d \in Caller : d # c => answer'[d] = answer[d]
  PROVE  BirthInv'
<1> DEFINE n == [kind |-> pc, from |-> c, k |-> call[c].k, sess |-> s, seq |-> 0]
<1>1. /\ \A d \in Caller : d # c => call'[d] = call[d]
      /\ call'[c].pc = pc /\ call'[c].sess = s
  BY DEF Goes
<1>2. made \in Nat /\ made <= made' /\ s \in Nat /\ made' \in Nat
  BY DEF Inv, ClientOK, Session
<1>3. n.kind # "request" /\ n.sess = s /\ wire' = wire \cup {n}
  OBVIOUS
<1>4. Sent(c)' = n
  BY <1>1 DEF Sent
<1> HIDE DEF n
<1>5. ASSUME NEW x, Unused(x) PROVE Unused(x)'
  <2>1. ~Stored(x)'
    BY <1>5 DEF Unused, Stored
  <2>2. \A m \in wire' : RequestOf(m, x) => m \in wire
    BY <1>3 DEF RequestOf
  <2> QED BY <1>5, <2>1, <2>2, UnusedKept
<1>6. ASSUME NEW x \in Session, x > made'
      PROVE  (/\ Unused(x)
              /\ \A d \in Caller : call[d].sess # x
              /\ \A m \in wire : m.sess # x)'
  <2>1. x > made /\ x # s
    BY <1>2, <1>6 DEF Session
  <2>2. /\ Unused(x) /\ \A d \in Caller : call[d].sess # x
        /\ \A m \in wire : m.sess # x
    BY <2>1 DEF BirthInv, NewInv
  <2>3. Unused(x)'
    BY <2>2, <1>5
  <2> QED BY <1>1, <1>3, <2>1, <2>2, <2>3
<1>7. NewInv'
  BY <1>6 DEF NewInv
<1>8. ASSUME NEW d \in Caller, Handshaking(d)' PROVE Begun(d)'
  <2>1. PICK x : x = call'[d].sess
    OBVIOUS
  <2>2. CASE d = c
    <3>1. x = s
      BY <1>1, <2>1, <2>2
    <3>2. Unused(x)'
      BY <1>5, <3>1
    <3>3. Unused(call[d].sess)'
      BY <2>1, <3>2 DEF Unused, Stored, Quiet, RequestOf
    <3>4. \A e \in Caller : call'[e].sess = s => e = c
      BY <1>1
    <3>5. \A m \in wire' : m.sess = s => m = n
      BY <1>3
    <3> QED BY <1>4, <2>1, <2>2, <3>1, <3>3, <3>4, <3>5 DEF Begun
  <2>3. CASE d # c
    <3>1. call'[d] = call[d] /\ answer'[d] = answer[d] /\ call[d].sess = x
      BY <1>1, <2>1, <2>3
    <3>2. Handshaking(d) /\ Begun(d)
      BY <1>8, <3>1 DEF Handshaking, BirthInv
    <3>3. Unused(x) /\ x # s
      BY <2>3, <3>1, <3>2 DEF Begun
    <3>4. Unused(x)'
      BY <1>5, <3>3
    <3>5. Unused(call[d].sess)'
      BY <2>1, <3>4 DEF Unused, Stored, Quiet, RequestOf
    <3>6. \A e \in Caller : call'[e].sess = x => e = d
      BY <1>1, <3>1, <3>2, <3>3 DEF Begun
    <3>7. \A m \in wire' : m.sess = x => m = Sent(d) /\ answer[d] = NoAnswer
      BY <1>3, <3>1, <3>2, <3>3 DEF Begun
    <3>8. Sent(d)' = Sent(d)
      BY <3>1 DEF Sent
    <3> QED BY <2>1, <3>1, <3>5, <3>6, <3>7, <3>8 DEF Begun
  <2> QED BY <2>2, <2>3
<1>9. \A d \in Caller : call'[d].pc \in {"idle", "pick", "create"} => call'[d].sess = NoSession
  BY <1>1 DEF BirthInv
<1> QED BY <1>7, <1>8, <1>9 DEF BirthInv

LEMMA CreateBirth ==
  ASSUME Inv, OnceInv, BirthInv, NEW c \in Caller, Create(c) \/ Diagnose(c) PROVE BirthInv'
<1>1. /\ made < MaxSession /\ made' = made + 1 /\ made \in Nat /\ MaxSession \in Nat
      /\ wire' = wire \cup {[kind |-> "start", from |-> c, k |-> call[c].k, sess |-> made + 1,
                             seq |-> 0]}
      /\ UNCHANGED <<store, sends, recvs, expects, replies>> /\ answer' = answer
      /\ call[c].pc \in {"create", "idle"}
  BY Bounds DEF Create, Diagnose, SendStart, server, Inv, ClientOK
<1>2. PICK s : s = made + 1
  OBVIOUS
<1>3. s \in Session /\ s > made /\ s <= made'
  BY <1>1, <1>2 DEF Session
<1>4. Unused(s) /\ (\A d \in Caller : call[d].sess # s) /\ \A m \in wire : m.sess # s
  BY <1>3 DEF BirthInv, NewInv
<1>5. \E a : Goes(c, "start", s, a)
  BY <1>2, HandshakeMoves
<1>6. call'[c].k = call[c].k
  BY CallFacts DEF Create, Diagnose
<1>7. answer[c] = NoAnswer
  BY <1>1 DEF OnceInv, AnswerInv, Waits
<1> QED BY <1>1, <1>2, <1>3, <1>4, <1>5, <1>6, <1>7, HandshakeBirth

LEMMA StartedBirth ==
  ASSUME Inv, OnceInv, BirthInv, NEW c \in Caller, Started(c) PROVE BirthInv'
<1>1. PICK s : s = call[c].sess
  OBVIOUS
<1>2. /\ UNCHANGED <<store, sends, recvs, expects, replies, made>>
      /\ answer' = [answer EXCEPT ![c] = NoAnswer] /\ answer[c] # NoAnswer /\ Handshaking(c)
      /\ wire' = wire \cup {[kind |-> "finish", from |-> c, k |-> call[c].k, sess |-> s,
                             seq |-> 0]}
  BY <1>1 DEF Started, Receive, Handshaking, server
<1>3. s \in Session /\ made \in Nat
  <2>1. made \in Nat
    BY DEF Inv, ClientOK
  <2>2. call[c].sess \in Session
    BY <1>2, CallFacts DEF Handshaking, CallOK, InSession
  <2> QED BY <1>1, <2>1, <2>2
<1>4. Begun(c)
  BY <1>2 DEF BirthInv
<1>5. Unused(s) /\ (\A d \in Caller : call[d].sess = s => d = c) /\ \A m \in wire : m.sess # s
  BY <1>1, <1>2, <1>4 DEF Begun
<1>6. s <= made
  <2>1. ~(s > made)
    BY <1>1, <1>3 DEF BirthInv, NewInv
  <2> QED BY <1>3, <2>1 DEF Session
<1>7. Goes(c, "finish", s, call[c].attempt)
  BY <1>1, HandshakeMoves
<1>8. call'[c].k = call[c].k
  BY CallFacts DEF Started
<1>9. answer'[c] = NoAnswer /\ \A d \in Caller : d # c => answer'[d] = answer[d]
  BY <1>2, AnswersKept DEF Inv, ClientOK
<1> QED BY <1>2, <1>3, <1>5, <1>6, <1>7, <1>8, <1>9, HandshakeBirth

(* The server reads m, whatever it answers. *)
LEMMA ReadBirth ==
  ASSUME Inv, BirthInv, NEW m \in wire, wire' = wire \ {m},
         UNCHANGED <<store, sends, recvs, call, made>>,
         \A s \in Session :
           ~RequestOf(m, s) => expects'[s] = expects[s] /\ replies'[s] = replies[s],
         \A d \in Caller : answer'[d] = answer[d] \/ (Waited(m) /\ m.from = d)
  PROVE  BirthInv'
<1>1. ASSUME NEW x \in Session, Unused(x) PROVE Unused(x)'
  <2>1. ~Stored(x)' /\ ~RequestOf(m, x)
    BY <1>1 DEF Unused, Stored, Quiet
  <2> QED BY <1>1, <2>1, UnusedKept
<1>2. NewInv'
  BY <1>1 DEF BirthInv, NewInv
<1>3. ASSUME NEW d \in Caller, Handshaking(d)' PROVE Begun(d)'
  <2>1. Handshaking(d) /\ Begun(d)
    BY <1>3 DEF Handshaking, BirthInv
  <2>2. PICK x : x = call[d].sess
    OBVIOUS
  <2>3. x \in Session /\ Unused(x)
    BY <2>1, <2>2, CallFacts DEF Handshaking, CallOK, InSession, Begun
  <2>4. Unused(x)' /\ call'[d].sess = x
    BY <1>1, <2>2, <2>3
  <2>5. Unused(call[d].sess)'
    BY <2>4 DEF Unused, Stored, Quiet, RequestOf
  <2>6. ASSUME NEW n \in wire', n.sess = x PROVE n = Sent(d) /\ answer'[d] = NoAnswer
    <3>1. n \in wire /\ n # m /\ n = Sent(d) /\ answer[d] = NoAnswer
      BY <2>1, <2>2, <2>6 DEF Begun
    <3>2. ASSUME Waited(m), m.from = d PROVE FALSE
      <4>1. m.sess = x
        BY <2>2, <3>2 DEF Waited
      <4> QED BY <2>1, <2>2, <3>1, <4>1 DEF Begun
    <3> QED BY <3>1, <3>2
  <2>7. Sent(d)' = Sent(d)
    BY DEF Sent
  <2> QED BY <2>1, <2>2, <2>4, <2>5, <2>6, <2>7 DEF Begun
<1>4. \A d \in Caller : call'[d].pc \in {"idle", "pick", "create"} => call'[d].sess = NoSession
  BY DEF BirthInv
<1> QED BY <1>2, <1>3, <1>4 DEF BirthInv

(* What reading a message changes *)
LEMMA Read ==
  ASSUME Inv, NEW m \in wire, Serve(m) \/ Refuse(m) \/ DispatchRaises(m)
  PROVE  /\ wire' = wire \ {m}
         /\ UNCHANGED <<store, creator, holder, sends, recvs, call, outcome, made, restarts>>
         /\ \A s \in Session :
              ~RequestOf(m, s) => expects'[s] = expects[s] /\ replies'[s] = replies[s]
         /\ \A d \in Caller : answer'[d] = answer[d] \/ (Waited(m) /\ m.from = d)
<1>1. \E code, n : Reply(m, code, n)
  BY DEF Serve, ServeStart, ServeFinish, ServeRequest, ServeUnknown, ServeOutOfStep, Refuse,
     DispatchRaises
<1>2. /\ wire' = wire \ {m}
      /\ UNCHANGED <<store, creator, holder, sends, recvs, call, outcome, made, restarts>>
  BY <1>1 DEF Reply
<1>3. \A d \in Caller : answer'[d] = answer[d] \/ (Waited(m) /\ m.from = d)
  BY <1>1 DEF Reply, Inv, ClientOK
<1>4. ASSUME NEW s \in Session, ~RequestOf(m, s)
      PROVE  expects'[s] = expects[s] /\ replies'[s] = replies[s]
  <2>1. expects \in [Session -> Nat] /\ replies \in [Session -> Nat]
    BY DEF Inv, ServerOK
  <2>2. CASE m.kind # "request"
    BY <2>2 DEF Serve, ServeStart, ServeFinish, ServeRequest, ServeUnknown, ServeOutOfStep,
       Refuse, DispatchRaises, server
  <2>3. CASE m.sess # s
    <3>1. /\ expects' = expects \/ expects' = [expects EXCEPT ![m.sess] = @ + 1]
          /\ replies' = replies \/ replies' = [replies EXCEPT ![m.sess] = @ + 1]
      BY DEF Serve, ServeStart, ServeFinish, ServeRequest, ServeUnknown, ServeOutOfStep,
         Refuse, DispatchRaises, server
    <3> QED BY <2>1, <2>3, <3>1
  <2> QED BY <1>4, <2>2, <2>3 DEF RequestOf
<1> QED BY <1>2, <1>3, <1>4

LEMMA StillBirth ==
  ASSUME Inv, BirthInv, wire' \subseteq wire,
         UNCHANGED <<store, sends, recvs, expects, replies, call, made>>,
         wire' = {} \/ answer' = answer
  PROVE  BirthInv'
<1>1. ASSUME NEW x, Unused(x) PROVE Unused(x)'
  <2>1. ~Stored(x)'
    BY <1>1 DEF Unused, Stored
  <2> QED BY <1>1, <2>1, UnusedKept
<1>2. NewInv'
  BY <1>1 DEF BirthInv, NewInv
<1>3. ASSUME NEW d \in Caller, Handshaking(d)' PROVE Begun(d)'
  <2>1. Handshaking(d) /\ Begun(d)
    BY <1>3 DEF Handshaking, BirthInv
  <2>2. PICK x : x = call[d].sess
    OBVIOUS
  <2>3. Unused(x)'
    BY <1>1, <2>1, <2>2 DEF Begun
  <2>4. Unused(call[d].sess)'
    BY <2>2, <2>3 DEF Unused, Stored, Quiet, RequestOf
  <2>5. Sent(d)' = Sent(d)
    BY DEF Sent
  <2> QED BY <2>1, <2>4, <2>5 DEF Begun
<1>4. \A d \in Caller : call'[d].pc \in {"idle", "pick", "create"} => call'[d].sess = NoSession
  BY DEF BirthInv
<1> QED BY <1>2, <1>3, <1>4 DEF BirthInv

LEMMA StartBirth == Init => BirthInv
<1> SUFFICES ASSUME Init PROVE BirthInv
  OBVIOUS
<1>1. \A c \in Caller : call[c].pc = "idle" /\ call[c].sess = NoSession
  <2>1. 0 \in 0..MaxCall
    BY Bounds
  <2> QED BY <2>1, RestingOK DEF Init
<1>2. \A s \in Session : Unused(s)
  BY DEF Init, Unused, Stored, Quiet
<1>3. NewInv
  BY <1>1, <1>2, NoSessionOK DEF NewInv, Init
<1>4. \A c \in Caller : ~Handshaking(c)
  BY <1>1 DEF Handshaking
<1> QED BY <1>1, <1>3, <1>4 DEF BirthInv

LEMMA StepBirth == Inv /\ OnceInv /\ BirthInv /\ [Next]_vars => BirthInv'
<1> SUFFICES ASSUME Inv, OnceInv, BirthInv, [Next]_vars PROVE BirthInv'
  OBVIOUS
<1>1. ASSUME NEW c \in Caller, Begin(c) \/ Diagnose(c) \/ Proceed(c) \/ Timeout(c)
      PROVE  BirthInv'
  BY <1>1, QuietBirth, CreateBirth, StartedBirth, FinishedBirth, SendBirth, SucceedBirth
     DEF Proceed
<1>2. ASSUME NEW m \in wire, Serve(m) \/ Refuse(m) \/ DispatchRaises(m) PROVE BirthInv'
  BY <1>2, Read, ReadBirth
<1>3. CASE Restart
  BY <1>3, StillBirth DEF Restart
<1>4. ASSUME NEW s \in Session, Expire(s) PROVE BirthInv'
  BY <1>4, StillBirth DEF Expire, client
<1>5. CASE UNCHANGED vars
  BY <1>5, StillBirth DEF vars, client, server
<1> QED BY <1>1, <1>2, <1>3, <1>4, <1>5 DEF Next, Fault

-----------------------------------------------------------------------------
(* Both ends of a session agree on its numbers, up to the exchange that    *)
(* is under way on it; only a fault ends that.                             *)

Exchanging(c, s) == call[c].pc = "wait" /\ call[c].sess = s

Exchange(c, s) ==
  \/ /\ answer[c] = NoAnswer
     /\ \A m \in wire : RequestOf(m, s) => m = Sent(c)
     /\ call[c].seq = expects[s] /\ sends[s] = expects[s] + 1 /\ recvs[s] = replies[s]
  \/ /\ answer[c] = [code |-> "ok", seq |-> recvs[s]] /\ Quiet(s)
     /\ sends[s] = expects[s] /\ replies[s] = recvs[s] + 1

Level(s) == Quiet(s) /\ sends[s] = expects[s] /\ recvs[s] = replies[s]

InStep(s) ==
  /\ \A c \in Caller : Exchanging(c, s) => Exchange(c, s)
  /\ (\A c \in Caller : ~Exchanging(c, s)) => Level(s)

Good(s) == s \in live /\ InStep(s)

LEMMA ExchangeAlone ==
  ASSUME Inv, NEW c \in Caller, NEW d \in Caller, call[c].pc \in Allocated,
         call[d].pc \in Allocated, call[c].sess = call[d].sess
  PROVE  c = d
  BY DEF Inv, SeqInv

(* A thread takes a step elsewhere. *)
LEMMA ElsewhereInStep ==
  ASSUME NEW c \in Caller, NEW pc, NEW p, NEW a, Goes(c, pc, p, a), NEW s \in Session, InStep(s),
         ~Exchanging(c, s), pc # "wait" \/ p # s,
         sends'[s] = sends[s], recvs'[s] = recvs[s],
         expects'[s] = expects[s], replies'[s] = replies[s],
         \A m \in wire' : RequestOf(m, s) => m \in wire,
         \A d \in Caller : d # c => answer'[d] = answer[d]
  PROVE  InStep(s)'
<1>1. ASSUME NEW d \in Caller
      PROVE  Exchanging(d, s)' => Exchanging(d, s) /\ Exchange(d, s)'
  <2>1. CASE d = c
    BY <2>1 DEF Goes, Exchanging
  <2>2. CASE d # c
    <3>1. call'[d] = call[d] /\ answer'[d] = answer[d]
      BY <2>2 DEF Goes
    <3>2. SUFFICES ASSUME Exchanging(d, s) PROVE Exchange(d, s)'
      BY <3>1 DEF Exchanging
    <3>3. Exchange(d, s) /\ Sent(d)' = Sent(d)
      BY <3>1, <3>2 DEF InStep, Sent
    <3> QED BY <3>1, <3>3 DEF Exchange, Quiet, RequestOf
  <2> QED BY <2>1, <2>2
<1>2. ASSUME \A d \in Caller : ~Exchanging(d, s)' PROVE Level(s)'
  <2>1. \A d \in Caller : ~Exchanging(d, s)
    BY <1>2 DEF Exchanging, Goes
  <2> QED BY <2>1 DEF InStep, Level, Quiet, RequestOf
<1> QED BY <1>1, <1>2 DEF InStep

LEMMA SendInStep ==
  ASSUME Inv, OnceInv, NEW c \in Caller, Send(c), NEW s \in Session, s = call[c].sess, InStep(s)
  PROVE  InStep(s)'
<1>1. ASSUME NEW d \in Caller PROVE ~Exchanging(d, s)
  BY ExchangeAlone DEF Send, Allocated, Exchanging
<1>2. Level(s)
  BY <1>1 DEF InStep
<1>3. /\ \A d \in Caller : d # c => call'[d] = call[d]
      /\ call'[c].pc = "wait" /\ call'[c].sess = s /\ call'[c].seq = call[c].seq
      /\ call'[c].k = call[c].k
  BY ExchangeMoves DEF Goes
<1>4. call[c].seq = sends[s] /\ answer[c] = NoAnswer
  BY DEF Send, Inv, SeqInv, OnceInv, AnswerInv, Waits
<1>5. /\ answer' = answer
      /\ sends' = [sends EXCEPT ![s] = call[c].seq + 1]
      /\ UNCHANGED <<recvs, expects, replies>>
      /\ wire' = wire \cup {[kind |-> "request", from |-> c, k |-> call[c].k, sess |-> s,
                             seq |-> call[c].seq]}
  BY DEF Send, server
<1>6. sends'[s] = call[c].seq + 1
  BY <1>5 DEF Inv, ClientOK
<1>7. Sent(c)' = [kind |-> "request", from |-> c, k |-> call[c].k, sess |-> s,
                  seq |-> call[c].seq]
  BY <1>3 DEF Sent
<1>8. \A m \in wire' : RequestOf(m, s) => m = Sent(c)'
  BY <1>2, <1>5, <1>7 DEF Level, Quiet
<1>9. Exchange(c, s)'
  BY <1>2, <1>3, <1>4, <1>5, <1>6, <1>8 DEF Exchange, Level, RequestOf
<1>10. \A d \in Caller : Exchanging(d, s)' => d = c
  BY <1>1, <1>3 DEF Exchanging
<1>11. Exchanging(c, s)'
  BY <1>3 DEF Exchanging
<1> QED BY <1>9, <1>10, <1>11 DEF InStep

LEMMA SucceedInStep ==
  ASSUME Inv, NEW c \in Caller, Succeed(c), NEW s \in Session, s = call[c].sess, InStep(s)
  PROVE  InStep(s)'
<1>1. /\ answer[c] # NoAnswer /\ Exchanging(c, s)
      /\ recvs' = [recvs EXCEPT ![s] = @ + 1]
      /\ UNCHANGED <<sends, expects, replies, wire>>
  BY DEF Succeed, Receive, Exchanging, server
<1>2. Quiet(s) /\ sends[s] = expects[s] /\ replies[s] = recvs[s] + 1
  BY <1>1 DEF InStep, Exchange
<1>3. recvs'[s] = recvs[s] + 1
  BY <1>1 DEF Inv, ClientOK
<1>4. Level(s)'
  BY <1>1, <1>2, <1>3 DEF Level, Quiet, RequestOf
<1>5. ASSUME NEW d \in Caller PROVE ~Exchanging(d, s)'
  <2>1. CASE d = c
    BY <2>1, ExchangeMoves DEF Goes, Exchanging
  <2>2. CASE d # c
    <3>1. call'[d] = call[d]
      BY <2>2, ExchangeMoves DEF Goes
    <3> QED BY <1>1, <2>2, <3>1, ExchangeAlone DEF Exchanging, Allocated
  <2> QED BY <2>1, <2>2
<1> QED BY <1>4, <1>5 DEF InStep

(* The request under way on s is the one its thread waits for. *)
LEMMA RequestInStep ==
  ASSUME Inv, NEW s \in Session, InStep(s), NEW m \in wire, RequestOf(m, s)
  PROVE  /\ m.from \in Caller /\ Exchanging(m.from, s) /\ answer[m.from] = NoAnswer
         /\ m = Sent(m.from) /\ Waited(m) /\ m.seq = expects[s]
         /\ sends[s] = expects[s] + 1 /\ recvs[s] = replies[s]
         /\ \A n \in wire : RequestOf(n, s) => n = m
<1>1. PICK c \in Caller : Exchanging(c, s)
  BY DEF InStep, Level, Quiet
<1>2. /\ answer[c] = NoAnswer /\ \A n \in wire : RequestOf(n, s) => n = Sent(c)
      /\ call[c].seq = expects[s] /\ sends[s] = expects[s] + 1 /\ recvs[s] = replies[s]
  BY <1>1 DEF InStep, Exchange, Quiet
<1>3. m = Sent(c) /\ call[c].pc = "wait" /\ call[c].sess = s
  BY <1>1, <1>2 DEF Exchanging
<1>4. m.from = c /\ m.k = call[c].k /\ m.sess = s /\ m.seq = call[c].seq /\ m.kind = "request"
  BY <1>3 DEF Sent
<1>5. Waited(m)
  BY <1>2, <1>3, <1>4 DEF Waited, Waits
<1> QED BY <1>1, <1>2, <1>3, <1>4, <1>5

(* Another message is read. *)
LEMMA OtherInStep ==
  ASSUME Inv, NEW s \in Session, InStep(s), NEW m \in wire, ~RequestOf(m, s),
         Serve(m) \/ Refuse(m) \/ DispatchRaises(m)
  PROVE  InStep(s)'
<1>1. /\ wire' = wire \ {m} /\ UNCHANGED <<sends, recvs, call>>
      /\ expects'[s] = expects[s] /\ replies'[s] = replies[s]
      /\ \A d \in Caller : answer'[d] = answer[d] \/ (Waited(m) /\ m.from = d)
  BY Read
<1>2. m.kind \in Kind
  BY DEF Inv, Message
<1>3. ASSUME NEW d \in Caller, Exchanging(d, s) PROVE answer'[d] = answer[d]
  <2>1. ASSUME Waited(m), m.from = d PROVE FALSE
    BY <1>2, <1>3, <2>1 DEF Waited, Exchanging, RequestOf, Kind
  <2> QED BY <1>1, <2>1
<1>4. ASSUME NEW d \in Caller, Exchanging(d, s)' PROVE Exchange(d, s)'
  <2>1. Exchanging(d, s) /\ Exchange(d, s) /\ Sent(d)' = Sent(d)
    BY <1>1, <1>4 DEF Exchanging, InStep, Sent
  <2> QED BY <1>1, <1>3, <2>1 DEF Exchange, Quiet, RequestOf
<1>5. (\A d \in Caller : ~Exchanging(d, s)') => Level(s)'
  BY <1>1 DEF InStep, Exchanging, Level, Quiet, RequestOf
<1> QED BY <1>4, <1>5 DEF InStep

LEMMA ServeInStep ==
  ASSUME Inv, NEW s \in Session, Good(s), NEW m \in wire, RequestOf(m, s), Serve(m)
  PROVE  InStep(s)'
<1>1. PICK c \in Caller : c = m.from
  BY RequestInStep DEF Good
<1>2. /\ Exchanging(c, s) /\ Waited(m) /\ m.seq = expects[s]
      /\ sends[s] = expects[s] + 1 /\ recvs[s] = replies[s]
      /\ \A n \in wire : RequestOf(n, s) => n = m
  BY <1>1, RequestInStep DEF Good
<1>3. ServeRequest(m)
  BY <1>2 DEF Serve, ServeStart, ServeFinish, ServeUnknown, ServeOutOfStep, RequestOf, Good
<1>4. /\ wire' = wire \ {m} /\ UNCHANGED <<sends, recvs, call>>
      /\ answer' = [answer EXCEPT ![c] = [code |-> "ok", seq |-> replies[s]]]
      /\ expects' = [expects EXCEPT ![s] = @ + 1] /\ replies' = [replies EXCEPT ![s] = @ + 1]
  BY <1>1, <1>2, <1>3 DEF ServeRequest, Reply, RequestOf
<1>5. /\ expects'[s] = expects[s] + 1 /\ replies'[s] = replies[s] + 1
      /\ answer'[c] = [code |-> "ok", seq |-> replies[s]]
  BY <1>4 DEF Inv, ServerOK, ClientOK
<1>6. Quiet(s)'
  BY <1>2, <1>4 DEF Quiet, RequestOf
<1>7. Exchange(c, s)'
  BY <1>2, <1>4, <1>5, <1>6 DEF Exchange
<1>8. \A d \in Caller : Exchanging(d, s)' => d = c
  BY <1>2, <1>4, ExchangeAlone DEF Exchanging, Allocated
<1>9. Exchanging(c, s)'
  BY <1>2, <1>4 DEF Exchanging
<1> QED BY <1>7, <1>8, <1>9 DEF InStep

LEMMA MoveInStep ==
  ASSUME Inv, NEW c \in Caller, NEW s \in Session, InStep(s),
         Begin(c) \/ Pick(c) \/ Reuse(c) \/ Create(c) \/ Diagnose(c) \/ Started(c) \/ Finished(c)
           \/ Lock(c) \/ Retry(c) \/ Discard(c)
  PROVE  InStep(s)'
<1>1. call[c].pc # "wait" /\ UNCHANGED <<sends, recvs, expects, replies>>
  BY DEF Begin, Pick, Reuse, Create, Diagnose, Started, Finished, Lock, Retry, Discard, Receive,
     server
<1>2. \E pc, p, a : Goes(c, pc, p, a) /\ pc # "wait"
  BY PickMoves, HandshakeMoves, ExchangeMoves
<1>3. answer' = answer \/ answer' = [answer EXCEPT ![c] = NoAnswer]
  BY DEF Begin, Pick, Reuse, Create, Diagnose, Started, Finished, Lock, Retry, Discard
<1>4. \A d \in Caller : d # c => answer'[d] = answer[d]
  BY <1>3, AnswersKept
<1>5. \A m \in wire' : RequestOf(m, s) => m \in wire
  BY DEF Begin, Pick, Reuse, Create, Diagnose, Started, Finished, Lock, Retry, Discard,
     SendStart, RequestOf
<1> QED BY <1>1, <1>2, <1>4, <1>5, ElsewhereInStep DEF Exchanging

(* A call that is in no exchange on s fails. *)
LEMMA FailInStep ==
  ASSUME Inv, NEW c \in Caller, NEW s \in Session, InStep(s), ~Exchanging(c, s),
         Refused(c) \/ Timeout(c)
  PROVE  InStep(s)'
<1>1. UNCHANGED <<sends, recvs, expects, replies, wire>> /\ Fails(c)
  BY FailMoves DEF Refused, Timeout, server
<1>2. \E pc, p, a : Goes(c, pc, p, a) /\ pc # "wait"
  BY <1>1 DEF Fails
<1>3. \A d \in Caller : d # c => answer'[d] = answer[d]
  BY <1>1, AnswersKept DEF Fails
<1> QED BY <1>1, <1>2, <1>3, ElsewhereInStep

LEMMA NotRefused ==
  ASSUME NEW c \in Caller, NEW s \in Session, InStep(s), Exchanging(c, s) PROVE ~Refused(c)
<1>1. Exchange(c, s)
  BY DEF InStep
<1> QED BY <1>1 DEF Exchange, Refused, Exchanging

(* Nothing but a fault ends it. *)
LEMMA GoodStep ==
  ASSUME Inv, OnceInv, NEW s \in Session, Good(s),
         \/ \E c \in Caller : Begin(c) \/ Diagnose(c) \/ Proceed(c)
         \/ \E m \in wire : Serve(m)
  PROVE  Good(s)'
<1>1. ASSUME NEW c \in Caller, Begin(c) \/ Diagnose(c) \/ Proceed(c) PROVE Good(s)'
  <2>1. live' = live
    BY <1>1 DEF Proceed, Begin, Pick, Reuse, Create, Diagnose, Started, Finished, Lock, Retry,
       Discard, Send, Succeed, Refused, server
  <2>2. CASE Send(c)
    <3>1. CASE s = call[c].sess
      BY <2>1, <2>2, <3>1, SendInStep DEF Good
    <3>2. CASE s # call[c].sess
      <4>1. /\ sends' = [sends EXCEPT ![call[c].sess] = call[c].seq + 1]
            /\ UNCHANGED <<recvs, expects, replies>> /\ answer' = answer
            /\ \A m \in wire' : RequestOf(m, s) => m \in wire
        BY <2>2, <3>2 DEF Send, server, RequestOf
      <4>2. sends'[s] = sends[s]
        BY <3>2, <4>1 DEF Inv, ClientOK
      <4>3. Goes(c, "wait", call[c].sess, call[c].attempt) /\ ~Exchanging(c, s)
        BY <2>2, <3>2, ExchangeMoves DEF Exchanging
      <4> QED BY <2>1, <3>2, <4>1, <4>2, <4>3, ElsewhereInStep DEF Good
    <3> QED BY <3>1, <3>2
  <2>3. CASE Succeed(c)
    <3>1. CASE s = call[c].sess
      BY <2>1, <2>3, <3>1, SucceedInStep DEF Good
    <3>2. CASE s # call[c].sess
      <4>1. /\ recvs' = [recvs EXCEPT ![call[c].sess] = @ + 1]
            /\ UNCHANGED <<sends, expects, replies, wire>>
            /\ answer' = [answer EXCEPT ![c] = NoAnswer]
        BY <2>3 DEF Succeed, server
      <4>2. recvs'[s] = recvs[s]
        BY <3>2, <4>1 DEF Inv, ClientOK
      <4>3. Goes(c, "idle", NoSession, 0) /\ ~Exchanging(c, s)
        BY <2>3, <3>2, ExchangeMoves DEF Exchanging
      <4>4. \A d \in Caller : d # c => answer'[d] = answer[d]
        BY <4>1, AnswersKept
      <4>5. InStep(s)'
        BY <4>1, <4>2, <4>3, <4>4, ElsewhereInStep DEF Good
      <4> QED BY <2>1, <4>5 DEF Good
    <3> QED BY <3>1, <3>2
  <2>4. CASE Refused(c)
    BY <2>1, <2>4, NotRefused, FailInStep DEF Good
  <2>5. CASE ~Send(c) /\ ~Succeed(c) /\ ~Refused(c)
    BY <1>1, <2>1, <2>5, MoveInStep DEF Good, Proceed
  <2> QED BY <2>2, <2>3, <2>4, <2>5
<1>2. ASSUME NEW m \in wire, Serve(m) PROVE Good(s)'
  <2>1. s \in live'
    BY <1>2 DEF Good, Serve, ServeStart, ServeFinish, ServeRequest, ServeUnknown,
       ServeOutOfStep, server
  <2>2. InStep(s)'
    BY <1>2, OtherInStep, ServeInStep DEF Good
  <2> QED BY <2>1, <2>2 DEF Good
<1> QED BY <1>1, <1>2

-----------------------------------------------------------------------------
(* A session that is out of step is about to be dropped: the call that a   *)
(* fault has hit has been refused, or is dropping all sessions.            *)

Rejected(c) ==
  /\ call[c].pc = "wait" /\ answer[c] # NoAnswer
  /\ answer[c].code \in {"bad", "missing"} \/ answer[c].seq # recvs[call[c].sess]

Dooms(c, s) == call[c].sess = s /\ (call[c].pc \in {"retry", "discard"} \/ Rejected(c))

Doomed(s) == \E c \in Caller : Dooms(c, s)

StoredInv ==
  \A s \in Session : Stored(s) =>
    /\ \A m \in wire : m.sess = s => m.kind = "request"
    /\ s \in live => InStep(s) \/ Doomed(s)

(* The call stays so until it drops them. *)
LEMMA DoomedThread ==
  ASSUME Inv, OnceInv, RetryDiscards, NEW s \in Session, NEW d \in Caller, Dooms(d, s),
         NEW c \in Caller, Begin(c) \/ Diagnose(c) \/ Proceed(c) \/ Timeout(c)
  PROVE  Dooms(d, s)' \/ store' = <<>>
<1>1. CASE c = d
  <2>1. \/ (Retry(c) \/ Discard(c))
        \/ (Refused(c) \/ Timeout(c)) /\ call[c].pc = "wait"
    BY <1>1 DEF Dooms, Rejected, Begin, Diagnose, Proceed, Pick, Reuse, Create, Started,
       Finished, Lock, Send, Succeed, Refused, Timeout, Retry, Discard, Receive, Waits
  <2>2. CASE Retry(c) \/ Discard(c)
    BY <2>2 DEF Retry, Discard
  <2>3. CASE (Refused(c) \/ Timeout(c)) /\ call[c].pc = "wait"
    <3>1. Fails(c) /\ call[c].attempt # 0
      BY <2>3, FailMoves DEF Refused, Timeout, OnceInv, AttemptOK
    <3>2. \E pc \in {"retry", "discard"} : Goes(c, pc, call[c].sess, call[c].attempt)
      BY <3>1 DEF Fails, Goes
    <3> QED BY <1>1, <3>2 DEF Goes, Dooms
  <2> QED BY <2>1, <2>2, <2>3
<1>2. CASE c # d
  <2>1. call'[d] = call[d]
    BY <1>2, PickMoves, HandshakeMoves, ExchangeMoves, FailMoves
       DEF Goes, Fails, Proceed, Refused, Timeout
  <2>2. answer' = answer \/ answer' = [answer EXCEPT ![c] = NoAnswer]
    BY DEF Begin, Diagnose, Proceed, Pick, Reuse, Create, Started, Finished, Lock, Send,
       Succeed, Refused, Timeout, Retry, Discard, Fail
  <2>3. answer'[d] = answer[d]
    BY <1>2, <2>2, AnswersKept
  <2>4. call[d].pc = "wait" => recvs'[s] = recvs[s]
    <3>1. CASE Succeed(c)
      <4>1. call[d].pc = "wait" => call[c].sess # s
        BY <1>2, <3>1, ExchangeAlone DEF Succeed, Receive, Allocated, Dooms
      <4>2. recvs' = [recvs EXCEPT ![call[c].sess] = @ + 1] /\ recvs \in [Session -> Nat]
        BY <3>1 DEF Succeed, Inv, ClientOK
      <4> QED BY <4>1, <4>2
    <3>2. CASE ~Succeed(c)
      BY <3>2 DEF Begin, Diagnose, Proceed, Pick, Reuse, Create, Started, Finished, Lock, Send,
         Refused, Timeout, Retry, Discard
    <3> QED BY <3>1, <3>2
  <2> QED BY <2>1, <2>3, <2>4 DEF Dooms, Rejected
<1> QED BY <1>1, <1>2

LEMMA DoomedServer ==
  ASSUME Inv, NEW s \in Session, NEW d \in Caller, Dooms(d, s),
         \/ \E m \in wire : Serve(m) \/ Refuse(m) \/ DispatchRaises(m)
         \/ \E x \in Session : Expire(x)
  PROVE  Dooms(d, s)'
<1>1. UNCHANGED <<call, recvs>> /\ (call[d].pc = "wait" => answer'[d] = answer[d])
  <2>1. ASSUME NEW m \in wire, Serve(m) \/ Refuse(m) \/ DispatchRaises(m)
        PROVE  UNCHANGED <<call, recvs>> /\ (call[d].pc = "wait" => answer'[d] = answer[d])
    <3>1. UNCHANGED <<call, recvs>> /\ (answer'[d] = answer[d] \/ (Waited(m) /\ m.from = d))
      BY <2>1, Read
    <3> QED BY <3>1 DEF Dooms, Rejected, Waited
  <2> QED BY <2>1 DEF Expire, client
<1> QED BY <1>1 DEF Dooms, Rejected

LEMMA FaultStep ==
  ASSUME Inv, OnceInv, RetryDiscards, NEW s \in Session, Good(s), Fault, s \in live'
  PROVE  InStep(s)' \/ Doomed(s)'
<1>1. ASSUME NEW c \in Caller, Timeout(c) PROVE InStep(s)' \/ Doomed(s)'
  <2>1. CASE Exchanging(c, s)
    <3>1. Fails(c) /\ call[c].attempt # 0
      BY <1>1, <2>1, FailMoves DEF Timeout, OnceInv, AttemptOK, Exchanging
    <3>2. \E pc \in {"retry", "discard"} : Goes(c, pc, call[c].sess, call[c].attempt)
      BY <3>1 DEF Fails, Goes
    <3>3. Dooms(c, s)'
      BY <2>1, <3>2 DEF Goes, Dooms, Exchanging
    <3> QED BY <3>3 DEF Doomed
  <2>2. CASE ~Exchanging(c, s)
    BY <1>1, <2>2, FailInStep DEF Good
  <2> QED BY <2>1, <2>2
<1>2. ASSUME NEW m \in wire, Refuse(m) \/ DispatchRaises(m) PROVE InStep(s)' \/ Doomed(s)'
  <2>1. CASE RequestOf(m, s)
    <3>1. PICK c \in Caller : c = m.from
      BY <2>1, RequestInStep DEF Good
    <3>2. Exchanging(c, s) /\ Waited(m)
      BY <2>1, <3>1, RequestInStep DEF Good
    <3>3. /\ answer' = [answer EXCEPT ![c] = [code |-> "bad", seq |-> 0]]
          /\ UNCHANGED <<call, recvs>>
      BY <1>2, <3>1, <3>2 DEF Refuse, DispatchRaises, Reply
    <3>4. answer'[c] = [code |-> "bad", seq |-> 0] /\ answer'[c] # NoAnswer
      BY <3>3 DEF Inv, ClientOK, NoAnswer
    <3>5. Rejected(c)'
      BY <3>2, <3>3, <3>4 DEF Rejected, Exchanging
    <3>6. Dooms(c, s)'
      BY <3>2, <3>3, <3>5 DEF Dooms, Exchanging
    <3> QED BY <3>6 DEF Doomed
  <2>2. CASE ~RequestOf(m, s)
    BY <1>2, <2>2, OtherInStep DEF Good
  <2> QED BY <2>1, <2>2
<1>3. ASSUME NEW x \in Session, Expire(x) PROVE InStep(s)'
  <2>1. UNCHANGED <<call, answer, wire, sends, recvs, expects, replies>>
    BY <1>3 DEF Expire, client
  <2> QED BY <2>1 DEF Good, InStep, Exchanging, Exchange, Level, Quiet, RequestOf, Sent
<1>4. CASE Restart
  BY <1>4 DEF Restart
<1> QED BY <1>1, <1>2, <1>3, <1>4 DEF Fault

(* A session that a handshake has just made is in step. *)
LEMMA NewInStep ==
  ASSUME Inv, BirthInv, NEW c \in Caller, NEW s, s = call[c].sess, Handshaking(c)
  PROVE  InStep(s)
<1>1. Unused(s) /\ \A d \in Caller : call[d].sess = s => d = c
  BY DEF BirthInv, Begun
<1>2. \A d \in Caller : ~Exchanging(d, s)
  BY <1>1 DEF Exchanging, Handshaking
<1> QED BY <1>1, <1>2 DEF InStep, Level, Unused

LEMMA StoredBy ==
  ASSUME Inv, [Next]_vars, NEW s, Stored(s)'
  PROVE  Stored(s) \/ \E c \in Caller : Finished(c) /\ s = call[c].sess
<1>1. ASSUME NEW c \in Caller, Finished(c) PROVE Stored(s) \/ s = call[c].sess
  <2>1. PICK x : x = call[c].sess
    OBVIOUS
  <2>2. store \in Seq(Session) /\ store' = Append(store, x)
    BY <1>1, <2>1 DEF Finished, Inv, ClientOK
  <2>3. x \in Session
    BY <1>1, <2>1, CallFacts DEF Finished, Receive, CallOK, InSession
  <2>4. Stored(s) \/ s = x
    BY <2>2, <2>3, StoredMore
  <2> QED BY <2>1, <2>4
<1>2. ASSUME NEW m \in wire, Serve(m) \/ Refuse(m) \/ DispatchRaises(m) PROVE store' = store
  BY <1>2, Read
<1>3. ASSUME NEW c \in Caller, Begin(c) \/ Diagnose(c) \/ Proceed(c) \/ Timeout(c), ~Finished(c)
      PROVE  store' = store \/ store' = <<>>
  BY <1>3 DEF Proceed, Begin, Pick, Reuse, Create, Diagnose, Started, Lock, Retry, Discard, Send,
     Succeed, Refused, Timeout
<1>4. store' = store \/ store' = <<>> \/ \E c \in Caller : Finished(c)
  BY <1>2, <1>3 DEF Next, Fault, Restart, Expire, client, vars
<1> QED BY <1>1, <1>4, StoreLess

LEMMA StoredStep ==
  Inv /\ OnceInv /\ BirthInv /\ RetryDiscards /\ StoredInv /\ [Next]_vars => StoredInv'
<1> SUFFICES ASSUME Inv, OnceInv, BirthInv, RetryDiscards, StoredInv, [Next]_vars,
                    NEW s \in Session, Stored(s)'
             PROVE  (/\ \A m \in wire : m.sess = s => m.kind = "request"
                     /\ s \in live => InStep(s) \/ Doomed(s))'
  BY DEF StoredInv
<1>1. CASE ~Stored(s)
  <2>1. PICK c \in Caller : Finished(c) /\ s = call[c].sess
    BY <1>1, StoredBy
  <2>2. Handshaking(c) /\ answer[c] # NoAnswer /\ wire' = wire
    BY <2>1 DEF Finished, Receive, Handshaking
  <2>3. \A m \in wire : m.sess # s
    BY <2>1, <2>2 DEF BirthInv, Begun
  <2>4. InStep(s)'
    BY <2>1, <2>2, NewInStep, MoveInStep
  <2> QED BY <2>2, <2>3, <2>4
<1>2. CASE Stored(s)
  <2>1. /\ \A m \in wire : m.sess = s => m.kind = "request"
        /\ s \in live => InStep(s) \/ Doomed(s)
    BY <1>2 DEF StoredInv
  <2>2. s # made + 1
    BY <1>2 DEF BirthInv, NewInv, Unused, Inv, ClientOK
  <2>3. ASSUME NEW c \in Caller, Handshaking(c) PROVE call[c].sess # s
    BY <1>2, <2>3 DEF BirthInv, Begun, Unused
  <2>4. \A m \in wire' : m.sess = s => m.kind = "request"
    <3>1. ASSUME NEW c \in Caller, Begin(c) \/ Diagnose(c) \/ Proceed(c) \/ Timeout(c)
          PROVE  \A m \in wire' : m.sess = s => m \in wire \/ m.kind = "request"
      <4>1. CASE Started(c)
        BY <2>3, <4>1 DEF Started, Receive, Handshaking
      <4>2. CASE ~Started(c)
        BY <2>2, <3>1, <4>2 DEF Proceed, Begin, Pick, Reuse, Create, Diagnose, SendStart, Finished,
           Lock, Retry, Discard, Send, Succeed, Refused, Timeout
      <4> QED BY <4>1, <4>2
    <3>2. ASSUME NEW m \in wire, Serve(m) \/ Refuse(m) \/ DispatchRaises(m)
          PROVE  wire' \subseteq wire
      BY <3>2, Read
    <3> QED BY <2>1, <3>1, <3>2 DEF Next, Fault, Restart, Expire, vars
  <2>5. ASSUME s \in live' PROVE s \in live
    <3>1. ASSUME NEW m \in wire, ServeFinish(m) PROVE m.sess # s
      BY <2>1, <3>1 DEF ServeFinish
    <3>2. ASSUME NEW m \in wire, Serve(m) \/ Refuse(m) \/ DispatchRaises(m), ~ServeFinish(m)
          PROVE  live' = live
      BY <3>2 DEF Serve, ServeStart, ServeRequest, ServeUnknown, ServeOutOfStep, Refuse,
         DispatchRaises, server
    <3>3. ASSUME NEW m \in wire, ServeFinish(m) PROVE s \in live
      BY <2>5, <3>1, <3>3 DEF ServeFinish
    <3>4. ASSUME NEW c \in Caller, Begin(c) \/ Diagnose(c) \/ Proceed(c) \/ Timeout(c)
          PROVE  live' = live
      BY <3>4 DEF Proceed, Begin, Pick, Reuse, Create, Diagnose, Started, Finished, Lock, Retry,
         Discard, Send, Succeed, Refused, Timeout, server
    <3> QED BY <2>5, <3>2, <3>3, <3>4 DEF Next, Fault, Restart, Expire, vars, server
  <2>6. ASSUME s \in live' PROVE InStep(s)' \/ Doomed(s)'
    <3>1. CASE Good(s)
      <4>1. CASE UNCHANGED vars
        BY <3>1, <4>1 DEF Good, vars, client, server, InStep, Exchanging, Exchange, Level, Quiet,
           RequestOf, Sent
      <4>2. CASE \/ \E c \in Caller : Begin(c) \/ Diagnose(c) \/ Proceed(c)
                 \/ \E m \in wire : Serve(m)
        BY <3>1, <4>2, GoodStep DEF Good
      <4>3. CASE Fault
        BY <2>6, <3>1, <4>3, FaultStep
      <4> QED BY <4>1, <4>2, <4>3 DEF Next
    <3>2. CASE Doomed(s)
      <4>1. PICK d \in Caller : Dooms(d, s)
        BY <3>2 DEF Doomed
      <4>2. store' # <<>>
        BY DEF Stored
      <4>3. CASE UNCHANGED vars
        BY <4>1, <4>3 DEF vars, client, server, Doomed, Dooms, Rejected
      <4>4. CASE Restart
        BY <2>6, <4>4 DEF Restart
      <4>5. ASSUME NEW c \in Caller, Begin(c) \/ Diagnose(c) \/ Proceed(c) \/ Timeout(c)
            PROVE  Doomed(s)'
        BY <4>1, <4>2, <4>5, DoomedThread DEF Doomed
      <4>6. CASE \/ \E m \in wire : Serve(m) \/ Refuse(m) \/ DispatchRaises(m)
                 \/ \E x \in Session : Expire(x)
        BY <4>1, <4>6, DoomedServer DEF Doomed
      <4> QED BY <4>3, <4>4, <4>5, <4>6 DEF Next, Fault
    <3> QED BY <2>1, <2>5, <2>6, <3>1, <3>2 DEF Good
  <2> QED BY <2>4, <2>6
<1> QED BY <1>1, <1>2

LEMMA Birth == Spec => []BirthInv
<1>1. Spec => []OnceInv
  BY StartOnce, StepOnce, Invariance, PTL DEF Spec
<1> QED BY <1>1, StartBirth, StepBirth, Invariance, PTL DEF Spec

LEMMA Keeping == RetryDiscards => (Spec => []StoredInv)
<1> SUFFICES ASSUME RetryDiscards PROVE Spec => []StoredInv
  OBVIOUS
<1>1. Init => StoredInv
  BY DEF Init, StoredInv, Stored
<1>2. Spec => []OnceInv
  BY StartOnce, StepOnce, Invariance, PTL DEF Spec
<1> QED BY <1>1, <1>2, Birth, StoredStep, Invariance, PTL DEF Spec

(* A stored session that no call is using or about to drop agrees with the *)
(* server on both numbers, for any threads, faults and restarts            *)
(* (secure_transport.py:140-161).                                          *)
THEOREM StoredInStepHolds == Spec => []StoredInStep
<1>1. CASE RetryDiscards
  <2>1. Inv /\ StoredInv => StoredInStep
    <3> SUFFICES ASSUME Inv, StoredInv, NEW i \in DOMAIN store, store[i] \in live,
                        \A c \in Caller : call[c].sess = store[i] => call[c].pc \in {"lock", "idle"}
                 PROVE  sends[store[i]] = expects[store[i]] /\ recvs[store[i]] = replies[store[i]]
      BY DEF StoredInStep
    <3>1. PICK s : s = store[i]
      OBVIOUS
    <3>2. s \in Session /\ Stored(s)
      BY <3>1 DEF Stored, Inv, ClientOK
    <3>3. ~Doomed(s)
      BY <3>1 DEF Doomed, Dooms, Rejected
    <3>4. \A c \in Caller : ~Exchanging(c, s)
      BY <3>1 DEF Exchanging
    <3>5. Level(s)
      BY <3>1, <3>2, <3>3, <3>4 DEF StoredInv, InStep
    <3> QED BY <3>1, <3>5 DEF Level
  <2> QED BY <1>1, <2>1, Invariance, Keeping, PTL
<1>2. CASE ~RetryDiscards
  <2>1. Inv => StoredInStep
    BY <1>2 DEF StoredInStep
  <2> QED BY <2>1, Invariance, PTL
<1> QED BY <1>1, <1>2

-----------------------------------------------------------------------------
(* Why a fault fails at most one call of each thread.  A thread is Failing *)
(* when its call is bound to fail, or to be repeated, with no further      *)
(* fault: its session is out of step, its handshake cannot end well, or it *)
(* is dropping the sessions after a failure.  All threads are at risk      *)
(* while the first stored session, or the one its creator is about to      *)
(* store, is bad: that ends when a call that fails empties the store.      *)
(* A session made through the diagnostic endpoint that the server forgot   *)
(* after acknowledging it can put all threads at risk once more.  The      *)
(* charge for the failed calls, the threads at risk and such sessions      *)
(* grows only by faults and restarts.                                      *)

Ordinary ==
  \/ \E c \in Caller : Begin(c) \/ Diagnose(c) \/ Proceed(c)
  \/ \E m \in wire : Serve(m)

(* A fault that the server survives *)
Slip ==
  \/ \E c \in Caller : Timeout(c)
  \/ \E m \in wire : Refuse(m) \/ DispatchRaises(m)
  \/ \E s \in Session : Expire(s)

MakerInv ==
  \A c \in Caller : Handshaking(c) =>
    IF call[c].attempt = 0 THEN c \in Diagnostic ELSE creator = c

HandshakeGood(c) ==
  LET s == call[c].sess IN
  \/ call[c].pc = "start" /\ answer[c] = NoAnswer
  \/ call[c].pc = "start" /\ answer[c].code = "ok" /\ s \in pending
  \/ call[c].pc = "finish" /\ answer[c] = NoAnswer /\ s \in pending
  \/ call[c].pc = "finish" /\ answer[c].code = "ok" /\ s \in live

(* The server acknowledged the session of c and has forgotten it. *)
Dead(c) == call[c].pc = "finish" /\ answer[c].code = "ok" /\ call[c].sess \notin live

Exposed ==
  \/ store # <<>> /\ ~Good(Head(store))
  \/ \E c \in Caller : call[c].attempt # 0 /\ Dead(c)

Failing(c) ==
  /\ call[c].attempt # 0
  /\ \/ call[c].pc \in {"lock", "send", "wait"} /\ ~Good(call[c].sess)
     \/ Handshaking(c) /\ ~HandshakeGood(c)
     \/ call[c].pc = "discard"

AtRisk == {c \in Caller : Exposed \/ Failing(c)}

DeadPending == {c \in Caller : call[c].attempt = 0 /\ Dead(c)}

LEMMA MakerFrame ==
  ASSUME MakerInv, NEW c \in Caller, NEW pc, NEW s, NEW a, Goes(c, pc, s, a),
         pc \notin {"start", "finish"},
         creator' = creator \/ (creator = c /\ creator' = None)
  PROVE  MakerInv'
<1>1. ASSUME NEW d \in Caller, Handshaking(d)'
      PROVE  IF call'[d].attempt = 0 THEN d \in Diagnostic ELSE creator' = d
  <2>1. d # c /\ call'[d] = call[d]
    BY <1>1 DEF Goes, Handshaking
  <2>2. Handshaking(d)
    BY <1>1, <2>1 DEF Handshaking
  <2> QED BY <2>1, <2>2 DEF MakerInv
<1> QED BY <1>1 DEF MakerInv

LEMMA MakerStep == Inv /\ OnceInv /\ MakerInv /\ [Next]_vars => MakerInv'
<1> SUFFICES ASSUME Inv, OnceInv, MakerInv, [Next]_vars PROVE MakerInv'
  OBVIOUS
<1>1. ASSUME NEW c \in Caller,
             Begin(c) \/ Pick(c) \/ Reuse(c) \/ Lock(c) \/ Send(c) \/ Succeed(c) \/ Refused(c)
               \/ Timeout(c) \/ Retry(c) \/ Discard(c)
      PROVE  MakerInv'
  <2>1. \E pc, s, a : Goes(c, pc, s, a) /\ pc \notin {"start", "finish"}
    BY <1>1, PickMoves, ExchangeMoves, FailMoves DEF Fails, Refused, Timeout
  <2>2. creator' = creator \/ (creator = c /\ creator' = None)
    BY <1>1 DEF Begin, Pick, Reuse, Lock, Send, Succeed, Refused, Timeout, Retry, Discard, Fail,
       Unlock
  <2> QED BY <2>1, <2>2, MakerFrame
<1>2. ASSUME NEW c \in Caller, Finished(c) PROVE MakerInv'
  <2>1. Handshaking(c)
    BY <1>2 DEF Finished, Receive, Handshaking
  <2>2. call[c].attempt # 0 => creator = c
    BY <2>1 DEF MakerInv
  <2>3. creator' = creator \/ (creator = c /\ creator' = None)
    BY <1>2, <2>2 DEF Finished
  <2>4. \E pc, s, a : Goes(c, pc, s, a) /\ pc \notin {"start", "finish"}
    BY <1>2, HandshakeMoves
  <2> QED BY <2>3, <2>4, MakerFrame
<1>3. ASSUME NEW c \in Caller, Create(c) \/ Diagnose(c) \/ Started(c),
             NEW d \in Caller, Handshaking(d)'
      PROVE  IF call'[d].attempt = 0 THEN d \in Diagnostic ELSE creator' = d
  <2>1. CASE d = c
    <3>1. CASE Create(c)
      <4>1. call[c].attempt # 0 /\ creator' = c
        BY <3>1 DEF Create, OnceInv, AttemptOK
      <4> QED BY <2>1, <3>1, <4>1, HandshakeMoves DEF Goes
    <3>2. CASE Diagnose(c)
      BY <2>1, <3>2, HandshakeMoves DEF Goes, Diagnose
    <3>3. CASE Started(c)
      <4>1. Handshaking(c) /\ creator' = creator
        BY <3>3 DEF Started, Receive, Handshaking
      <4> QED BY <2>1, <3>3, <4>1, HandshakeMoves DEF Goes, MakerInv
    <3> QED BY <1>3, <3>1, <3>2, <3>3
  <2>2. CASE d # c
    <3>1. call'[d] = call[d]
      BY <1>3, <2>2, HandshakeMoves DEF Goes
    <3>2. Handshaking(d)
      BY <1>3, <3>1 DEF Handshaking
    <3>3. creator' = creator \/ creator = None
      BY <1>3 DEF Create, Diagnose, Started
    <3> QED BY <3>1, <3>2, <3>3, Bounds DEF MakerInv
  <2> QED BY <2>1, <2>2
<1>4. ASSUME NEW c \in Caller, Create(c) \/ Diagnose(c) \/ Started(c) PROVE MakerInv'
  BY <1>3, <1>4 DEF MakerInv
<1>5. ASSUME UNCHANGED <<call, creator>> PROVE MakerInv'
  BY <1>5 DEF MakerInv, Handshaking
<1>6. ASSUME NEW m \in wire, Serve(m) \/ Refuse(m) \/ DispatchRaises(m) PROVE MakerInv'
  BY <1>5, <1>6, Read
<1>7. CASE UNCHANGED vars \/ Restart \/ \E s \in Session : Expire(s)
  BY <1>5, <1>7 DEF vars, client, Restart, Expire
<1> QED BY <1>1, <1>2, <1>4, <1>6, <1>7 DEF Next, Fault, Proceed

LEMMA ThreadServer ==
  ASSUME NEW c \in Caller, Begin(c) \/ Diagnose(c) \/ Proceed(c) \/ Timeout(c)
  PROVE  pending' = pending /\ live' = live
  BY DEF Proceed, Begin, Pick, Reuse, Create, Diagnose, Started, Finished, Lock, Retry, Discard,
     Send, Succeed, Refused, Timeout, server

LEMMA ThreadOthers ==
  ASSUME Inv, NEW c \in Caller, Begin(c) \/ Diagnose(c) \/ Proceed(c) \/ Timeout(c),
         NEW d \in Caller, d # c
  PROVE  call'[d] = call[d] /\ answer'[d] = answer[d]
<1>1. call'[d] = call[d]
  BY PickMoves, HandshakeMoves, ExchangeMoves, FailMoves
     DEF Goes, Fails, Proceed, Refused, Timeout
<1>2. answer' = answer \/ answer' = [answer EXCEPT ![c] = NoAnswer]
  BY DEF Begin, Diagnose, Proceed, Pick, Reuse, Create, Started, Finished, Lock, Send,
     Succeed, Refused, Timeout, Retry, Discard, Fail
<1> QED BY <1>1, <1>2, AnswersKept

(* No acknowledged session is forgotten while the server lives. *)
LEMMA DeadStep ==
  ASSUME Inv, OnceInv, Ordinary \/ Slip, NEW d \in Caller, Dead(d)'
  PROVE  Dead(d) /\ call'[d] = call[d]
<1>1. ASSUME NEW c \in Caller, Begin(c) \/ Diagnose(c) \/ Proceed(c) \/ Timeout(c)
      PROVE  Dead(d) /\ call'[d] = call[d]
  <2>1. CASE d # c
    BY <1>1, <2>1, ThreadServer, ThreadOthers DEF Dead
  <2>2. CASE d = c
    <3>1. call'[c].pc = "finish" /\ answer'[c].code = "ok"
      BY <2>2 DEF Dead
    <3>2. Started(c)
      BY <1>1, <3>1, PickMoves, HandshakeMoves, ExchangeMoves, FailMoves
         DEF Goes, Fails, Proceed, Refused, Timeout
    <3>3. answer'[c] = NoAnswer
      BY <3>2 DEF Started, Inv, ClientOK
    <3> QED BY <3>1, <3>3 DEF NoAnswer
  <2> QED BY <2>1, <2>2
<1>2. ASSUME NEW m \in wire, Serve(m) \/ Refuse(m) \/ DispatchRaises(m)
      PROVE  Dead(d) /\ call'[d] = call[d]
  <2>1. call' = call /\ (answer'[d] = answer[d] \/ (Waited(m) /\ m.from = d))
    BY <1>2, Read
  <2>2. live \subseteq live'
    BY <1>2 DEF Serve, ServeStart, ServeFinish, ServeRequest, ServeUnknown, ServeOutOfStep,
       Refuse, DispatchRaises, server
  <2>3. CASE answer'[d] = answer[d]
    BY <2>1, <2>2, <2>3 DEF Dead
  <2>4. CASE Waited(m) /\ m.from = d
    <3>1. m.kind = "finish" /\ m.sess = call[d].sess
      BY <2>1, <2>4 DEF Waited, Dead
    <3>2. ServeFinish(m) \/ Refuse(m)
      BY <1>2, <3>1 DEF Serve, ServeStart, ServeRequest, ServeUnknown, ServeOutOfStep,
         DispatchRaises
    <3>3. m.sess \in live' \/ \E code \in {"bad", "missing"} : Reply(m, code, 0)
      BY <3>2 DEF ServeFinish, Refuse
    <3>4. answer'[d].code = "ok" /\ m.sess \notin live'
      BY <2>1, <3>1 DEF Dead
    <3>5. PICK code \in {"bad", "missing"} : Reply(m, code, 0)
      BY <3>3, <3>4
    <3>6. answer'[d] = [code |-> code, seq |-> 0]
      BY <2>4, <3>5 DEF Reply, Inv, ClientOK
    <3> QED BY <3>4, <3>6
  <2> QED BY <2>1, <2>3, <2>4
<1>3. ASSUME NEW s \in Session, Expire(s) PROVE Dead(d) /\ call'[d] = call[d]
  BY <1>3 DEF Expire, client, Dead
<1> QED BY <1>1, <1>2, <1>3 DEF Ordinary, Slip

LEMMA HeadKnown ==
  ASSUME Inv, store # <<>> PROVE Head(store) \in Session /\ Stored(Head(store))
  BY StoredKnown DEF Inv, ClientOK

LEMMA FinishedGood ==
  ASSUME Inv, OnceInv, BirthInv, NEW c \in Caller, Finished(c), NEW s, s = call[c].sess
  PROVE  s \in Session /\ (Dead(c) \/ (Good(s) /\ Good(s)'))
<1>1. Handshaking(c) /\ call[c].pc = "finish" /\ answer[c].code = "ok"
  BY DEF Finished, Receive, Handshaking
<1>2. s \in Session
  BY <1>1, CallFacts DEF CallOK, InSession
<1>3. ASSUME ~Dead(c) PROVE Good(s) /\ Good(s)'
  <2>1. s \in live /\ live' = live
    BY <1>1, <1>3 DEF Dead, Finished, server
  <2>2. InStep(s)
    BY <1>1, NewInStep
  <2>3. InStep(s)'
    BY <1>2, <2>2, MoveInStep
  <2> QED BY <2>1, <2>2, <2>3 DEF Good
<1> QED BY <1>2, <1>3

(* Without a fault only a dead session that is stored by the diagnostic    *)
(* endpoint puts all threads at risk.                                      *)
LEMMA ExposedStep ==
  ASSUME Inv, OnceInv, BirthInv, Ordinary, Exposed',
         \A c \in Caller : ~(Finished(c) /\ call[c].attempt = 0 /\ Dead(c))
  PROVE  Exposed
<1>1. ASSUME NEW d \in Caller, call'[d].attempt # 0, Dead(d)' PROVE Exposed
  BY <1>1, DeadStep DEF Exposed
<1>2. ASSUME store' # <<>>, ~Good(Head(store))' PROVE Exposed
  <2>1. PICK s : s = Head(store')
    OBVIOUS
  <2>2. ~Good(s)'
    BY <1>2, <2>1 DEF Good, InStep, Exchanging, Exchange, Level, Quiet, RequestOf, Sent
  <2>3. CASE store # <<>> /\ s = Head(store)
    BY <2>2, <2>3, HeadKnown, GoodStep DEF Exposed, Ordinary
  <2>4. ASSUME NEW c \in Caller, Finished(c) PROVE Exposed
    <3>1. PICK x : x = call[c].sess
      OBVIOUS
    <3>2. x \in Session /\ store \in Seq(Session) /\ store' = Append(store, x)
      BY <2>4, <3>1, FinishedGood DEF Finished, Inv, ClientOK
    <3>3. s = IF store = <<>> THEN x ELSE Head(store)
      BY <2>1, <3>2, StoredMore
    <3>4. CASE store = <<>>
      BY <2>2, <2>4, <3>1, <3>3, <3>4, FinishedGood DEF Exposed
    <3> QED BY <2>3, <3>3, <3>4
  <2>5. store' = store \/ store' = <<>> \/ \E c \in Caller : Finished(c)
    <3>1. ASSUME NEW m \in wire, Serve(m) PROVE store' = store
      BY <3>1, Read
    <3>2. ASSUME NEW c \in Caller, Begin(c) \/ Diagnose(c) \/ Proceed(c), ~Finished(c)
          PROVE  store' = store \/ store' = <<>>
      BY <3>2 DEF Proceed, Begin, Pick, Reuse, Create, Diagnose, Started, Lock, Retry, Discard,
         Send, Succeed, Refused
    <3> QED BY <3>1, <3>2 DEF Ordinary
  <2> QED BY <1>2, <2>1, <2>3, <2>4, <2>5
<1> QED BY <1>1, <1>2 DEF Exposed

LEMMA BadBefore ==
  ASSUME Inv, OnceInv, Ordinary, NEW s \in Session, ~Good(s)' PROVE ~Good(s)
  BY GoodStep DEF Ordinary

(* A failure is foreseen: what a thread does itself *)
LEMMA OwnFailing ==
  ASSUME Inv, OnceInv, BirthInv, ~Exposed, NEW c \in Caller, Begin(c) \/ Diagnose(c) \/ Proceed(c),
         Failing(c)'
  PROVE  Failing(c) /\ ~Discard(c)
<1>1. Ordinary
  BY DEF Ordinary
<1>2. call'[c].attempt # 0
  BY DEF Failing
<1>3. CASE Begin(c) \/ Retry(c)
  <2>1. call'[c].pc = "pick"
    BY <1>3, PickMoves, ExchangeMoves DEF Goes
  <2> QED BY <2>1 DEF Failing, Handshaking
<1>4. CASE Diagnose(c) \/ Succeed(c) \/ Discard(c)
  BY <1>2, <1>4, HandshakeMoves, ExchangeMoves DEF Goes
<1>5. CASE Pick(c) \/ Reuse(c)
  <2>1. CASE store = <<>> /\ Goes(c, "create", call[c].sess, call[c].attempt)
    BY <2>1 DEF Goes, Failing, Handshaking
  <2>2. CASE store # <<>> /\ Goes(c, "lock", Head(store), call[c].attempt)
    <3>1. PICK s : s = Head(store)
      OBVIOUS
    <3>2. s \in Session /\ Good(s)
      BY <2>2, <3>1, HeadKnown DEF Exposed
    <3>3. Good(s)' /\ call'[c].sess = s /\ call'[c].pc = "lock"
      BY <1>1, <2>2, <3>1, <3>2, BadBefore DEF Goes
    <3>4. Good(call[c].sess)'
      BY <3>3 DEF Good, InStep, Exchanging, Exchange, Level, Quiet, RequestOf, Sent
    <3> QED BY <3>3, <3>4 DEF Failing, Handshaking
  <2> QED BY <1>5, <2>1, <2>2, PickMoves
<1>6. CASE Create(c)
  <2>1. call'[c].pc = "start"
    BY <1>6, HandshakeMoves DEF Goes
  <2>2. answer'[c] = NoAnswer
    BY <1>6 DEF Create, OnceInv, AnswerInv, Waits
  <2> QED BY <2>1, <2>2 DEF Failing, HandshakeGood, Handshaking
<1>7. CASE Started(c)
  <2>1. /\ call'[c].pc = "finish" /\ call'[c].sess = call[c].sess
        /\ call'[c].attempt = call[c].attempt /\ pending' = pending
    BY <1>7, HandshakeMoves DEF Goes, Started, server
  <2>2. answer'[c] = NoAnswer /\ call[c].pc = "start" /\ answer[c].code = "ok"
    BY <1>7 DEF Started, Receive, Inv, ClientOK
  <2>3. answer[c] # NoAnswer /\ ~Discard(c)
    BY <2>2 DEF NoAnswer, Discard
  <2>4. call[c].sess \notin pending
    BY <2>1, <2>2 DEF Failing, Handshaking, HandshakeGood
  <2>5. Handshaking(c) /\ ~HandshakeGood(c)
    BY <2>2, <2>3, <2>4 DEF Handshaking, HandshakeGood
  <2> QED BY <1>2, <2>1, <2>3, <2>5 DEF Failing
<1>8. CASE Finished(c)
  <2>1. /\ call[c].attempt # 0 /\ call'[c].pc = "lock" /\ call'[c].sess = call[c].sess
    BY <1>2, <1>8, HandshakeMoves DEF Goes
  <2>2. PICK s : s = call[c].sess
    OBVIOUS
  <2>3. ~Dead(c)
    BY <2>1 DEF Exposed
  <2>4. Good(s)' /\ call'[c].sess = s
    BY <1>8, <2>1, <2>2, <2>3, FinishedGood
  <2>5. Good(call[c].sess)'
    BY <2>4 DEF Good, InStep, Exchanging, Exchange, Level, Quiet, RequestOf, Sent
  <2> QED BY <2>1, <2>5 DEF Failing, Handshaking
<1>9. CASE Lock(c) \/ Send(c)
  <2>1. /\ call[c].pc \in {"lock", "send"} /\ call'[c].pc \in {"send", "wait"}
        /\ call'[c].sess = call[c].sess /\ call'[c].attempt = call[c].attempt
    BY <1>9, ExchangeMoves DEF Goes, Lock, Send
  <2>2. PICK s : s = call[c].sess
    OBVIOUS
  <2>3. s \in Session
    BY <2>1, <2>2, CallFacts DEF CallOK, InSession
  <2>4. ~Good(call[c].sess)'
    BY <2>1 DEF Failing, Handshaking
  <2>5. ~Good(s)'
    BY <2>1, <2>2, <2>4 DEF Good, InStep, Exchanging, Exchange, Level, Quiet, RequestOf, Sent
  <2>6. ~Good(s)
    BY <1>1, <2>3, <2>5, BadBefore
  <2>7. ~Discard(c)
    BY <2>1 DEF Discard
  <2> QED BY <1>2, <2>1, <2>2, <2>6, <2>7 DEF Failing
<1>10. CASE Refused(c)
  <2>1. Fails(c)
    BY <1>10, FailMoves DEF Refused
  <2>2. call[c].attempt # 0 /\ ~Discard(c)
    BY <1>2, <1>10, <2>1 DEF Fails, Goes, Refused, Waits, Discard
  <2>3. CASE call[c].pc = "wait"
    <3>1. call[c].sess \in Session /\ Exchanging(c, call[c].sess)
      BY <2>3, CallFacts DEF CallOK, InSession, Exchanging
    <3>2. ~Good(call[c].sess)
      BY <1>10, <3>1, NotRefused DEF Good
    <3> QED BY <2>2, <2>3, <3>2 DEF Failing
  <2>4. CASE call[c].pc # "wait"
    <3>1. Handshaking(c) /\ answer[c] # NoAnswer /\ answer[c].code \in {"bad", "missing"}
      BY <1>10, <2>4 DEF Refused, Waits, Handshaking
    <3>2. ~HandshakeGood(c)
      BY <3>1 DEF HandshakeGood
    <3> QED BY <2>2, <3>1, <3>2 DEF Failing
  <2> QED BY <2>3, <2>4
<1> QED BY <1>3, <1>4, <1>5, <1>6, <1>7, <1>8, <1>9, <1>10 DEF Proceed

(* What the other threads' steps and the server do to a thread *)
LEMMA OthersFailing ==
  ASSUME Inv, OnceInv, NEW c \in Caller, Begin(c) \/ Diagnose(c) \/ Proceed(c),
         NEW d \in Caller, d # c, Failing(d)'
  PROVE  Failing(d)
<1>1. call'[d] = call[d] /\ answer'[d] = answer[d] /\ pending' = pending /\ live' = live
  BY ThreadOthers, ThreadServer
<1>2. CASE call[d].pc \in {"lock", "send", "wait"}
  <2>1. PICK s : s = call[d].sess
    OBVIOUS
  <2>2. s \in Session
    BY <1>2, <2>1, CallFacts DEF CallOK, InSession
  <2>3. ~Good(call[d].sess)' /\ call[d].attempt # 0
    BY <1>1, <1>2 DEF Failing, Handshaking
  <2>4. ~Good(s)'
    BY <1>1, <2>1, <2>3 DEF Good, InStep, Exchanging, Exchange, Level, Quiet, RequestOf, Sent
  <2>5. ~Good(s)
    BY <2>2, <2>4, BadBefore DEF Ordinary
  <2> QED BY <1>2, <2>1, <2>3, <2>5 DEF Failing
<1>3. CASE call[d].pc \notin {"lock", "send", "wait"}
  BY <1>1, <1>3 DEF Failing, Handshaking, HandshakeGood
<1> QED BY <1>2, <1>3

LEMMA HandshakeServed ==
  ASSUME Inv, BirthInv, NEW m \in wire, Serve(m), NEW d \in Caller, HandshakeGood(d)
  PROVE  HandshakeGood(d)'
<1>1. PICK s : s = call[d].sess
  OBVIOUS
<1>2. call' = call /\ (answer'[d] = answer[d] \/ (Waited(m) /\ m.from = d))
  BY Read
<1>3. m.sess # s => pending \subseteq pending' \cup {m.sess}
  BY DEF Serve, ServeStart, ServeFinish, ServeRequest, ServeUnknown, ServeOutOfStep, server
<1>4. live \subseteq live' /\ (pending \subseteq pending' \/ ServeFinish(m))
  BY DEF Serve, ServeStart, ServeFinish, ServeRequest, ServeUnknown, ServeOutOfStep, server
<1>5. Handshaking(d)
  BY DEF HandshakeGood, Handshaking
<1>6. m.sess = s => m = Sent(d) /\ answer[d] = NoAnswer
  BY <1>1, <1>5 DEF BirthInv, Begun
<1>7. CASE Waited(m) /\ m.from = d
  <2>1. m.sess = s /\ m.kind = call[d].pc /\ answer[d] = NoAnswer
    BY <1>1, <1>5, <1>7 DEF Waited, Handshaking
  <2>2. CASE call[d].pc = "start"
    <3>1. Reply(m, "ok", 0) /\ s \in pending'
      BY <2>1, <2>2 DEF Serve, ServeStart, ServeFinish, ServeRequest, ServeUnknown, ServeOutOfStep
    <3>2. answer'[d] = [code |-> "ok", seq |-> 0]
      BY <1>7, <3>1 DEF Reply, Inv, ClientOK
    <3> QED BY <1>1, <1>2, <2>2, <3>1, <3>2 DEF HandshakeGood
  <2>3. CASE call[d].pc = "finish"
    <3>1. s \in pending
      BY <1>1, <2>1, <2>3 DEF HandshakeGood, NoAnswer
    <3>2. Reply(m, "ok", 0) /\ s \in live'
      BY <2>1, <2>3, <3>1 DEF Serve, ServeStart, ServeFinish, ServeRequest, ServeUnknown,
         ServeOutOfStep
    <3>3. answer'[d] = [code |-> "ok", seq |-> 0]
      BY <1>7, <3>2 DEF Reply, Inv, ClientOK
    <3> QED BY <1>1, <1>2, <2>3, <3>2, <3>3 DEF HandshakeGood
  <2> QED BY <1>5, <2>2, <2>3 DEF Handshaking
<1>8. CASE ~(Waited(m) /\ m.from = d)
  <2>1. answer'[d] = answer[d]
    BY <1>2, <1>8
  <2>2. m.sess # s \/ call[d].pc = "start"
    <3>1. ASSUME m.sess = s PROVE Waited(m) /\ m.from = d
      <4>1. m = Sent(d) /\ answer[d] = NoAnswer /\ call[d].pc # "wait"
        BY <1>5, <1>6, <3>1 DEF Handshaking
      <4>2. m.from = d /\ m.k = call[d].k /\ m.sess = call[d].sess /\ m.kind = call[d].pc
        BY <4>1 DEF Sent
      <4> QED BY <1>5, <4>1, <4>2 DEF Waited, Waits, Handshaking
    <3> QED BY <1>8, <3>1
  <2>3. s \in pending /\ answer[d] # NoAnswer => s \in pending'
    BY <1>3, <1>6
  <2>4. s \in pending /\ call[d].pc = "finish" => s \in pending'
    BY <1>3, <2>2
  <2> QED BY <1>1, <1>2, <1>4, <2>1, <2>3, <2>4 DEF HandshakeGood, NoAnswer
<1> QED BY <1>7, <1>8

LEMMA ServedFailing ==
  ASSUME Inv, OnceInv, BirthInv, NEW m \in wire, Serve(m), NEW d \in Caller, Failing(d)'
  PROVE  Failing(d)
<1>1. call' = call
  BY Read
<1>2. CASE call[d].pc \in {"lock", "send", "wait"}
  <2>1. PICK s : s = call[d].sess
    OBVIOUS
  <2>2. s \in Session
    BY <1>2, <2>1, CallFacts DEF CallOK, InSession
  <2>3. ~Good(call[d].sess)' /\ call[d].attempt # 0
    BY <1>1, <1>2 DEF Failing, Handshaking
  <2>4. ~Good(s)'
    BY <1>1, <2>1, <2>3 DEF Good, InStep, Exchanging, Exchange, Level, Quiet, RequestOf, Sent
  <2>5. ~Good(s)
    BY <2>2, <2>4, BadBefore DEF Ordinary
  <2> QED BY <1>2, <2>1, <2>3, <2>5 DEF Failing
<1>3. CASE call[d].pc \notin {"lock", "send", "wait"}
  BY <1>1, <1>3, HandshakeServed DEF Failing, Handshaking
<1> QED BY <1>2, <1>3

(* The charge *)

Charged ==
  Cardinality(Failed) + Cardinality(AtRisk) + Cardinality(Caller) * Cardinality(DeadPending)
    <= Cardinality(Caller) * (faults + restarts * (1 + Cardinality(Diagnostic)))

LEMMA Sizes ==
  /\ \A S : S \subseteq Caller =>
       IsFiniteSet(S) /\ Cardinality(S) \in Nat /\ Cardinality(S) <= Cardinality(Caller)
  /\ \A S : S \subseteq Request => IsFiniteSet(S) /\ Cardinality(S) \in Nat
  /\ Cardinality(Caller) \in Nat /\ Cardinality(Diagnostic) \in Nat
<1>1. IsFiniteSet(Caller) /\ Diagnostic \subseteq Caller
  BY SecureSessionAssumption
<1>2. ASSUME NEW S, S \subseteq Caller
      PROVE  IsFiniteSet(S) /\ Cardinality(S) \in Nat /\ Cardinality(S) <= Cardinality(Caller)
  BY <1>1, <1>2, FS_Subset, FS_CardinalityType
<1>3. IsFiniteSet(1..MaxCall)
  <2>1. 1 \in Int /\ MaxCall \in Int
    BY Bounds
  <2> QED BY <2>1, FS_Interval
<1>4. IsFiniteSet(Request)
  BY <1>1, <1>3, FS_Product DEF Request
<1>5. ASSUME NEW S, S \subseteq Request PROVE IsFiniteSet(S) /\ Cardinality(S) \in Nat
  BY <1>4, <1>5, FS_Subset, FS_CardinalityType
<1> QED BY <1>1, <1>2, <1>5, FS_CardinalityType

LEMMA Within ==
  /\ Failed \subseteq Request /\ Failed' \subseteq Request
  /\ AtRisk \subseteq Caller /\ AtRisk' \subseteq Caller
  /\ DeadPending \subseteq Caller /\ DeadPending' \subseteq Caller
  BY DEF Failed, AtRisk, DeadPending

LEMMA Fewer ==
  /\ \A S, T : (S \subseteq Caller /\ T \subseteq S) => Cardinality(T) <= Cardinality(S)
  /\ \A S, T : (S \subseteq Request /\ T \subseteq S) => Cardinality(T) <= Cardinality(S)
  /\ \A S, T, c : (S \subseteq Caller /\ c \in S /\ T \subseteq S \ {c})
                    => Cardinality(T) + 1 <= Cardinality(S)
  /\ \A S, T, r : (S \subseteq Request /\ r \in Request /\ T \subseteq S \cup {r})
                    => Cardinality(T) <= Cardinality(S) + 1
<1>1. ASSUME NEW S, NEW T, IsFiniteSet(S), T \subseteq S PROVE Cardinality(T) <= Cardinality(S)
  BY <1>1, FS_Subset
<1>2. ASSUME NEW S, NEW T, NEW c, S \subseteq Caller, c \in S, T \subseteq S \ {c}
      PROVE  Cardinality(T) + 1 <= Cardinality(S)
  <2>1. IsFiniteSet(S) /\ Cardinality(S) \in Nat
    BY <1>2, Sizes
  <2>2. IsFiniteSet(S \ {c}) /\ Cardinality(S \ {c}) = Cardinality(S) - 1
    BY <1>2, <2>1, FS_RemoveElement
  <2>3. Cardinality(T) <= Cardinality(S \ {c})
    BY <1>1, <1>2, <2>2
  <2>4. Cardinality(T) \in Nat
    BY <1>2, Sizes
  <2> QED BY <2>1, <2>2, <2>3, <2>4
<1>3. ASSUME NEW S, NEW T, NEW r, S \subseteq Request, r \in Request, T \subseteq S \cup {r}
      PROVE  Cardinality(T) <= Cardinality(S) + 1
  <2>1. IsFiniteSet(S) /\ Cardinality(S) \in Nat
    BY <1>3, Sizes
  <2>2. /\ IsFiniteSet(S \cup {r})
        /\ Cardinality(S \cup {r}) = Cardinality(S) \/ Cardinality(S \cup {r}) = Cardinality(S) + 1
    BY <2>1, FS_AddElement
  <2>3. Cardinality(T) <= Cardinality(S \cup {r}) /\ Cardinality(T) \in Nat
    BY <1>1, <1>3, <2>2, Sizes
  <2> QED BY <2>1, <2>2, <2>3
<1>4. ASSUME NEW S, NEW T, S \subseteq Caller \/ S \subseteq Request, T \subseteq S
      PROVE  Cardinality(T) <= Cardinality(S)
  BY <1>1, <1>4, Sizes
<1> QED BY <1>2, <1>3, <1>4

LEMMA Times ==
  /\ \A n, a \in Nat : n * a \in Nat
  /\ \A n, a, b \in Nat : n * (a + b) = n * a + n * b
  /\ \A n, a, b \in Nat : a <= b => n * a <= n * b
<1>1. \A n, a \in Nat : n * a \in Nat
  OBVIOUS
<1>2. \A n, a, b \in Nat : n * (a + b) = n * a + n * b
  OBVIOUS
<1>3. ASSUME NEW n \in Nat, NEW a \in Nat, NEW b \in Nat, a <= b PROVE n * a <= n * b
  <2>1. PICK d \in Nat : b = a + d
    <3>1. b - a \in Nat /\ b = a + (b - a)
      BY <1>3
    <3> QED BY <3>1
  <2>2. n * b = n * a + n * d /\ n * a \in Nat /\ n * d \in Nat
    BY <1>1, <1>2, <2>1
  <2> QED BY <2>2
<1> QED BY <1>1, <1>2, <1>3

(* What the charge may do in a step *)
LEMMA Arithmetic ==
  ASSUME NEW n \in Nat, NEW d \in Nat,
         NEW f \in Nat, NEW r \in Nat, NEW F \in Nat, NEW U \in Nat, NEW P \in Nat,
         F + U + n * P <= n * (f + r * (1 + d)),
         NEW f1 \in Nat, NEW r1 \in Nat, NEW F1 \in Nat, NEW U1 \in Nat, NEW P1 \in Nat,
         \/ f1 = f /\ r1 = r /\ F1 + U1 <= F + U /\ P1 <= P
         \/ f1 = f /\ r1 = r /\ F1 <= F /\ U1 <= n /\ P1 + 1 <= P
         \/ f1 = f + 1 /\ r1 = r /\ F1 <= F /\ U1 <= n /\ P1 <= P
         \/ f1 = f /\ r1 = r + 1 /\ F1 <= F /\ U1 <= n /\ P1 <= d
  PROVE  F1 + U1 + n * P1 <= n * (f1 + r1 * (1 + d))
<1>1. PICK z \in Nat : z = r * (1 + d)
  BY Times
<1>2. /\ n * P \in Nat /\ n * P1 \in Nat /\ n * d \in Nat /\ n * (f + z) \in Nat /\ f + z \in Nat
      /\ n * 1 = n
  BY Times
<1>3. CASE f1 = f /\ r1 = r /\ F1 + U1 <= F + U /\ P1 <= P
  <2>1. n * P1 <= n * P
    BY <1>3, Times
  <2>2. n * (f1 + r1 * (1 + d)) = n * (f + z)
    BY <1>1, <1>3
  <2>3. F + U + n * P <= n * (f + z)
    BY <1>1
  <2> QED BY <1>2, <1>3, <2>1, <2>2, <2>3
<1>4. CASE f1 = f /\ r1 = r /\ F1 <= F /\ U1 <= n /\ P1 + 1 <= P
  <2>1. n * (P1 + 1) <= n * P /\ n * (P1 + 1) = n * P1 + n
    BY <1>2, <1>4, Times
  <2>2. n * (f1 + r1 * (1 + d)) = n * (f + z)
    BY <1>1, <1>4
  <2>3. F + U + n * P <= n * (f + z)
    BY <1>1
  <2> QED BY <1>2, <1>4, <2>1, <2>2, <2>3
<1>5. CASE f1 = f + 1 /\ r1 = r /\ F1 <= F /\ U1 <= n /\ P1 <= P
  <2>1. n * P1 <= n * P
    BY <1>5, Times
  <2>2. n * (f1 + r1 * (1 + d)) = n * (f + z) + n
    <3>1. f1 + r1 * (1 + d) = (f + z) + 1
      BY <1>1, <1>5
    <3> QED BY <1>2, <3>1, Times
  <2>3. F + U + n * P <= n * (f + z)
    BY <1>1
  <2> QED BY <1>2, <1>5, <2>1, <2>2, <2>3
<1>6. CASE f1 = f /\ r1 = r + 1 /\ F1 <= F /\ U1 <= n /\ P1 <= d
  <2>1. n * P1 <= n * d
    BY <1>6, Times
  <2>2. n * (f1 + r1 * (1 + d)) = n * (f + z) + (n + n * d)
    <3>1. (r + 1) * (1 + d) = z + (1 + d)
      BY <1>1
    <3>2. f1 + r1 * (1 + d) = (f + z) + (1 + d)
      BY <1>6, <3>1
    <3>3. n * ((f + z) + (1 + d)) = n * (f + z) + n * (1 + d) /\ n * (1 + d) = n * 1 + n * d
      BY <1>2, Times
    <3> QED BY <1>2, <3>2, <3>3
  <2>3. F + U + n * P <= n * (f + z)
    BY <1>1
  <2> QED BY <1>2, <1>6, <2>1, <2>2, <2>3
<1> QED BY <1>3, <1>4, <1>5, <1>6

(* Calls fail only where sessions are dropped. *)
LEMMA FailedBy ==
  ASSUME Inv, OnceInv, RetryDiscards, Ordinary \/ Slip \/ Restart,
         \A c \in Caller : ~Discard(c)
  PROVE  Failed' \subseteq Failed
<1>1. ASSUME NEW c \in Caller, Succeed(c) PROVE Failed' \subseteq Failed
  BY <1>1 DEF Succeed, Failed, Inv, ClientOK
<1>2. ASSUME NEW c \in Caller, Refused(c) \/ Timeout(c) PROVE outcome' = outcome
  <2>1. Fails(c)
    BY <1>2, FailMoves DEF Refused, Timeout
  <2> QED BY <2>1 DEF Fails
<1>3. ASSUME NEW c \in Caller, Begin(c) \/ Diagnose(c) \/ Proceed(c) \/ Timeout(c), ~Succeed(c)
      PROVE  outcome' = outcome
  BY <1>2, <1>3 DEF Proceed, Begin, Pick, Reuse, Create, Diagnose, Started, Finished, Lock, Retry,
     Send
<1>4. ASSUME NEW m \in wire, Serve(m) \/ Refuse(m) \/ DispatchRaises(m) PROVE outcome' = outcome
  BY <1>4, Read
<1>5. ASSUME outcome' = outcome PROVE Failed' \subseteq Failed
  BY <1>5 DEF Failed
<1> QED BY <1>1, <1>3, <1>4, <1>5 DEF Ordinary, Slip, Restart, Expire, client

(* A failed call was at risk, and its thread is not any more. *)
LEMMA DiscardStep ==
  ASSUME Inv, OnceInv, BirthInv, MakerInv, NEW c \in Caller, Discard(c)
  PROVE  /\ c \in AtRisk /\ AtRisk' \subseteq AtRisk \ {c}
         /\ \E r \in Request : Failed' \subseteq Failed \cup {r}
<1>1. Ordinary
  BY DEF Ordinary, Proceed
<1>2. call[c].attempt # 0 /\ call[c].pc = "discard" /\ store' = <<>> /\ creator = None
  BY DEF Discard, OnceInv, AttemptOK
<1>3. c \in AtRisk
  BY <1>2 DEF AtRisk, Failing
<1>4. ~Exposed'
  <2>1. ASSUME NEW d \in Caller, call'[d].attempt # 0, Dead(d)' PROVE FALSE
    <3>1. Dead(d) /\ call[d].attempt # 0
      BY <1>1, <2>1, DeadStep
    <3>2. creator = d
      BY <3>1 DEF MakerInv, Handshaking, Dead
    <3> QED BY <1>2, <3>2, Bounds
  <2> QED BY <1>2, <2>1 DEF Exposed
<1>5. ~Failing(c)'
  BY ExchangeMoves DEF Goes, Failing
<1>6. ASSUME NEW d \in Caller, Failing(d)' PROVE d \in AtRisk \ {c}
  <2>1. d # c
    BY <1>5, <1>6
  <2>2. Failing(d)
    BY <1>6, <2>1, OthersFailing DEF Proceed
  <2> QED BY <2>1, <2>2 DEF AtRisk
<1>7. AtRisk' \subseteq AtRisk \ {c}
  BY <1>4, <1>6 DEF AtRisk
<1>8. \E r \in Request : Failed' \subseteq Failed \cup {r}
  <2> DEFINE r == <<c, call[c].k>>
  <2>1. r \in Request
    BY <1>2, CallKnown, IndexOK
  <2>2. outcome' = [outcome EXCEPT ![r] = "failed"] /\ outcome \in [Request -> {"none", "ok", "failed"}]
    BY DEF Discard, Inv, ClientOK
  <2> HIDE DEF r
  <2>3. Failed' \subseteq Failed \cup {r}
    BY <2>1, <2>2 DEF Failed
  <2> QED BY <2>1, <2>3
<1> QED BY <1>3, <1>7, <1>8

LEMMA PendingStep ==
  ASSUME Inv, OnceInv, Ordinary \/ Slip PROVE DeadPending' \subseteq DeadPending
  BY DeadStep DEF DeadPending

LEMMA AtRiskStep ==
  ASSUME Inv, OnceInv, BirthInv, MakerInv, Ordinary,
         \A c \in Caller : ~(Finished(c) /\ call[c].attempt = 0 /\ Dead(c))
  PROVE  AtRisk' \subseteq AtRisk
<1>1. CASE Exposed
  BY <1>1 DEF AtRisk
<1>2. CASE ~Exposed
  <2>1. ~Exposed'
    BY <1>2, ExposedStep
  <2>2. ASSUME NEW d \in Caller, Failing(d)' PROVE Failing(d)
    <3>1. ASSUME NEW m \in wire, Serve(m) PROVE Failing(d)
      BY <2>2, <3>1, ServedFailing
    <3>2. ASSUME NEW c \in Caller, Begin(c) \/ Diagnose(c) \/ Proceed(c) PROVE Failing(d)
      BY <1>2, <2>2, <3>2, OwnFailing, OthersFailing
    <3> QED BY <3>1, <3>2 DEF Ordinary
  <2> QED BY <2>1, <2>2 DEF AtRisk
<1> QED BY <1>1, <1>2

LEMMA CountsStep ==
  ASSUME Inv, [Next]_vars
  PROVE  /\ Ordinary \/ UNCHANGED vars => faults' = faults /\ restarts' = restarts
         /\ Slip => faults' = faults + 1 /\ restarts' = restarts
         /\ Restart => faults' = faults /\ restarts' = restarts + 1
<1>1. ASSUME NEW m \in wire, Serve(m) PROVE faults' = faults /\ restarts' = restarts
  BY <1>1 DEF Serve, ServeStart, ServeFinish, ServeRequest, ServeUnknown, ServeOutOfStep, Reply
<1>2. ASSUME NEW c \in Caller, Begin(c) \/ Diagnose(c) \/ Proceed(c)
      PROVE  faults' = faults /\ restarts' = restarts
  BY <1>2 DEF Proceed, Begin, Pick, Reuse, Create, Diagnose, Started, Finished, Lock, Retry,
     Discard, Send, Succeed, Refused
<1>3. Slip => faults' = faults + 1 /\ restarts' = restarts
  BY DEF Slip, Timeout, Refuse, DispatchRaises, Expire, Reply
<1> QED BY <1>1, <1>2, <1>3 DEF Ordinary, Restart, vars

LEMMA ChargeStep ==
  ASSUME Inv, OnceInv, BirthInv, MakerInv, MakerInv', RetryDiscards, Charged, [Next]_vars
  PROVE  Charged'
<1> DEFINE F == Cardinality(Failed)
           U == Cardinality(AtRisk)
           P == Cardinality(DeadPending)
           N == Cardinality(Caller)
           D == Cardinality(Diagnostic)
<1>1. /\ F \in Nat /\ F' \in Nat /\ U \in Nat /\ U' \in Nat /\ U' <= N /\ P \in Nat /\ P' \in Nat
      /\ N \in Nat /\ D \in Nat
  BY Sizes, Within
<1>2. /\ faults \in Nat /\ faults' \in Nat /\ restarts \in Nat /\ restarts' \in Nat
  BY CountsStep DEF Inv, CountsOK, Next, Fault, Ordinary, Slip
<1>3. F + U + N * P <= N * (faults + restarts * (1 + D))
  BY DEF Charged
<1>4. \/ faults' = faults /\ restarts' = restarts /\ F' + U' <= F + U /\ P' <= P
      \/ faults' = faults /\ restarts' = restarts /\ F' <= F /\ U' <= N /\ P' + 1 <= P
      \/ faults' = faults + 1 /\ restarts' = restarts /\ F' <= F /\ U' <= N /\ P' <= P
      \/ faults' = faults /\ restarts' = restarts + 1 /\ F' <= F /\ U' <= N /\ P' <= D
  <2>1. CASE UNCHANGED vars
    <3>1. faults' = faults /\ restarts' = restarts
      BY <2>1 DEF vars
    <3>2. Failed' = Failed
      BY <2>1 DEF vars, client, Failed
    <3>3. \A c \in Caller : Dead(c)' = Dead(c)
      BY <2>1 DEF vars, client, server, Dead
    <3>4. DeadPending' = DeadPending
      BY <2>1, <3>3 DEF vars, client, DeadPending
    <3>5. \A s : Good(s)' = Good(s)
      BY <2>1 DEF vars, client, server, Good, InStep, Exchanging, Exchange, Level, Quiet,
         RequestOf, Sent
    <3>6. AtRisk' = AtRisk
      <4>1. Exposed' = Exposed
        BY <2>1 DEF vars, client, server, Exposed, Dead, Good, InStep, Exchanging, Exchange, Level,
           Quiet, RequestOf, Sent
      <4>2. \A c \in Caller : Failing(c)' = Failing(c)
        BY <2>1 DEF vars, client, server, Failing, Handshaking, HandshakeGood, Good, InStep,
           Exchanging, Exchange, Level, Quiet, RequestOf, Sent
      <4> QED BY <4>1, <4>2 DEF AtRisk
    <3> QED BY <1>1, <3>1, <3>2, <3>4, <3>6
  <2>2. CASE Ordinary
    <3>1. faults' = faults /\ restarts' = restarts
      BY <2>2, CountsStep
    <3>2. P' <= P
      BY <2>2, PendingStep, Fewer, Within
    <3>3. ASSUME NEW c \in Caller, Discard(c) PROVE F' + U' <= F + U
      <4>1. c \in AtRisk /\ AtRisk' \subseteq AtRisk \ {c}
        BY <3>3, DiscardStep
      <4>2. U' + 1 <= U
        BY <4>1, Fewer, Within
      <4>3. F' <= F + 1
        BY <3>3, DiscardStep, Fewer, Within
      <4> QED BY <1>1, <4>2, <4>3
    <3>4. ASSUME NEW c \in Caller, Finished(c), call[c].attempt = 0, Dead(c)
          PROVE  F' <= F /\ P' + 1 <= P
      <4>1. call'[c].pc = "idle"
        BY <3>4, HandshakeMoves DEF Goes
      <4>2. c \in DeadPending /\ DeadPending' \subseteq DeadPending \ {c}
        BY <2>2, <3>4, <4>1, PendingStep DEF DeadPending, Dead
      <4>3. P' + 1 <= P
        BY <4>2, Fewer, Within
      <4>4. outcome' = outcome
        BY <3>4 DEF Finished
      <4>5. Failed' \subseteq Failed
        BY <4>4 DEF Failed
      <4> QED BY <4>3, <4>5, Fewer, Within
    <3>5. ASSUME \A c \in Caller : ~Discard(c),
                 \A c \in Caller : ~(Finished(c) /\ call[c].attempt = 0 /\ Dead(c))
          PROVE  F' + U' <= F + U
      <4>1. F' <= F
        BY <2>2, <3>5, FailedBy, Fewer, Within
      <4>2. U' <= U
        BY <2>2, <3>5, AtRiskStep, Fewer, Within
      <4> QED BY <1>1, <4>1, <4>2
    <3> QED BY <1>1, <3>1, <3>2, <3>3, <3>4, <3>5
  <2>3. CASE Slip
    <3>1. faults' = faults + 1 /\ restarts' = restarts
      BY <2>3, CountsStep
    <3>2. \A c \in Caller : ~Discard(c)
      BY <1>2, <3>1 DEF Discard
    <3> QED BY <1>1, <2>3, <3>1, <3>2, FailedBy, PendingStep, Fewer, Within
  <2>4. CASE Restart
    <3>1. faults' = faults /\ restarts' = restarts + 1
      BY <2>4, CountsStep
    <3>2. \A c \in Caller : ~Discard(c)
      BY <1>2, <3>1 DEF Discard
    <3>3. DeadPending' \subseteq Diagnostic /\ Diagnostic \subseteq Caller
      BY SecureSessionAssumption DEF DeadPending, MakerInv, Dead, Handshaking
    <3>4. P' <= D
      BY <3>3, Fewer
    <3> QED BY <1>1, <2>4, <3>1, <3>2, <3>4, FailedBy, Fewer, Within
  <2> QED BY <2>1, <2>2, <2>3, <2>4 DEF Next, Fault, Ordinary, Slip
<1>5. F' + U' + N * P' <= N * (faults' + restarts' * (1 + D))
  <2>1. PICK f0 \in Nat, r0 \in Nat, F0 \in Nat, U0 \in Nat, P0 \in Nat, n \in Nat, d \in Nat :
          f0 = faults /\ r0 = restarts /\ F0 = F /\ U0 = U /\ P0 = P /\ n = N /\ d = D
    BY <1>1, <1>2
  <2>2. PICK f1 \in Nat, r1 \in Nat, F1 \in Nat, U1 \in Nat, P1 \in Nat :
          f1 = faults' /\ r1 = restarts' /\ F1 = F' /\ U1 = U' /\ P1 = P'
    BY <1>1, <1>2
  <2> HIDE DEF F, U, P, N, D
  <2>3. F0 + U0 + n * P0 <= n * (f0 + r0 * (1 + d))
    BY <1>3, <2>1
  <2>4. \/ f1 = f0 /\ r1 = r0 /\ F1 + U1 <= F0 + U0 /\ P1 <= P0
        \/ f1 = f0 /\ r1 = r0 /\ F1 <= F0 /\ U1 <= n /\ P1 + 1 <= P0
        \/ f1 = f0 + 1 /\ r1 = r0 /\ F1 <= F0 /\ U1 <= n /\ P1 <= P0
        \/ f1 = f0 /\ r1 = r0 + 1 /\ F1 <= F0 /\ U1 <= n /\ P1 <= d
    BY <1>4, <2>1, <2>2
  <2>5. F1 + U1 + n * P1 <= n * (f1 + r1 * (1 + d))
    BY <2>3, <2>4, Arithmetic
  <2> QED BY <2>1, <2>2, <2>5
<1> QED BY <1>5 DEF Charged

LEMMA ChargeStart == Init => Charged /\ MakerInv
<1> SUFFICES ASSUME Init PROVE Charged /\ MakerInv
  OBVIOUS
<1>1. \A c \in Caller : call[c].pc = "idle" /\ call[c].attempt = 0
  <2>1. 0 \in 0..MaxCall
    BY Bounds
  <2> QED BY <2>1, RestingOK DEF Init
<1>2. MakerInv
  BY <1>1 DEF MakerInv, Handshaking
<1>3. Failed = {} /\ AtRisk = {} /\ DeadPending = {}
  <2>1. Failed = {}
    BY DEF Init, Failed
  <2>2. \A c \in Caller : ~Failing(c) /\ ~Dead(c)
    BY <1>1 DEF Failing, Dead
  <2>3. ~Exposed
    BY <2>2 DEF Exposed, Init
  <2> QED BY <2>1, <2>2, <2>3 DEF AtRisk, DeadPending
<1>4. Cardinality({}) = 0
  BY FS_EmptySet
<1>5. faults = 0 /\ restarts = 0
  BY DEF Init
<1>6. Charged
  <2>1. Cardinality(Failed) = 0 /\ Cardinality(AtRisk) = 0 /\ Cardinality(DeadPending) = 0
    BY <1>3, <1>4
  <2>2. /\ Cardinality(Caller) \in Nat /\ Cardinality(Diagnostic) \in Nat
        /\ restarts * (1 + Cardinality(Diagnostic)) = 0
    BY <1>5, Sizes
  <2>3. Cardinality(Caller) * 0 = 0
    BY <2>2
  <2> QED BY <1>5, <2>1, <2>2, <2>3 DEF Charged
<1> QED BY <1>2, <1>6

(* A fault fails at most one call of each thread, and a restart one more   *)
(* of each for every thread that serves the diagnostic endpoint, for any   *)
(* threads, calls, faults and restarts (secure_transport.py:140-161).      *)
THEOREM FailuresBoundedHolds == Spec => []FailuresBounded
<1>1. CASE RetryDiscards
  <2>1. Spec => []OnceInv
    BY StartOnce, StepOnce, Invariance, PTL DEF Spec
  <2>2. Spec => []MakerInv
    BY <2>1, ChargeStart, MakerStep, Invariance, PTL DEF Spec
  <2>3. Inv /\ OnceInv /\ BirthInv /\ MakerInv /\ MakerInv' /\ Charged /\ [Next]_vars => Charged'
    BY <1>1, ChargeStep
  <2>4. Spec => []Charged
    BY <2>1, <2>2, <2>3, ChargeStart, Birth, Invariance, PTL DEF Spec
  <2>5. Inv /\ Charged => FailuresBounded
    <3> SUFFICES ASSUME Inv, Charged PROVE FailuresBounded
      OBVIOUS
    <3>1. /\ Cardinality(Failed) \in Nat /\ Cardinality(AtRisk) \in Nat
          /\ Cardinality(DeadPending) \in Nat /\ Cardinality(Caller) \in Nat
          /\ Cardinality(Diagnostic) \in Nat /\ faults \in Nat /\ restarts \in Nat
      BY Sizes, Within DEF Inv, CountsOK
    <3>2. Cardinality(Caller) * Cardinality(DeadPending) \in Nat
      BY <3>1, Times
    <3>3. PICK b \in Nat :
            b = Cardinality(Caller) * (faults + restarts * (1 + Cardinality(Diagnostic)))
      <4>1. restarts * (1 + Cardinality(Diagnostic)) \in Nat
        BY <3>1, Times
      <4>2. faults + restarts * (1 + Cardinality(Diagnostic)) \in Nat
        BY <3>1, <4>1
      <4> QED BY <3>1, <4>2, Times
    <3>4. Cardinality(Failed) <= b
      BY <3>1, <3>2, <3>3 DEF Charged
    <3> QED BY <3>3, <3>4 DEF FailuresBounded
  <2> QED BY <2>4, <2>5, Invariance, PTL
<1>2. CASE ~RetryDiscards
  <2>1. Inv => FailuresBounded
    BY <1>2 DEF FailuresBounded
  <2> QED BY <2>1, Invariance, PTL
<1> QED BY <1>1, <1>2

-----------------------------------------------------------------------------
(* The transport is the channel its callers were promised.                 *)

InCall(c) == call[c].attempt # 0

(* What a caller was told of its requests *)
ToldInv ==
  \A c \in Caller :
    /\ call[c].pc = "idle" => ~InCall(c)
    /\ \A k \in 1..MaxCall :
         outcome[<<c, k>>] = "none" <=> (k > call[c].k \/ (k = call[c].k /\ InCall(c)))

(* A step of a thread that concludes no call, and one that does *)
GoesOn == outcome' = outcome /\ \A d \in Caller : InCall(d)' = InCall(d)

Concludes(c, o) ==
  /\ InCall(c) /\ ~InCall(c)'
  /\ \A d \in Caller : d # c => InCall(d)' = InCall(d)
  /\ outcome' = [outcome EXCEPT ![<<c, call[c].k>>] = o]
  /\ o = "ok" => executed[<<c, call[c].k>>] = 1

Shows(c) ==
  /\ GoesOn \/ \E o \in {"ok", "failed"} : Concludes(c, o)
  /\ \A d \in Caller : call'[d].pc = "idle" => call[d].pc = "idle" \/ ~InCall(d)'

LEMMA GoesShows ==
  ASSUME NEW c \in Caller, NEW pc, NEW s, NEW a, Goes(c, pc, s, a), outcome' = outcome,
         a # 0 <=> InCall(c), pc = "idle" => a = 0
  PROVE  Shows(c)
  BY DEF Goes, Shows, GoesOn, InCall

LEMMA EndShows ==
  ASSUME NEW c \in Caller, Goes(c, "idle", NoSession, 0), InCall(c),
         NEW o \in {"ok", "failed"}, outcome' = [outcome EXCEPT ![<<c, call[c].k>>] = o],
         o = "ok" => executed[<<c, call[c].k>>] = 1
  PROVE  Shows(c)
<1>1. Concludes(c, o)
  BY DEF Goes, Concludes, InCall
<1>2. \A d \in Caller : call'[d].pc = "idle" => call[d].pc = "idle" \/ ~InCall(d)'
  BY DEF Goes, InCall
<1> QED BY <1>1, <1>2 DEF Shows

LEMMA FailShows ==
  ASSUME Inv, NEW c \in Caller, NEW code, Fail(c, code) PROVE Shows(c)
<1>1. CASE ~InCall(c)
  <2>1. call' = [call EXCEPT ![c] = Resting(@.k)] /\ outcome' = outcome
    BY <1>1 DEF Fail, InCall
  <2> QED BY <1>1, <2>1, EndMoves, GoesShows DEF InCall
<1>2. CASE InCall(c) /\ call[c].attempt = 2 /\ ~RetryDiscards
  <2>1. /\ call' = [call EXCEPT ![c] = Resting(@.k)]
        /\ outcome' = [outcome EXCEPT ![<<c, call[c].k>>] = "failed"]
    BY <1>2 DEF Fail
  <2> QED BY <1>2, <2>1, EndMoves, EndShows
<1>3. CASE InCall(c) /\ ~(call[c].attempt = 2 /\ ~RetryDiscards)
  <2>1. PICK pc \in {"retry", "discard"} :
          call' = [call EXCEPT ![c].pc = pc] /\ outcome' = outcome
    BY <1>3 DEF Fail, InCall
  <2>2. Goes(c, pc, call[c].sess, call[c].attempt) /\ pc # "idle"
    BY <2>1, StayMoves
  <2> QED BY <1>3, <2>1, <2>2, GoesShows DEF InCall
<1> QED BY <1>1, <1>2, <1>3

(* A thread goes on with the request it has issued and executes nothing. *)
LEMMA SameRequest ==
  ASSUME Inv, NEW c \in Caller, Diagnose(c) \/ Proceed(c) \/ Timeout(c)
  PROVE  executed' = executed /\ \A d \in Caller : call'[d].k = call[d].k
<1> DEFINE SameK == \A d \in Caller : call'[d].k = call[d].k
<1>1. executed' = executed
  BY DEF Proceed, Diagnose, Pick, Reuse, Create, Started, Finished, Lock, Send, Succeed,
     Refused, Timeout, Retry, Discard, server
<1>2. ASSUME call'[c].k = call[c].k, \A d \in Caller : d # c => call'[d] = call[d]
      PROVE  SameK
  BY <1>2
<1>3. ASSUME call' = [call EXCEPT ![c] = Resting(@.k)] PROVE SameK
  BY <1>3, CallFacts DEF Resting
<1>4. ASSUME NEW code, Fail(c, code) PROVE SameK
  <2>1. ASSUME NEW pc \in {"retry", "discard"}, call' = [call EXCEPT ![c].pc = pc]
        PROVE  SameK
    <3>1. call'[c].k = call[c].k /\ \A d \in Caller : d # c => call'[d] = call[d]
      BY <2>1, CallFacts
    <3> QED BY <1>2, <3>1
  <2>2. \/ call' = [call EXCEPT ![c] = Resting(@.k)]
        \/ \E pc \in {"retry", "discard"} : call' = [call EXCEPT ![c].pc = pc]
    BY <1>4 DEF Fail
  <2> QED BY <1>3, <2>1, <2>2
<1>5. CASE Refused(c) \/ Timeout(c)
  BY <1>1, <1>4, <1>5 DEF Refused, Timeout
<1>6. CASE Finished(c) \/ Succeed(c) \/ Discard(c)
  <2>1. CASE call' = [call EXCEPT ![c] = Resting(@.k)]
    BY <1>1, <1>3, <2>1
  <2>2. CASE Finished(c) /\ call' = [call EXCEPT ![c].pc = "lock"]
    <3>1. call'[c].k = call[c].k /\ \A d \in Caller : d # c => call'[d] = call[d]
      BY <2>2, CallFacts
    <3> QED BY <1>1, <1>2, <3>1
  <2> QED BY <1>6, <2>1, <2>2 DEF Finished, Succeed, Discard
<1>7. CASE Diagnose(c) \/ Create(c) \/ Started(c)
  <2>1. call'[c].k = call[c].k /\ \A d \in Caller : d # c => call'[d] = call[d]
    BY <1>7, CallFacts DEF Diagnose, Create, Started
  <2> QED BY <1>1, <1>2, <2>1
<1>8. CASE Pick(c) \/ Reuse(c)
  <2>1. call'[c].k = call[c].k /\ \A d \in Caller : d # c => call'[d] = call[d]
    BY <1>8, CallFacts DEF Pick, Reuse, Use
  <2> QED BY <1>1, <1>2, <2>1
<1>9. CASE Lock(c) \/ Send(c)
  <2>1. call'[c].k = call[c].k /\ \A d \in Caller : d # c => call'[d] = call[d]
    BY <1>9, CallFacts DEF Lock, Send
  <2> QED BY <1>1, <1>2, <2>1
<1>10. CASE Retry(c)
  <2>1. call'[c].k = call[c].k /\ \A d \in Caller : d # c => call'[d] = call[d]
    BY <1>10, CallFacts DEF Retry, Resting
  <2> QED BY <1>1, <1>2, <2>1
<1> QED BY <1>1, <1>5, <1>6, <1>7, <1>8, <1>9, <1>10 DEF Proceed

LEMMA ThreadShows ==
  ASSUME Inv, OnceInv, ToldInv, NEW c \in Caller, Diagnose(c) \/ Proceed(c) \/ Timeout(c)
  PROVE  Shows(c)
<1>1. call[c].pc \notin {"idle", "start", "finish"} => InCall(c)
  BY DEF OnceInv, AttemptOK, InCall
<1>2. CASE Diagnose(c)
  <2>1. Goes(c, "start", made + 1, 0) /\ outcome' = outcome /\ ~InCall(c)
    BY <1>2, HandshakeMoves DEF Diagnose, ToldInv
  <2> QED BY <2>1, GoesShows
<1>3. CASE Pick(c) \/ Reuse(c)
  <2>1. outcome' = outcome /\ InCall(c)
    BY <1>1, <1>3 DEF Pick, Reuse
  <2> QED BY <1>3, <2>1, PickMoves, GoesShows DEF InCall
<1>4. CASE Create(c) \/ Started(c)
  <2>1. outcome' = outcome
    BY <1>4 DEF Create, Started
  <2> QED BY <1>4, <2>1, HandshakeMoves, GoesShows DEF InCall
<1>5. CASE Finished(c)
  <2>1. outcome' = outcome
    BY <1>5 DEF Finished
  <2> QED BY <1>5, <2>1, HandshakeMoves, GoesShows DEF InCall
<1>6. CASE Lock(c) \/ Send(c)
  <2>1. outcome' = outcome
    BY <1>6 DEF Lock, Send
  <2> QED BY <1>6, <2>1, ExchangeMoves, GoesShows DEF InCall
<1>7. CASE Retry(c)
  <2>1. outcome' = outcome /\ InCall(c) /\ Goes(c, "pick", NoSession, 2)
    BY <1>1, <1>7, ExchangeMoves DEF Retry
  <2> QED BY <2>1, GoesShows
<1>8. CASE Succeed(c)
  <2>1. /\ InCall(c) /\ Goes(c, "idle", NoSession, 0)
        /\ outcome' = [outcome EXCEPT ![<<c, call[c].k>>] = "ok"]
    BY <1>1, <1>8, ExchangeMoves DEF Succeed, Receive
  <2>2. executed[<<c, call[c].k>>] = 1
    BY <1>8 DEF Succeed, Receive, OnceInv, CallInv
  <2> QED BY <2>1, <2>2, EndShows
<1>9. CASE Discard(c)
  <2>1. /\ InCall(c) /\ Goes(c, "idle", NoSession, 0)
        /\ outcome' = [outcome EXCEPT ![<<c, call[c].k>>] = "failed"]
    BY <1>1, <1>9, ExchangeMoves DEF Discard
  <2> QED BY <2>1, EndShows
<1>10. CASE Refused(c) \/ Timeout(c)
  BY <1>10, FailShows DEF Refused, Timeout
<1> QED BY <1>2, <1>3, <1>4, <1>5, <1>6, <1>7, <1>8, <1>9, <1>10 DEF Proceed

(* The others read and forget. *)
LEMMA ServedShows ==
  ASSUME Inv, OnceInv,
         \/ \E m \in wire : Serve(m) \/ Refuse(m) \/ DispatchRaises(m)
         \/ \E s \in Session : Expire(s)
         \/ Restart \/ UNCHANGED vars
  PROVE  /\ UNCHANGED <<call, outcome>>
         /\ \/ executed' = executed
            \/ \E c \in Caller, k \in 1..MaxCall :
                 /\ k <= call[c].k /\ executed[<<c, k>>] = 0
                 /\ executed' = [executed EXCEPT ![<<c, k>>] = 1]
<1>1. ASSUME NEW m \in wire, ServeRequest(m) \/ DispatchRaises(m)
      PROVE  /\ UNCHANGED <<call, outcome>>
             /\ \E c \in Caller, k \in 1..MaxCall :
                  /\ k <= call[c].k /\ executed[<<c, k>>] = 0
                  /\ executed' = [executed EXCEPT ![<<c, k>>] = 1]
  <2>1. /\ m.from \in Caller /\ m.k \in 1..MaxCall /\ m.k <= call[m.from].k
        /\ executed[<<m.from, m.k>>] = 0
    BY <1>1, RequestKnown DEF ServeRequest, DispatchRaises
  <2>2. executed' = [executed EXCEPT ![<<m.from, m.k>>] = executed[<<m.from, m.k>>] + 1]
    BY <1>1 DEF ServeRequest, DispatchRaises
  <2>3. executed' = [executed EXCEPT ![<<m.from, m.k>>] = 1]
    BY <2>1, <2>2
  <2>4. UNCHANGED <<call, outcome>>
    BY <1>1 DEF ServeRequest, DispatchRaises, Reply
  <2> QED BY <2>1, <2>3, <2>4
<1>2. ASSUME NEW m \in wire,
             ServeStart(m) \/ ServeFinish(m) \/ ServeUnknown(m) \/ ServeOutOfStep(m) \/ Refuse(m)
      PROVE  UNCHANGED <<call, outcome, executed>>
  BY <1>2 DEF ServeStart, ServeFinish, ServeUnknown, ServeOutOfStep, Refuse, Reply, server
<1>3. ASSUME (\E s \in Session : Expire(s)) \/ Restart \/ UNCHANGED vars
      PROVE  UNCHANGED <<call, outcome, executed>>
  BY <1>3 DEF Expire, Restart, vars, client, server
<1> QED BY <1>1, <1>2, <1>3 DEF Serve

LEMMA StartTold == Init => ToldInv
<1> SUFFICES ASSUME Init PROVE ToldInv
  OBVIOUS
<1>1. \A c \in Caller : call[c].k = 0 /\ ~InCall(c)
  BY DEF Init, Resting, InCall
<1>2. \A c \in Caller, k \in 1..MaxCall : outcome[<<c, k>>] = "none" /\ k > 0
  <2>1. \A r \in Request : outcome[r] = "none"
    BY DEF Init
  <2>2. \A k \in 1..MaxCall : k > 0
    BY Bounds
  <2> QED BY <2>1, <2>2, IndexOK
<1> QED BY <1>1, <1>2 DEF ToldInv

LEMMA StepTold == Inv /\ OnceInv /\ ToldInv /\ [Next]_vars => ToldInv'
<1> SUFFICES ASSUME Inv, OnceInv, ToldInv, [Next]_vars PROVE ToldInv'
  OBVIOUS
<1>0. /\ outcome \in [Request -> {"none", "ok", "failed"}]
      /\ \A d \in Caller : call[d].k \in 0..MaxCall /\ (InCall(d) => call[d].k \in 1..MaxCall)
  BY CallKnown DEF Inv, ClientOK, InCall
<1>1. ASSUME NEW c \in Caller, Begin(c) PROVE ToldInv'
  <2>1. outcome' = outcome /\ call[c].pc = "idle" /\ ~InCall(c)
    BY <1>1 DEF Begin, ToldInv
  <2>2. call'[c].k = call[c].k + 1 /\ call'[c].pc = "pick" /\ call'[c].attempt = 1
    BY <1>1, CallFacts DEF Begin, Resting
  <2>3. \A d \in Caller : d # c => call'[d] = call[d] /\ InCall(d)' = InCall(d)
    BY <1>1, CallFacts DEF Begin, InCall
  <2>4. \A k \in 1..MaxCall :
          outcome'[<<c, k>>] = "none" <=> (k > call'[c].k \/ (k = call'[c].k /\ InCall(c)'))
    BY <1>0, <2>1, <2>2, Bounds DEF ToldInv, InCall
  <2> QED BY <2>1, <2>2, <2>3, <2>4 DEF ToldInv, InCall
<1>2. ASSUME NEW c \in Caller, Diagnose(c) \/ Proceed(c) \/ Timeout(c) PROVE ToldInv'
  <2>1. Shows(c) /\ \A d \in Caller : call'[d].k = call[d].k
    BY <1>2, ThreadShows, SameRequest
  <2>2. ASSUME NEW d \in Caller PROVE call'[d].pc = "idle" => ~InCall(d)'
    <3>1. CASE GoesOn
      BY <2>1, <3>1 DEF Shows, GoesOn, ToldInv
    <3>2. CASE \E o \in {"ok", "failed"} : Concludes(c, o)
      BY <2>1, <3>2 DEF Shows, Concludes, ToldInv
    <3> QED BY <2>1, <3>1, <3>2 DEF Shows
  <2>3. ASSUME NEW d \in Caller, NEW k \in 1..MaxCall
        PROVE  outcome'[<<d, k>>] = "none"
                 <=> (k > call'[d].k \/ (k = call'[d].k /\ InCall(d)'))
    <3>1. CASE GoesOn
      BY <2>1, <3>1 DEF GoesOn, ToldInv
    <3>2. ASSUME NEW o \in {"ok", "failed"}, Concludes(c, o)
          PROVE  outcome'[<<d, k>>] = "none"
                   <=> (k > call'[d].k \/ (k = call'[d].k /\ InCall(d)'))
      <4>1. <<d, k>> \in Request
        BY IndexOK
      <4>2. outcome'[<<d, k>>] = IF d = c /\ k = call[c].k THEN o ELSE outcome[<<d, k>>]
        BY <1>0, <3>2, <4>1 DEF Concludes
      <4>3. d # c => InCall(d)' = InCall(d)
        BY <3>2 DEF Concludes
      <4>4. InCall(c) /\ ~InCall(c)'
        BY <3>2 DEF Concludes
      <4> QED BY <1>0, <2>1, <4>2, <4>3, <4>4, Bounds DEF ToldInv
    <3> QED BY <2>1, <3>1, <3>2 DEF Shows
  <2> QED BY <2>2, <2>3 DEF ToldInv
<1>3. CASE \/ \E m \in wire : Serve(m) \/ Refuse(m) \/ DispatchRaises(m)
           \/ \E s \in Session : Expire(s)
           \/ Restart \/ UNCHANGED vars
  BY <1>3, ServedShows DEF ToldInv, InCall
<1> QED BY <1>1, <1>2, <1>3 DEF Next, Fault

(* Every step is one of the channel, or none that its callers see. *)
LEMMA StepRefines ==
  ASSUME Inv, OnceInv, ToldInv, [Next]_vars
  PROVE  \/ Channel!ChannelNext
         \/ UNCHANGED <<[c \in Caller |-> call[c].k], executed, outcome>>
<1> DEFINE Issued == [c \in Caller |-> call[c].k]
<1>0. \A d \in Caller : call[d].k \in 0..MaxCall /\ (InCall(d) => call[d].k \in 1..MaxCall)
  BY CallKnown DEF InCall
<1>1. ASSUME NEW c \in Caller, Begin(c) PROVE Channel!Issue(c)
  <2>1. call[c].pc = "idle" /\ ~InCall(c) /\ call[c].k < MaxCall
    BY <1>1 DEF Begin, ToldInv
  <2>2. UNCHANGED <<executed, outcome>>
    BY <1>1 DEF Begin, server
  <2>3. \A d \in Caller : call'[d].k = IF d = c THEN call[c].k + 1 ELSE call[d].k
    BY <1>1, CallFacts DEF Begin, Resting
  <2>4. Issued' = [Issued EXCEPT ![c] = @ + 1] /\ Issued[c] = call[c].k
    BY <2>3
  <2>5. call[c].k # 0 => outcome[<<c, call[c].k>>] # "none"
    BY <1>0, <2>1, Bounds DEF ToldInv
  <2> QED BY <2>1, <2>2, <2>4, <2>5 DEF Channel!Issue, Channel!Open
<1>2. ASSUME NEW c \in Caller, Diagnose(c) \/ Proceed(c) \/ Timeout(c)
      PROVE  (\E o \in {"ok", "failed"} : Channel!Conclude(c, o))
               \/ UNCHANGED <<Issued, executed, outcome>>
  <2>1. executed' = executed /\ Issued' = Issued
    BY <1>2, SameRequest
  <2>2. ASSUME NEW o \in {"ok", "failed"}, Concludes(c, o) PROVE Channel!Conclude(c, o)
    <3>1. call[c].k # 0 /\ outcome[<<c, call[c].k>>] = "none" /\ Issued[c] = call[c].k
      BY <1>0, <2>2, Bounds DEF Concludes, ToldInv
    <3> QED BY <2>1, <2>2, <3>1 DEF Concludes, Channel!Conclude, Channel!Open
  <2>3. Shows(c)
    BY <1>2, ThreadShows
  <2> QED BY <2>1, <2>2, <2>3 DEF Shows, GoesOn
<1>3. ASSUME \/ \E m \in wire : Serve(m) \/ Refuse(m) \/ DispatchRaises(m)
             \/ \E s \in Session : Expire(s)
             \/ Restart \/ UNCHANGED vars
      PROVE  \/ \E c \in Caller, k \in 1..MaxCall : Channel!Execute(c, k)
             \/ UNCHANGED <<Issued, executed, outcome>>
  <2>1. UNCHANGED <<Issued, outcome>>
    BY <1>3, ServedShows
  <2>2. ASSUME NEW c \in Caller, NEW k \in 1..MaxCall, k <= call[c].k,
               executed[<<c, k>>] = 0, executed' = [executed EXCEPT ![<<c, k>>] = 1]
        PROVE  Channel!Execute(c, k)
    BY <2>1, <2>2 DEF Channel!Execute
  <2> QED BY <1>3, <2>1, <2>2, ServedShows
<1> QED BY <1>1, <1>2, <1>3 DEF Next, Fault, Channel!ChannelNext

(* The transport implements the channel: whatever threads, sessions,       *)
(* attempts, timeouts and restarts, its callers see requests that are      *)
(* executed at most once and concluded once, and answered only if executed *)
(* (secure_transport.py:127-161, agents/main.py:199-217).                  *)
THEOREM ChannelKept == Spec => ImplementsChannel
<1>1. Init => Channel!ChannelInit
  BY DEF Init, Resting, Request, Channel!ChannelInit
<1>2. Inv /\ OnceInv /\ ToldInv /\ [Next]_vars =>
        [Channel!ChannelNext]_<<[c \in Caller |-> call[c].k], executed, outcome>>
  BY StepRefines
<1>3. Spec => []OnceInv
  BY StartOnce, StepOnce, Invariance, PTL DEF Spec
<1>4. Spec => []ToldInv
  BY <1>3, StartTold, StepTold, Invariance, PTL DEF Spec
<1> QED BY <1>1, <1>2, <1>3, <1>4, Invariance, PTL
       DEF Spec, ImplementsChannel, Channel!ChannelSpec
=============================================================================
