--------------------------- MODULE SecureSession ----------------------------
(***************************************************************************)
(* The encrypted transport between a client process and the IoT server:    *)
(* backend/app/secure_transport.py and SecureAgentTransport of             *)
(* agents/main.py on one side, server-iot/app/routers/secure.py on the     *)
(* other.  Threads of the client share one session; the session's lock     *)
(* serialises their exchanges, since the receiver accepts only the exact   *)
(* next sequence number of a direction.                                    *)
(*                                                                         *)
(* A call picks the first stored session or, under session_creation_lock,  *)
(* makes one (handshake start and finish); sends one request under the     *)
(* session's lock; and on any failure drops all stored sessions.  After a  *)
(* 404, which says that the server has no such session, it tries once      *)
(* more.  To its callers all this is to look like RequestChannel.          *)
(*                                                                         *)
(* A call may time out while the server still works on its request, or     *)
(* before the server has even read it; the server may restart and forget   *)
(* every session.                                                          *)
(*                                                                         *)
(* Operators whose name ends in Mutant are plausible mistakes that the     *)
(* properties are tried against; nothing else uses them.                   *)
(***************************************************************************)
EXTENDS Integers, Sequences, FiniteSets

CONSTANTS
  Caller,        \* threads of the client process
  MaxCall,       \* bound on the calls of each thread
  MaxSession,    \* bound on the handshakes
  MaxFault,      \* bound on timeouts, refusals and expiries
  MaxRestart,    \* bound on restarts of the server
  RetryDiscards, \* does a second attempt that fails drop the sessions?
                 \* TRUE for the backend, FALSE for the agent
  Diagnostic,    \* threads that may serve the diagnostic handshake endpoint
  None

ASSUME SecureSessionAssumption ==
  /\ {MaxCall, MaxSession, MaxFault, MaxRestart} \subseteq Nat
  /\ RetryDiscards \in BOOLEAN
  /\ Diagnostic \subseteq Caller
  /\ None \notin Caller
  /\ IsFiniteSet(Caller)

VARIABLES
  store,     \* client: session_store, oldest first
  creator,   \* client: the holder of session_creation_lock
  holder,    \* client: holder[s] holds session.lock of s
  sends,     \* client: next_send_seq and next_recv_seq of each session
  recvs,
  call,      \* client: the call each thread is making
  answer,    \* what has come back on the connection of a thread
  wire,      \* requests sent and not yet read by the server
  pending,   \* server: pending_handshakes
  live,      \* server: session_store
  expects,   \* server: next_recv_seq and next_send_seq of each session
  replies,
  executed,  \* executed[c, k]: dispatches of the k-th call of c
  outcome,   \* what call k of c returned
  made,      \* number of handshakes begun
  faults, restarts

client == <<store, creator, holder, sends, recvs, call, answer, outcome, made>>
server == <<pending, live, expects, replies, executed>>
vars == <<client, wire, server, faults, restarts>>

Session == 1..MaxSession
NoSession == 0
Request == Caller \X (1..MaxCall)

Kind == {"start", "finish", "request"}

(* Sequence numbers of start and finish messages are not used. *)
Message == [kind : Kind, from : Caller, k : 0..MaxCall, sess : Session, seq : Nat]

NoAnswer == [code |-> "none", seq |-> 0]
Code == {"none", "ok", "bad", "missing"}

(* attempt 0 is the diagnostic endpoint *)
PC == {"idle", "pick", "create", "start", "finish", "lock", "send", "wait",
       "retry", "discard"}
Call == [pc : PC, k : 0..MaxCall, attempt : 0..2, sess : Session \cup {NoSession}, seq : Nat]

Resting(k) == [pc |-> "idle", k |-> k, attempt |-> 0, sess |-> NoSession, seq |-> 0]

Waits(c) == call[c].pc \in {"start", "finish", "wait"}

Waited(m) ==
  LET c == call[m.from] IN
  /\ Waits(m.from) /\ answer[m.from] = NoAnswer
  /\ c.k = m.k /\ c.sess = m.sess
  /\ \/ m.kind = c.pc
     \/ m.kind = "request" /\ c.pc = "wait" /\ c.seq = m.seq

-----------------------------------------------------------------------------
Init ==
  /\ store = <<>>
  /\ creator = None
  /\ holder = [s \in Session |-> None]
  /\ sends = [s \in Session |-> 0]
  /\ recvs = [s \in Session |-> 0]
  /\ call = [c \in Caller |-> Resting(0)]
  /\ answer = [c \in Caller |-> NoAnswer]
  /\ wire = {}
  /\ pending = {}
  /\ live = {}
  /\ expects = [s \in Session |-> 0]
  /\ replies = [s \in Session |-> 0]
  /\ executed = [r \in Request |-> 0]
  /\ outcome = [r \in Request |-> "none"]
  /\ made = 0
  /\ faults = 0
  /\ restarts = 0

-----------------------------------------------------------------------------
(* The client.                                                             *)

(* forward_secure_backend_iot_request, SecureAgentTransport.request *)
Begin(c) ==
  /\ call[c].pc = "idle" /\ call[c].k < MaxCall
  /\ call' = [call EXCEPT ![c] =
       [Resting(@.k + 1) EXCEPT !.pc = "pick", !.attempt = 1]]
  /\ UNCHANGED <<store, creator, holder, sends, recvs, answer, outcome, made, wire, server,
                 faults, restarts>>

Use(c, s) == call' = [call EXCEPT ![c].pc = "lock", ![c].sess = s]

(* an empty store is not noticed *)
EmptyStoreMutant(c) ==
  /\ call[c].pc = "pick"
  /\ Use(c, IF store # <<>> THEN Head(store) ELSE NoSession)
  /\ UNCHANGED <<store, creator, holder, sends, recvs, answer, outcome, made, wire, server,
                 faults, restarts>>

Pick(c) ==
  /\ call[c].pc = "pick"
  /\ IF store # <<>> THEN Use(c, Head(store))
     ELSE call' = [call EXCEPT ![c].pc = "create"]
  /\ UNCHANGED <<store, creator, holder, sends, recvs, answer, outcome, made, wire, server,
                 faults, restarts>>

SendStart(c, k) ==
  /\ made < MaxSession
  /\ made' = made + 1
  /\ wire' = wire \cup {[kind |-> "start", from |-> c, k |-> k, sess |-> made + 1, seq |-> 0]}

(* session_creation_lock is held through the whole handshake; whoever gets *)
(* it looks into the store again.                                          *)
Reuse(c) ==
  /\ call[c].pc = "create" /\ creator = None /\ store # <<>>
  /\ Use(c, Head(store))
  /\ UNCHANGED <<store, creator, holder, sends, recvs, answer, outcome, made, wire, server,
                 faults, restarts>>

Create(c) ==
  /\ call[c].pc = "create" /\ creator = None /\ store = <<>>
  /\ creator' = c
  /\ SendStart(c, call[c].k)
  /\ call' = [call EXCEPT ![c].pc = "start", ![c].sess = made + 1]
  /\ UNCHANGED <<store, holder, sends, recvs, answer, outcome, server, faults, restarts>>

(* POST /secure/backend-iot/handshake makes a session without the lock.    *)
Diagnose(c) ==
  /\ c \in Diagnostic /\ call[c].pc = "idle"
  /\ SendStart(c, call[c].k)
  /\ call' = [call EXCEPT ![c].pc = "start", ![c].sess = made + 1, ![c].attempt = 0]
  /\ UNCHANGED <<store, creator, holder, sends, recvs, answer, outcome, server, faults,
                 restarts>>

(* the creation lock is not released *)
CreatorKeptMutant(c) ==
  /\ creator' = creator
  /\ holder' = [s \in Session |-> IF holder[s] = c THEN None ELSE holder[s]]

(* Locks are released on the way out of an exchange or a failing handshake. *)
Unlock(c) ==
  /\ creator' = IF creator = c THEN None ELSE creator
  /\ holder' = [s \in Session |-> IF holder[s] = c THEN None ELSE holder[s]]

(* a second attempt after every failure *)
AlwaysRetryMutant(c, code) ==
  /\ Unlock(c)
  /\ answer' = [answer EXCEPT ![c] = NoAnswer]
  /\ call' = [call EXCEPT ![c].pc = IF @ # "idle" /\ call[c].attempt = 1
                                     THEN "retry" ELSE "discard"]
  /\ UNCHANGED outcome

(* The exception of call c propagates: to the discard in the handler of    *)
(* the first attempt, or past it.                                          *)
Fail(c, code) ==
  /\ Unlock(c)
  /\ answer' = [answer EXCEPT ![c] = NoAnswer]
  /\ \/ /\ call[c].attempt = 0
        /\ call' = [call EXCEPT ![c] = Resting(@.k)]
        /\ UNCHANGED outcome
     \/ /\ call[c].attempt = 1
        /\ call' = [call EXCEPT ![c].pc = IF code = "missing" THEN "retry" ELSE "discard"]
        /\ UNCHANGED outcome
     \/ /\ call[c].attempt = 2 /\ RetryDiscards
        /\ call' = [call EXCEPT ![c].pc = "discard"]
        /\ UNCHANGED outcome
     \/ /\ call[c].attempt = 2 /\ ~RetryDiscards
        /\ call' = [call EXCEPT ![c] = Resting(@.k)]
        /\ outcome' = [outcome EXCEPT ![<<c, call[c].k>>] = "failed"]

Receive(c, p) == call[c].pc = p /\ answer[c] # NoAnswer

Started(c) ==
  /\ Receive(c, "start") /\ answer[c].code = "ok"
  /\ answer' = [answer EXCEPT ![c] = NoAnswer]
  /\ wire' = wire \cup {[kind |-> "finish", from |-> c, k |-> call[c].k,
                         sess |-> call[c].sess, seq |-> 0]}
  /\ call' = [call EXCEPT ![c].pc = "finish"]
  /\ UNCHANGED <<store, creator, holder, sends, recvs, outcome, made, server, faults, restarts>>

Finished(c) ==
  /\ Receive(c, "finish") /\ answer[c].code = "ok"
  /\ answer' = [answer EXCEPT ![c] = NoAnswer]
  /\ store' = Append(store, call[c].sess)
  /\ IF call[c].attempt = 0
     THEN call' = [call EXCEPT ![c] = Resting(@.k)] /\ UNCHANGED creator
     ELSE call' = [call EXCEPT ![c].pc = "lock"] /\ creator' = None
  /\ UNCHANGED <<holder, sends, recvs, outcome, made, wire, server, faults, restarts>>

(* no session.lock *)
UnlockedMutant(c) ==
  /\ call[c].pc = "lock"
  /\ call' = [call EXCEPT ![c].pc = "send", ![c].seq = sends[call[c].sess]]
  /\ UNCHANGED <<store, creator, holder, sends, recvs, answer, outcome, made, wire, server,
                 faults, restarts>>

(* with session.lock: allocate_send_seq reads and then advances            *)
Lock(c) ==
  LET s == call[c].sess IN
  /\ call[c].pc = "lock" /\ holder[s] = None
  /\ holder' = [holder EXCEPT ![s] = c]
  /\ call' = [call EXCEPT ![c].pc = "send", ![c].seq = sends[s]]
  /\ UNCHANGED <<store, creator, sends, recvs, answer, outcome, made, wire, server, faults,
                 restarts>>

Send(c) ==
  LET s == call[c].sess IN
  /\ call[c].pc = "send"
  /\ sends' = [sends EXCEPT ![s] = call[c].seq + 1]
  /\ wire' = wire \cup {[kind |-> "request", from |-> c, k |-> call[c].k, sess |-> s,
                         seq |-> call[c].seq]}
  /\ call' = [call EXCEPT ![c].pc = "wait"]
  /\ UNCHANGED <<store, creator, holder, recvs, answer, outcome, made, server, faults, restarts>>

(* the number of the reply is checked and not advanced *)
NotAdvancedMutant(c) ==
  /\ Receive(c, "wait") /\ answer[c].code = "ok" /\ answer[c].seq = recvs[call[c].sess]
  /\ outcome' = [outcome EXCEPT ![<<c, call[c].k>>] = "ok"]
  /\ call' = [call EXCEPT ![c] = Resting(@.k)]
  /\ answer' = [answer EXCEPT ![c] = NoAnswer]
  /\ Unlock(c)
  /\ UNCHANGED <<store, sends, recvs, made, wire, server, faults, restarts>>

Succeed(c) ==
  LET s == call[c].sess IN
  /\ Receive(c, "wait") /\ answer[c].code = "ok" /\ answer[c].seq = recvs[s]
  /\ recvs' = [recvs EXCEPT ![s] = @ + 1]
  /\ outcome' = [outcome EXCEPT ![<<c, call[c].k>>] = "ok"]
  /\ call' = [call EXCEPT ![c] = Resting(@.k)]
  /\ answer' = [answer EXCEPT ![c] = NoAnswer]
  /\ Unlock(c)
  /\ UNCHANGED <<store, sends, made, wire, server, faults, restarts>>

(* An error status, or a reply with another sequence number.               *)
Refused(c) ==
  /\ Waits(c) /\ answer[c] # NoAnswer
  /\ \/ answer[c].code \in {"bad", "missing"}
     \/ call[c].pc = "wait" /\ answer[c].seq # recvs[call[c].sess]
  /\ Fail(c, answer[c].code)
  /\ UNCHANGED <<store, sends, recvs, made, wire, server, faults, restarts>>

Timeout(c) ==
  /\ Waits(c) /\ faults < MaxFault
  /\ faults' = faults + 1
  /\ Fail(c, "bad")
  /\ UNCHANGED <<store, sends, recvs, made, wire, server, restarts>>

(* _discard_sessions takes session_creation_lock.                          *)
Retry(c) ==
  /\ call[c].pc = "retry" /\ creator = None
  /\ store' = <<>>
  /\ call' = [call EXCEPT ![c] = [Resting(@.k) EXCEPT !.pc = "pick", !.attempt = 2]]
  /\ UNCHANGED <<creator, holder, sends, recvs, answer, outcome, made, wire, server, faults,
                 restarts>>

(* the sessions are kept *)
SessionsKeptMutant(c) ==
  /\ call[c].pc = "discard" /\ creator = None
  /\ call' = [call EXCEPT ![c] = Resting(@.k)]
  /\ outcome' = [outcome EXCEPT ![<<c, call[c].k>>] = "failed"]
  /\ UNCHANGED <<store, creator, holder, sends, recvs, answer, made, wire, server, faults,
                 restarts>>

Discard(c) ==
  /\ call[c].pc = "discard" /\ creator = None
  /\ store' = <<>>
  /\ call' = [call EXCEPT ![c] = Resting(@.k)]
  /\ outcome' = [outcome EXCEPT ![<<c, call[c].k>>] = "failed"]
  /\ UNCHANGED <<creator, holder, sends, recvs, answer, made, wire, server, faults, restarts>>

-----------------------------------------------------------------------------
(* The server.                                                             *)

(* It reads m and answers: on a connection nobody waits for any more, into *)
(* the void.                                                               *)
Reply(m, code, seq) ==
  /\ wire' = wire \ {m}
  /\ answer' = IF Waited(m)
               THEN [answer EXCEPT ![m.from] = [code |-> code, seq |-> seq]] ELSE answer
  /\ UNCHANGED <<store, creator, holder, sends, recvs, call, outcome, made, restarts>>

ServeStart(m) ==
  /\ m.kind = "start"
  /\ Reply(m, "ok", 0)
  /\ pending' = pending \cup {m.sess}
  /\ UNCHANGED <<live, expects, replies, executed, faults>>

(* The pending handshake is popped, and promoted if there was one.         *)
ServeFinish(m) ==
  /\ m.kind = "finish"
  /\ IF m.sess \in pending
     THEN Reply(m, "ok", 0) /\ live' = live \cup {m.sess}
     ELSE Reply(m, "missing", 0) /\ UNCHANGED live
  /\ pending' = pending \ {m.sess}
  /\ UNCHANGED <<expects, replies, executed, faults>>

(* Under the session's lock: check the number, decrypt, accept, dispatch,  *)
(* encrypt the reply.                                                      *)
ServeRequest(m) ==
  LET s == m.sess IN
  /\ m.kind = "request" /\ s \in live /\ m.seq = expects[s]
  /\ Reply(m, "ok", replies[s])
  /\ expects' = [expects EXCEPT ![s] = @ + 1]
  /\ replies' = [replies EXCEPT ![s] = @ + 1]
  /\ executed' = [executed EXCEPT ![<<m.from, m.k>>] = @ + 1]
  /\ UNCHANGED <<pending, live, faults>>

ServeUnknown(m) ==
  /\ m.kind = "request" /\ m.sess \notin live
  /\ Reply(m, "missing", 0)
  /\ UNCHANGED <<server, faults>>

ServeOutOfStep(m) ==
  /\ m.kind = "request" /\ m.sess \in live /\ m.seq # expects[m.sess]
  /\ Reply(m, "bad", 0)
  /\ UNCHANGED <<server, faults>>

(* A handshake that does not verify, or a message that is too old: 400.    *)
Refuse(m) ==
  /\ faults < MaxFault
  /\ faults' = faults + 1
  /\ m.kind = "finish" => m.sess \in pending
  /\ m.kind = "request" => m.sess \in live /\ m.seq = expects[m.sess]
  /\ Reply(m, "bad", 0)
  /\ pending' = pending \ {m.sess}
  /\ UNCHANGED <<live, expects, replies, executed>>

(* The dispatched handler raises: the number was accepted, no reply was    *)
(* encrypted, 500.                                                         *)
DispatchRaises(m) ==
  LET s == m.sess IN
  /\ faults < MaxFault
  /\ faults' = faults + 1
  /\ m.kind = "request" /\ s \in live /\ m.seq = expects[s]
  /\ Reply(m, "bad", 0)
  /\ expects' = [expects EXCEPT ![s] = @ + 1]
  /\ executed' = [executed EXCEPT ![<<m.from, m.k>>] = @ + 1]
  /\ UNCHANGED <<pending, live, replies>>

(* PENDING_HANDSHAKE_TTL_SECONDS have passed. *)
Expire(s) ==
  /\ s \in pending /\ faults < MaxFault
  /\ faults' = faults + 1
  /\ pending' = pending \ {s}
  /\ UNCHANGED <<client, wire, live, expects, replies, executed, restarts>>

(* Both stores are in memory; connections break.                           *)
Restart ==
  /\ restarts < MaxRestart
  /\ restarts' = restarts + 1
  /\ pending' = {}
  /\ live' = {}
  /\ wire' = {}
  /\ answer' = [c \in Caller |->
       IF Waits(c) /\ answer[c] = NoAnswer THEN [NoAnswer EXCEPT !.code = "bad"] ELSE answer[c]]
  /\ UNCHANGED <<store, creator, holder, sends, recvs, call, outcome, made, expects, replies,
                 executed, faults>>

-----------------------------------------------------------------------------
Proceed(c) ==
  \/ Pick(c) \/ Reuse(c) \/ Create(c) \/ Started(c) \/ Finished(c)
  \/ Lock(c) \/ Send(c) \/ Succeed(c) \/ Refused(c) \/ Retry(c) \/ Discard(c)

Serve(m) ==
  ServeStart(m) \/ ServeFinish(m) \/ ServeRequest(m) \/ ServeUnknown(m) \/ ServeOutOfStep(m)

Fault ==
  \/ \E c \in Caller : Timeout(c)
  \/ \E m \in wire : Refuse(m) \/ DispatchRaises(m)
  \/ \E s \in Session : Expire(s)
  \/ Restart

Next ==
  \/ \E c \in Caller : Begin(c) \/ Diagnose(c) \/ Proceed(c)
  \/ \E m \in wire : Serve(m)
  \/ Fault

Spec == Init /\ [][Next]_vars

(***************************************************************************)
(* Threads go on and the server answers the requests that are waited for.  *)
(* A lock is not granted for ever to others (strong fairness).             *)
(***************************************************************************)
FairSpec ==
  /\ Spec
  /\ \A c \in Caller :
       /\ WF_vars(Proceed(c))
       /\ SF_vars(Lock(c))
       /\ SF_vars(Create(c) \/ Reuse(c) \/ Retry(c) \/ Discard(c))
       /\ WF_vars(\E m \in wire : m.from = c /\ Waited(m) /\ Serve(m))

-----------------------------------------------------------------------------
TypeOK ==
  /\ store \in Seq(Session)
  /\ creator \in Caller \cup {None}
  /\ holder \in [Session -> Caller \cup {None}]
  /\ {sends, recvs, expects, replies} \subseteq [Session -> Nat]
  /\ call \in [Caller -> Call]
  /\ \A c \in Caller :
       call[c].pc \in {"start", "finish", "lock", "send", "wait"} => call[c].sess \in Session
  /\ answer \in [Caller -> [code : Code, seq : Nat]]
  /\ wire \subseteq Message
  /\ pending \subseteq Session
  /\ live \subseteq Session
  /\ executed \in [Request -> Nat]
  /\ outcome \in [Request -> {"none", "ok", "failed"}]
  /\ made \in 0..MaxSession
  /\ faults \in 0..MaxFault
  /\ restarts \in 0..MaxRestart

(* A request is dispatched at most once although it may be sent twice, and *)
(* one that was answered was dispatched: the second attempt follows only   *)
(* an answer that says the first was not (secure_transport.py:142-158,     *)
(* agents/main.py:206-214).                                                *)
DispatchedOnce ==
  \A r \in Request :
    /\ executed[r] <= 1
    /\ outcome[r] = "ok" => executed[r] = 1

(* No two requests under way use the same number of a session, and so the  *)
(* same nonce: the session's lock covers the allocation (replay.py:14-19,  *)
(* secure_transport.py:174-190).                                           *)
NoSeqReuse ==
  \A m, n \in wire :
    (m.kind = "request" /\ n.kind = "request" /\ m.sess = n.sess /\ m.seq = n.seq) => m = n

(* A stored session that no call is using or about to drop agrees with the *)
(* server on both sequence numbers, unless the server has forgotten it:    *)
(* the next call on it is not refused (secure_transport.py:140-161).       *)
StoredInStep ==
  RetryDiscards =>
    \A i \in DOMAIN store :
      LET s == store[i] IN
      (s \in live /\ \A c \in Caller : call[c].sess = s => call[c].pc \in {"lock", "idle"})
        => sends[s] = expects[s] /\ recvs[s] = replies[s]

Failed == {r \in Request : outcome[r] = "failed"}

(* A fault fails at most the calls that are under way, each once: the      *)
(* session it has put out of step is dropped before it can fail later      *)
(* calls, and dropping a newer session that another thread has made        *)
(* meanwhile fails nobody (secure_transport.py:140-161, 218-222).  Only    *)
(* the diagnostic endpoint, which stores its session without the creation  *)
(* lock, can bring a dead one back after a restart: once for each thread   *)
(* that serves it, and each time for all threads.                          *)
FailuresBounded ==
  RetryDiscards =>
    Cardinality(Failed) <=
      Cardinality(Caller) * (faults + restarts * (1 + Cardinality(Diagnostic)))

(* A caller of the transport sees the channel it was promised and nothing  *)
(* else: requests issued one after another, none executed twice or before  *)
(* it was issued, none concluded twice, none answered that was not         *)
(* executed, whatever sessions and attempts it took                        *)
(* (secure_transport.py:127-161, agents/main.py:199-217).                  *)
Channel == INSTANCE RequestChannel WITH issued <- [c \in Caller |-> call[c].k]

ImplementsChannel == Channel!ChannelSpec

(* Every call returns, with an answer or an error: no thread waits for     *)
(* ever on session.lock or session_creation_lock (secure_transport.py:     *)
(* 114-124, 171, 218-222).                                                 *)
EveryCallReturns ==
  \A c \in Caller : call[c].pc # "idle" ~> call[c].pc = "idle"
=============================================================================
