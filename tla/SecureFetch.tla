---------------------------- MODULE SecureFetch -----------------------------
(***************************************************************************)
(* The browser's side of the encrypted transport,                          *)
(* frontend/app/lib/secure/secure-fetch.ts, with the backend's routes that *)
(* serve it (backend/app/routers/secure.py).                               *)
(*                                                                         *)
(* A call first waits for the configuration, whose promise is kept as soon *)
(* as the backend has answered and before the body is read.  secureFetch   *)
(* then chains the calls of a page on the promise requestQueue, so that    *)
(* one request is under way at a time; the first call of the chain makes   *)
(* the session, by a handshake whose promise later calls share.            *)
(* clearSecureTransportSession, run at logout and when the backend refuses *)
(* a request, forgets the session and the chain, but the calls already     *)
(* chained go on.                                                          *)
(*                                                                         *)
(* JavaScript runs one task at a time, and the continuations of promises   *)
(* (microtasks) before the next task.  A microtask is an action of a call  *)
(* that is Ready; the other actions of the browser, which are events, wait *)
(* until no call is.                                                       *)
(*                                                                         *)
(* Operators whose name ends in Mutant are plausible mistakes that the     *)
(* properties are tried against; nothing else uses them.                   *)
(***************************************************************************)
EXTENDS Integers, FiniteSets

CONSTANTS
  Caller,      \* the calls of secureFetch a page makes
  MaxSession,  \* bound on the handshakes
  MaxLogout,   \* bound on logouts
  MaxFault,    \* bound on faults of the network and the backend
  MaxRestart,  \* bound on restarts of the backend
  None

ASSUME SecureFetchAssumption ==
  /\ {MaxSession, MaxLogout, MaxFault, MaxRestart} \subseteq Nat
  /\ None \notin Caller
  /\ IsFiniteSet(Caller)

VARIABLES
  session,    \* session, or NoSession
  handshake,  \* the session handshakePromise will give, or NoSession
  config,     \* the call whose fetch gave configPromise, or None
  body,       \* body[c]: what became of response.json() of c's fetch of the configuration
  tail,       \* the last call chained on requestQueue, or None
  call,       \* the state of each call
  promise,    \* promise[s]: what became of the handshake for s
  sends,      \* sendSeq and recvSeq of each session
  recvs,
  wire,       \* requests on the way to the backend
  back,       \* responses on the way to the browser
  live,       \* backend: frontend_session_store
  expects,    \* backend: next_recv_seq and next_send_seq of each session
  replies,
  made,       \* number of handshakes begun
  clears,     \* number of calls of clearSecureTransportSession
  overlapped, \* has a call been made while another was under way?
  logouts, faults, restarts

page == <<session, handshake, config, body, tail>>
numbers == <<sends, recvs>>
backend == <<live, expects, replies>>
history == <<made, clears, overlapped>>
bounds == <<logouts, faults, restarts>>
vars == <<page, call, promise, numbers, wire, back, backend, history, bounds>>

Session == 1..MaxSession
NoSession == 0

(* A request of call from, or a handshake, for which from is None. *)
Message == [from : Caller \cup {None}, sess : Session, seq : Nat]

(* "refused" is a response with an error status, "error" a fetch that rejects *)
Response == [from : Caller \cup {None}, sess : Session, seq : Nat,
             code : {"ok", "refused", "error"}]

PC == {"new", "config", "body", "queued", "handshake", "request", "ok", "failed"}

(* after is the call waited for: in "body" the one whose fetch of the      *)
(* configuration c awaits, from "queued" on the one before c in its chain. *)
New == [pc |-> "new", after |-> None, sess |-> NoSession]

Settled(c) == call[c].pc \in {"ok", "failed"}
UnderWay(c) == call[c].pc # "new" /\ ~Settled(c)

(* only a call that succeeded lets the next one run *)
StopsAtFailureMutant(c) ==
  call[c].pc = "queued" /\ call[c].after \notin {d \in Caller : call[d].pc # "ok"}

MayRun(c) == call[c].pc = "queued" /\ call[c].after \notin {d \in Caller : ~Settled(d)}

MayResume(c) == call[c].pc = "handshake" /\ promise[call[c].sess] # "pending"
MayChain(c) == call[c].pc = "body" /\ body[call[c].after] # "pending"
Ready(c) == MayChain(c) \/ MayRun(c) \/ MayResume(c)
Quiet == \A c \in Caller : ~Ready(c)

-----------------------------------------------------------------------------
Init ==
  /\ session = NoSession /\ handshake = NoSession
  /\ config = None /\ body = [c \in Caller |-> "none"]
  /\ tail = None
  /\ call = [c \in Caller |-> New]
  /\ promise = [s \in Session |-> "none"]
  /\ sends = [s \in Session |-> 0] /\ recvs = [s \in Session |-> 0]
  /\ wire = {} /\ back = {}
  /\ live = {}
  /\ expects = [s \in Session |-> 0] /\ replies = [s \in Session |-> 0]
  /\ made = 0 /\ clears = 0 /\ overlapped = FALSE
  /\ logouts = 0 /\ faults = 0 /\ restarts = 0

-----------------------------------------------------------------------------
(* The calls.                                                              *)

Settle(c, how) == call' = [call EXCEPT ![c].pc = how]

(* every call of the page runs at once *)
UnchainedMutant(c) ==
  /\ call' = [call EXCEPT ![c].pc = "queued", ![c].after = None]
  /\ tail' = c

(* requestQueue = requestQueue.then(run, run) *)
Chain(c) ==
  /\ call' = [call EXCEPT ![c].pc = "queued", ![c].after = tail]
  /\ tail' = c

(* getOrLoadConfig: without configPromise the call fetches the             *)
(* configuration, and so do calls that find none meanwhile.                *)
Begin(c) ==
  /\ Quiet /\ call[c].pc = "new"
  /\ \/ config = None /\ Settle(c, "config")
     \/ /\ config # None
        /\ call' = [call EXCEPT ![c].pc = "body", ![c].after = config]
  /\ overlapped' = (overlapped \/ \E d \in Caller : UnderWay(d))
  /\ UNCHANGED <<page, promise, numbers, wire, back, backend, made, clears, bounds>>

(* the fetch rejects, or answers an error status *)
NotConfigured(c) ==
  /\ Quiet /\ call[c].pc = "config" /\ faults < MaxFault
  /\ faults' = faults + 1
  /\ Settle(c, "failed")
  /\ UNCHANGED <<page, promise, numbers, wire, back, backend, history, logouts, restarts>>

(* configPromise = response.json(): the body is still to be read *)
ConfigAnswered(c) ==
  /\ Quiet /\ call[c].pc = "config"
  /\ config' = c
  /\ body' = [body EXCEPT ![c] = "pending"]
  /\ call' = [call EXCEPT ![c].pc = "body", ![c].after = c]
  /\ UNCHANGED <<session, handshake, tail, promise, numbers, wire, back, backend, history,
                 bounds>>

ConfigRead(c) ==
  /\ Quiet /\ body[c] = "pending"
  /\ body' = [body EXCEPT ![c] = "ok"]
  /\ UNCHANGED <<session, handshake, config, tail, call, promise, numbers, wire, back, backend,
                 history, bounds>>

(* The body is cut off or is not JSON: its promise is rejected, and        *)
(* configPromise keeps it.                                                 *)
ConfigCut(c) ==
  /\ Quiet /\ body[c] = "pending" /\ faults < MaxFault
  /\ faults' = faults + 1
  /\ body' = [body EXCEPT ![c] = "failed"]
  /\ UNCHANGED <<session, handshake, config, tail, call, promise, numbers, wire, back, backend,
                 history, logouts, restarts>>

Configured(c) ==
  /\ MayChain(c)
  /\ \/ body[call[c].after] = "ok" /\ Chain(c)
     \/ body[call[c].after] = "failed" /\ Settle(c, "failed") /\ UNCHANGED tail
  /\ UNCHANGED <<session, handshake, config, body, promise, numbers, wire, back, backend,
                 history, bounds>>

(* the number is advanced with the response, by Receive *)
LateAdvanceMutant(c, s) ==
  /\ wire' = wire \cup {[from |-> c, sess |-> s, seq |-> sends[s]]}
  /\ sends' = [sends EXCEPT ![s] = recvs[s]]
  /\ call' = [call EXCEPT ![c].pc = "request", ![c].sess = s]

(* The request is encrypted with sendSeq, which is advanced before the     *)
(* call waits for the response.                                            *)
SendRequest(c, s) ==
  /\ wire' = wire \cup {[from |-> c, sess |-> s, seq |-> sends[s]]}
  /\ sends' = [sends EXCEPT ![s] = @ + 1]
  /\ call' = [call EXCEPT ![c].pc = "request", ![c].sess = s]

(* a handshake of its own for every call that finds no session *)
UnsharedMutant(c) ==
  /\ made < MaxSession
  /\ made' = made + 1
  /\ promise' = [promise EXCEPT ![made + 1] = "pending"]
  /\ handshake' = made + 1
  /\ wire' = wire \cup {[from |-> None, sess |-> made + 1, seq |-> 0]}
  /\ call' = [call EXCEPT ![c].pc = "handshake", ![c].sess = made + 1]

(* the promise to wait for is not kept *)
PromiseForgottenMutant(c) ==
  \/ /\ handshake # NoSession
     /\ call' = [call EXCEPT ![c].pc = "handshake"]
     /\ UNCHANGED <<made, promise, handshake, wire>>
  \/ handshake = NoSession /\ UnsharedMutant(c)

(* getOrCreateSession where there is no session: wait for handshakePromise, *)
(* whatever became of it, or make one.                                      *)
AwaitHandshake(c) ==
  \/ /\ handshake # NoSession
     /\ call' = [call EXCEPT ![c].pc = "handshake", ![c].sess = handshake]
     /\ UNCHANGED <<made, promise, handshake, wire>>
  \/ /\ handshake = NoSession /\ made < MaxSession
     /\ made' = made + 1
     /\ promise' = [promise EXCEPT ![made + 1] = "pending"]
     /\ handshake' = made + 1
     /\ wire' = wire \cup {[from |-> None, sess |-> made + 1, seq |-> 0]}
     /\ call' = [call EXCEPT ![c].pc = "handshake", ![c].sess = made + 1]

Run(c) ==
  /\ MayRun(c)
  /\ \/ session # NoSession /\ SendRequest(c, session)
        /\ UNCHANGED <<made, promise, handshake>>
     \/ session = NoSession /\ AwaitHandshake(c) /\ UNCHANGED sends
  /\ UNCHANGED <<session, config, body, tail, recvs, back, backend, clears, overlapped,
                 bounds>>

Resume(c) ==
  /\ MayResume(c)
  /\ \/ promise[call[c].sess] = "ok" /\ SendRequest(c, call[c].sess)
     \/ promise[call[c].sess] = "failed" /\ Settle(c, "failed") /\ UNCHANGED <<wire, sends>>
  /\ UNCHANGED <<page, promise, recvs, back, backend, history, bounds>>

-----------------------------------------------------------------------------
(* Events.                                                                 *)

(* the session is kept *)
SessionKeptMutant ==
  /\ session' = session /\ handshake' = handshake
  /\ config' = None
  /\ tail' = None
  /\ clears' = clears + 1

(* clearSecureTransportSession *)
Clear ==
  /\ session' = NoSession /\ handshake' = NoSession
  /\ config' = None
  /\ tail' = None
  /\ clears' = clears + 1

Logout ==
  /\ Quiet /\ logouts < MaxLogout
  /\ logouts' = logouts + 1
  /\ Clear
  /\ UNCHANGED <<body, call, promise, numbers, wire, back, backend, made, overlapped, faults,
                 restarts>>

Arrives(r) == Quiet /\ r \in back /\ back' = back \ {r}

(* The continuation of createSession stores the session, even one that was *)
(* begun before a clear.  A failed handshake leaves handshakePromise as it *)
(* is.                                                                     *)
HandshakeReturns(r) ==
  /\ Arrives(r) /\ r.from = None
  /\ \/ /\ r.code = "ok"
        /\ promise' = [promise EXCEPT ![r.sess] = "ok"]
        /\ session' = r.sess /\ handshake' = NoSession
     \/ /\ r.code # "ok"
        /\ promise' = [promise EXCEPT ![r.sess] = "failed"]
        /\ UNCHANGED <<session, handshake>>
  /\ UNCHANGED <<config, body, tail, call, numbers, wire, backend, history, bounds>>

Succeed(r) ==
  /\ Arrives(r) /\ r.from # None /\ r.code = "ok" /\ r.seq = recvs[r.sess]
  /\ recvs' = [recvs EXCEPT ![r.sess] = @ + 1]
  /\ Settle(r.from, "ok")
  /\ UNCHANGED <<page, promise, sends, wire, backend, history, bounds>>

(* The response took longer than maxSkewMs: it is counted and not          *)
(* decrypted, and the session stays.                                       *)
TooOld(r) ==
  /\ Arrives(r) /\ r.from # None /\ r.code = "ok" /\ r.seq = recvs[r.sess]
  /\ faults < MaxFault
  /\ faults' = faults + 1
  /\ recvs' = [recvs EXCEPT ![r.sess] = @ + 1]
  /\ Settle(r.from, "failed")
  /\ UNCHANGED <<page, promise, sends, wire, backend, history, logouts, restarts>>

Refused(r) ==
  /\ Arrives(r) /\ r.from # None
  /\ r.code = "refused" \/ (r.code = "ok" /\ r.seq # recvs[r.sess])
  /\ Clear
  /\ Settle(r.from, "failed")
  /\ UNCHANGED <<body, promise, numbers, wire, backend, made, overlapped, bounds>>

(* fetch rejects: nothing is cleared *)
Broken(r) ==
  /\ Arrives(r) /\ r.from # None /\ r.code = "error"
  /\ Settle(r.from, "failed")
  /\ UNCHANGED <<page, promise, numbers, wire, backend, history, bounds>>

-----------------------------------------------------------------------------
(* The network and the backend, which reads the messages in any order.     *)

(* Does the browser still wait for the response to m? *)
Awaited(m) ==
  /\ \A r \in back : <<r.from, r.sess>> # <<m.from, m.sess>>
  /\ IF m.from = None THEN promise[m.sess] = "pending" ELSE call[m.from].pc = "request"

ResponseTo(m, code, seq) == [from |-> m.from, sess |-> m.sess, seq |-> seq, code |-> code]

Respond(m, code, seq) ==
  /\ m \in wire
  /\ wire' = wire \ {m}
  /\ back' = IF Awaited(m) THEN back \cup {ResponseTo(m, code, seq)} ELSE back
  /\ UNCHANGED <<page, call, promise, numbers, history, logouts, restarts>>

ServeStart(m) ==
  /\ m.from = None
  /\ Respond(m, "ok", 0)
  /\ live' = live \cup {m.sess}
  /\ UNCHANGED <<expects, replies, faults>>

InStep(m) == m.from # None /\ m.sess \in live /\ m.seq = expects[m.sess]

ServeRequest(m) ==
  /\ InStep(m)
  /\ Respond(m, "ok", replies[m.sess])
  /\ expects' = [expects EXCEPT ![m.sess] = @ + 1]
  /\ replies' = [replies EXCEPT ![m.sess] = @ + 1]
  /\ UNCHANGED <<live, faults>>

(* 404 without the session, 400 for another sequence number *)
ServeOutOfStep(m) ==
  /\ m.from # None /\ ~InStep(m)
  /\ Respond(m, "refused", 0)
  /\ UNCHANGED <<backend, faults>>

(* A handshake over the rate limit, a request that is too old or whose     *)
(* handler raises after its number was accepted.                           *)
Refuse(m) ==
  /\ faults < MaxFault
  /\ faults' = faults + 1
  /\ m.from # None => InStep(m)
  /\ Respond(m, "refused", 0)
  /\ \/ UNCHANGED expects
     \/ m.from # None /\ expects' = [expects EXCEPT ![m.sess] = @ + 1]
  /\ UNCHANGED <<live, replies>>

(* The connection, or a proxy on the way, gives up: the backend may have   *)
(* answered, may still be going to read the message, or may never.         *)
GiveUp(m, code) ==
  /\ m \in wire /\ Awaited(m) /\ faults < MaxFault
  /\ faults' = faults + 1
  /\ back' = back \cup {ResponseTo(m, code, 0)}
  /\ UNCHANGED <<page, call, promise, numbers, wire, backend, history, logouts, restarts>>

LoseResponse(r) ==
  /\ r \in back /\ r.code # "error" /\ faults < MaxFault
  /\ faults' = faults + 1
  /\ back' = (back \ {r}) \cup {[r EXCEPT !.code = "error"]}
  /\ UNCHANGED <<page, call, promise, numbers, wire, backend, history, logouts, restarts>>

Restart ==
  /\ restarts < MaxRestart
  /\ restarts' = restarts + 1
  /\ live' = {}
  /\ wire' = {}
  /\ back' = back \cup {ResponseTo(m, "error", 0) : m \in {n \in wire : Awaited(n)}}
  /\ UNCHANGED <<page, call, promise, numbers, expects, replies, history, logouts, faults>>

-----------------------------------------------------------------------------
Microtask == \E c \in Caller : Configured(c) \/ Run(c) \/ Resume(c)
Event ==
  \/ \E c \in Caller : ConfigAnswered(c) \/ ConfigRead(c)
  \/ \E r \in back : HandshakeReturns(r) \/ Succeed(r) \/ Refused(r) \/ Broken(r)
Serve(m) == ServeStart(m) \/ ServeRequest(m) \/ ServeOutOfStep(m)

Fault ==
  \/ \E c \in Caller : NotConfigured(c) \/ ConfigCut(c)
  \/ \E r \in back : TooOld(r) \/ LoseResponse(r)
  \/ \E m \in wire : Refuse(m) \/ \E code \in {"refused", "error"} : GiveUp(m, code)
  \/ Restart

Next ==
  \/ Microtask
  \/ Event
  \/ \E c \in Caller : Begin(c)
  \/ Logout
  \/ \E m \in wire : Serve(m)
  \/ Fault

Spec == Init /\ [][Next]_vars

(* The browser runs its tasks, every response arrives, and every message   *)
(* that is waited for is answered.                                         *)
FairSpec ==
  /\ Spec
  /\ WF_vars(Microtask)
  /\ \A c \in Caller :
       /\ WF_vars(ConfigAnswered(c))
       /\ WF_vars(ConfigRead(c))
       /\ WF_vars(\E r \in back : r.from = c /\ (Succeed(r) \/ Refused(r) \/ Broken(r)))
       /\ WF_vars(\E m \in wire : m.from = c /\ Awaited(m) /\ Serve(m))
  /\ \A s \in Session :
       /\ WF_vars(\E r \in back : r.sess = s /\ HandshakeReturns(r))
       /\ WF_vars(\E m \in wire : m.from = None /\ m.sess = s /\ Serve(m))

-----------------------------------------------------------------------------
TypeOK ==
  /\ {session, handshake} \subseteq Session \cup {NoSession}
  /\ config \in Caller \cup {None}
  /\ body \in [Caller -> {"none", "pending", "ok", "failed"}]
  /\ tail \in Caller \cup {None}
  /\ call \in [Caller -> [pc : PC, after : Caller \cup {None}, sess : Session \cup {NoSession}]]
  /\ \A c \in Caller :
       /\ call[c].pc = "body" => call[c].after \in Caller
       /\ call[c].pc \in {"handshake", "request"} => call[c].sess \in Session
  /\ promise \in [Session -> {"none", "pending", "ok", "failed"}]
  /\ {sends, recvs, expects, replies} \subseteq [Session -> Nat]
  /\ wire \subseteq Message
  /\ back \subseteq Response
  /\ live \subseteq Session
  /\ made \in 0..MaxSession
  /\ clears \in Nat
  /\ overlapped \in BOOLEAN

(* No sequence number of a session, and so no nonce, is used for two       *)
(* requests, although after a clear two chains of calls can use one        *)
(* session at a time (secure-fetch.ts:111-121).                            *)
NoSeqReuse ==
  \A m, n \in wire :
    (m.from # None /\ n.from # None /\ m.sess = n.sess /\ m.seq = n.seq) => m = n

(* Calls that find no session share one handshake, whichever chain they    *)
(* are in: a page begins no more handshakes, of which the backend counts   *)
(* thirty in five minutes, than it has dropped sessions, and one           *)
(* (secure-fetch.ts:153-165).                                              *)
HandshakesBounded == made <= clears + 1

Failed == {c \in Caller : call[c].pc = "failed"}

(* a kept promise that was rejected *)
Wedged ==
  \/ config # None /\ body[config] = "failed"
  \/ handshake # NoSession /\ promise[handshake] = "failed"

(* While nothing is refused or lost, calls that are made at the same time  *)
(* all succeed: they share the session and take turns on it                *)
(* (secure-fetch.ts:98-102).                                               *)
CallsTakeTurns == (logouts + faults + restarts = 0) => Failed = {}

(* A fault fails two calls at most, of those made one at a time: the one   *)
(* it strikes and the one that finds the session out of step and drops it  *)
(* (secure-fetch.ts:127-136).  The exception is a promise that was         *)
(* rejected and is kept, of a handshake that failed or of a configuration  *)
(* whose body could not be read (secure-fetch.ts:84, 157): it fails every  *)
(* later call until logout.                                                *)
FailuresBounded ==
  (~overlapped /\ ~Wedged /\ logouts = 0) => Cardinality(Failed) <= 2 * (faults + restarts)

(* Again and again no call is under way, and so every call settles: a call *)
(* that fails lets the next one of its chain run, and a cleared chain is   *)
(* not left waiting (secure-fetch.ts:98-101).                              *)
EveryCallSettles == []<>(\A c \in Caller : ~UnderWay(c))

(* SECURITY.md:117: encrypted messages are "processed in strict send order *)
(* per session".                                                           *)
ProcessedInSendOrder ==
  [][\A m \in wire \ wire', n \in wire :
       (m.from # None /\ n.from # None /\ m.sess = n.sess) => m.seq <= n.seq]_vars
=============================================================================
