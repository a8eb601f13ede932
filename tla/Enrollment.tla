----------------------------- MODULE Enrollment -----------------------------
(***************************************************************************)
(* Registration in secure mode: how the public key of one device name gets *)
(* into table devices and changes there.  POST /agent/register of          *)
(* server-iot/app/routers/agent.py with enrollment.py, the token that      *)
(* scripts/agents.py issues, and the agent that registers with it.         *)
(*                                                                         *)
(* The launcher generates a key pair and a token for it together, so a     *)
(* token is named by its key.  The token is good until it expires and for  *)
(* one use: the server notes the use in Valkey, under a key that Valkey    *)
(* forgets when the token has expired.  Then it commits the new key.  An   *)
(* agent retries a registration until it succeeds, and registers again,    *)
(* with the same token, whenever it starts.                                *)
(*                                                                         *)
(* The clock counts half seconds, and the code whole ones.                 *)
(*                                                                         *)
(* Operators whose name ends in Mutant are plausible mistakes that the     *)
(* properties are tried against; nothing else uses them.                   *)
(***************************************************************************)
EXTENDS Integers

CONSTANTS
  Key,        \* the key pairs the launcher generates for the device name
  Thread,     \* concurrently served registrations
  Lifetime,   \* ENROLLMENT_TTL_SECONDS
  MaxClock,   \* bound on the time, in half seconds
  MaxFault,   \* bound on timeouts, agent restarts and failures of Valkey
  MaxRestart, \* bound on the restarts of the server
  NoRow,      \* the device has no row
  NoKey,      \* the device has a row without a key, from plaintext mode
  NoThread

ASSUME EnrollmentAssumption ==
  /\ {Lifetime, MaxClock, MaxFault, MaxRestart} \subseteq Nat
  /\ NoRow \notin Key /\ NoKey \notin Key /\ NoRow # NoKey
  /\ NoThread \notin Thread

VARIABLES
  clock,
  issued,    \* keys whose token has been issued
  expiry,    \* expiry[k]: exp of the token for k
  used,      \* used[k]: the time until which Valkey holds its jti
  uses,      \* uses[k]: how many times the token was accepted
  registry,  \* the registered key of the device: public_key_id and public_key
  req,       \* the registration each thread is serving
  agent,     \* agent[k]: the agent with key k and the thread it waits for
  faults, restarts

bounds == <<faults, restarts>>
vars == <<clock, issued, expiry, used, uses, registry, req, agent, bounds>>

Registered == Key \cup {NoRow, NoKey}
PC == {"idle", "check", "consume", "commit"}
Request == [pc : PC, key : Registered, saw : Registered]
Idle == [pc |-> "idle", key |-> NoKey, saw |-> NoRow]

Unregistered == [pc |-> "unregistered", call |-> NoThread]

(* int(time.time()) *)
Now == clock \div 2

Init ==
  /\ clock = 0
  /\ issued = {}
  /\ expiry = [k \in Key |-> 0]
  /\ used = [k \in Key |-> 0]
  /\ uses = [k \in Key |-> 0]
  /\ registry \in {NoRow, NoKey}
  /\ req = [t \in Thread |-> Idle]
  /\ agent = [k \in Key |-> [pc |-> "off", call |-> NoThread]]
  /\ faults = 0
  /\ restarts = 0

-----------------------------------------------------------------------------
(* The launcher starts an agent with a fresh key and token.                *)
Issue(k) ==
  /\ k \notin issued
  /\ issued' = issued \cup {k}
  /\ expiry' = [expiry EXCEPT ![k] = Now + Lifetime]
  /\ agent' = [agent EXCEPT ![k] = Unregistered]
  /\ UNCHANGED <<clock, used, uses, registry, req, bounds>>

(* the key is not kept *)
KeyForgottenMutant(t, k) ==
  /\ agent[k] = Unregistered /\ req[t] = Idle
  /\ req' = [req EXCEPT ![t] = [Idle EXCEPT !.pc = "check", !.saw = registry]]
  /\ agent' = [agent EXCEPT ![k] = [pc |-> "waits", call |-> t]]
  /\ UNCHANGED <<clock, issued, expiry, used, uses, registry, bounds>>

(* The registration of an agent arrives in a session of its own, and the   *)
(* row of the device is loaded.                                            *)
Register(t, k) ==
  /\ agent[k] = Unregistered /\ req[t] = Idle
  /\ req' = [req EXCEPT ![t] = [pc |-> "check", key |-> k, saw |-> registry]]
  /\ agent' = [agent EXCEPT ![k] = [pc |-> "waits", call |-> t]]
  /\ UNCHANGED <<clock, issued, expiry, used, uses, registry, bounds>>

(* Thread t answers; the agent may no longer be waiting.                   *)
Answer(t, ok) ==
  /\ req' = [req EXCEPT ![t] = Idle]
  /\ agent' = [k \in Key |->
       IF agent[k].call # t THEN agent[k]
       ELSE IF ok THEN [pc |-> "registered", call |-> NoThread] ELSE Unregistered]

(* every registration needs a token *)
AlwaysTokenMutant(r) == TRUE

(* needs_enrollment or is_key_rotation *)
NeedsToken(r) == r.saw # r.key

(* verify_enrollment_token, and past it consume_enrollment_jti, which      *)
(* reads the time again                                                    *)
Check(t) ==
  LET k == req[t].key IN
  /\ req[t].pc = "check"
  /\ \/ /\ ~NeedsToken(req[t])
        /\ req' = [req EXCEPT ![t].pc = "commit"] /\ UNCHANGED agent
     \/ /\ NeedsToken(req[t]) /\ Now <= expiry[k]
        /\ req' = [req EXCEPT ![t].pc = "consume"] /\ UNCHANGED agent
     \/ /\ NeedsToken(req[t]) /\ Now > expiry[k]
        /\ Answer(t, FALSE)                              \* 403
  /\ UNCHANGED <<clock, issued, expiry, used, uses, registry, bounds>>

(* the use is noted for a second, whatever the age of the token *)
OneSecondMutant(k) == 1

TimeToLive(k) == expiry[k] - Now

(* SET key value NX EX ttl *)
Consume(t) ==
  LET k == req[t].key IN
  /\ req[t].pc = "consume"
  /\ \/ /\ TimeToLive(k) > 0 /\ used[k] <= clock
        /\ used' = [used EXCEPT ![k] = clock + 2 * TimeToLive(k)]
        /\ uses' = [uses EXCEPT ![k] = @ + 1]
        /\ req' = [req EXCEPT ![t].pc = "commit"]
        /\ UNCHANGED agent
     \/ /\ TimeToLive(k) <= 0 \/ used[k] > clock
        /\ Answer(t, FALSE)                              \* 403
        /\ UNCHANGED <<used, uses>>
  /\ UNCHANGED <<clock, issued, expiry, registry, bounds>>

(* all columns of the row are written *)
RowWrittenMutant(r) == IF r.saw = NoRow /\ registry # NoRow THEN registry ELSE r.key

(* What is in the registry after the commit of r: a row inserted meanwhile *)
(* makes an insert fail, and an update writes the key only where it        *)
(* differs from the one that was loaded.                                   *)
Written(r) ==
  IF (r.saw = NoRow /\ registry # NoRow) \/ r.saw = r.key THEN registry ELSE r.key

Commit(t) ==
  LET r == req[t] IN
  /\ r.pc = "commit"
  /\ registry' = Written(r)
  /\ Answer(t, ~(r.saw = NoRow /\ registry # NoRow))     \* otherwise 500
  /\ UNCHANGED <<clock, issued, expiry, used, uses, bounds>>

-----------------------------------------------------------------------------
Tick ==
  /\ clock < MaxClock
  /\ clock' = clock + 1
  /\ UNCHANGED <<issued, expiry, used, uses, registry, req, agent, bounds>>

(* The agent gives up waiting, or its process starts anew.                 *)
Again(k) ==
  /\ agent[k].pc \in {"waits", "registered"} /\ faults < MaxFault
  /\ faults' = faults + 1
  /\ agent' = [agent EXCEPT ![k] = Unregistered]
  /\ UNCHANGED <<clock, issued, expiry, used, uses, registry, req, restarts>>

(* Valkey does not answer: 503, whether or not it has noted the use.       *)
Unavailable(t) ==
  LET k == req[t].key IN
  /\ req[t].pc = "consume" /\ TimeToLive(k) > 0 /\ faults < MaxFault
  /\ faults' = faults + 1
  /\ \/ UNCHANGED <<used, uses>>
     \/ /\ used[k] <= clock
        /\ used' = [used EXCEPT ![k] = clock + 2 * TimeToLive(k)]
        /\ uses' = [uses EXCEPT ![k] = @ + 1]
  /\ Answer(t, FALSE)
  /\ UNCHANGED <<clock, issued, expiry, registry, restarts>>

Restart ==
  /\ restarts < MaxRestart
  /\ restarts' = restarts + 1
  /\ req' = [t \in Thread |-> Idle]
  /\ agent' = [k \in Key |-> IF agent[k].pc = "waits" THEN Unregistered ELSE agent[k]]
  /\ UNCHANGED <<clock, issued, expiry, used, uses, registry, faults>>

-----------------------------------------------------------------------------
Serve(t) == Check(t) \/ Consume(t) \/ Commit(t)

Next ==
  \/ \E k \in Key : Issue(k) \/ Again(k) \/ \E t \in Thread : Register(t, k)
  \/ \E t \in Thread : Serve(t) \/ Unavailable(t)
  \/ Tick
  \/ Restart

Spec == Init /\ [][Next]_vars

(* Requests are served, and an agent retries for ever, if need be in a new *)
(* process (docker-compose.agents.yml:31), and is not for ever the one     *)
(* that finds no free thread.                                              *)
FairSpec ==
  /\ Spec
  /\ \A t \in Thread : WF_vars(Serve(t))
  /\ \A k \in Key : SF_vars(\E t \in Thread : Register(t, k))

-----------------------------------------------------------------------------
TypeOK ==
  /\ clock \in 0..MaxClock
  /\ issued \subseteq Key
  /\ {expiry, used, uses} \subseteq [Key -> Nat]
  /\ registry \in Registered
  /\ req \in [Thread -> Request]
  /\ \A t \in Thread : req[t].pc # "idle" => req[t].key \in issued
  /\ agent \in [Key -> [pc : {"off", "unregistered", "waits", "registered"},
                        call : Thread \cup {NoThread}]]
  /\ faults \in 0..MaxFault
  /\ restarts \in 0..MaxRestart

(* A token is accepted once, although registrations that carry it overlap, *)
(* are retried, and Valkey forgets the use when the token expires: there   *)
(* is no moment at which the one is forgotten and the other still good     *)
(* (enrollment.py:79-108).                                                 *)
TokenUsedOnce == \A k \in Key : uses[k] <= 1

(* The registered key changes only to one whose token has been accepted in *)
(* the same registration: an agent that comes back with the key it finds   *)
(* does not undo a rotation that commits meanwhile (agent.py:142-190).     *)
KeyNeedsToken ==
  [][registry' # registry =>
       \E t \in Thread : /\ req[t].pc = "commit" /\ req[t].key = registry'
                         /\ req[t].saw # registry' /\ uses[registry'] = 1]_vars

(* An agent whose key is registered gets in again, although its token is   *)
(* spent or has expired: whatever became of the answer to its first        *)
(* registration, and however often it starts (agent.py:151-165, agents/    *)
(* main.py:542-566).                                                       *)
RegisteredComesBack ==
  \A k \in Key : registry = k /\ agent[k] = Unregistered
                   ~> registry # k \/ agent[k].pc = "registered"
=============================================================================
