-------------------------- MODULE Enrollment_proofs --------------------------
(***************************************************************************)
(* Proofs about Enrollment, for any number of keys, threads, faults and    *)
(* restarts, any lifetime of a token and any time that passes.             *)
(*                                                                         *)
(* Why a token is used once: the code's second begins no later than the    *)
(* clock, so the time to live that it computes from the second lasts, from *)
(* the clock on, at least until the token has expired.  Valkey forgets the *)
(* use only then, and then no time to live is positive.                    *)
(***************************************************************************)
EXTENDS Enrollment, TLAPS

(* What is left of a token's use *)
UseInv ==
  \A k \in Key :
    /\ uses[k] <= 1
    /\ uses[k] # 0 => k \in issued /\ 2 * expiry[k] <= used[k]

(* A registration that will write another key than it saw has had its      *)
(* token accepted.                                                         *)
CommitInv ==
  \A t \in Thread : req[t].pc = "commit" /\ NeedsToken(req[t]) => uses[req[t].key] = 1

(* An agent has been started if its key and token were issued.             *)
Off == [pc |-> "off", call |-> NoThread]
AgentInv == \A k \in Key : k \in issued \/ agent[k] = Off

Inv == TypeOK /\ UseInv /\ CommitInv /\ AgentInv

LEMMA Seconds == ASSUME clock \in Nat PROVE Now \in Nat /\ 2 * Now <= clock /\ clock < 2 * Now + 2
  BY DEF Now

-----------------------------------------------------------------------------
(* Requests and agents *)

AgentState == [pc : {"off", "unregistered", "waits", "registered"}, call : Thread \cup {NoThread}]

LEMMA StatesOK ==
  /\ Unregistered \in AgentState /\ [pc |-> "registered", call |-> NoThread] \in AgentState
  /\ Off \in AgentState /\ Off.call = NoThread /\ Off # Unregistered
  /\ Off.pc \notin {"waits", "registered"}
  /\ \A t \in Thread : [pc |-> "waits", call |-> t] \in AgentState
  /\ Idle \in Request /\ Idle.pc = "idle"
  BY DEF Unregistered, Off, AgentState, Idle, Request, PC, Registered

(* the part of TypeOK and CommitInv that is about requests, when they and  *)
(* the agents change and nothing is taken back                             *)
RequestsOK ==
  /\ req \in [Thread -> Request]
  /\ \A t \in Thread : req[t].pc # "idle" => req[t].key \in issued
  /\ agent \in [Key -> AgentState]
  /\ CommitInv
  /\ AgentInv

LEMMA AnswerOK ==
  ASSUME Inv, NEW t \in Thread, NEW ok \in BOOLEAN, Answer(t, ok),
         issued' = issued, \A k \in Key : uses[k] = 1 => uses'[k] = 1
  PROVE  RequestsOK'
<1>1. /\ req' = [req EXCEPT ![t] = Idle] /\ req \in [Thread -> Request] /\ issued \subseteq Key
      /\ \A u \in Thread : req[u].pc # "idle" => req[u].key \in issued
  BY DEF Answer, Inv, TypeOK
<1>2. \A u \in Thread : req'[u] = req[u] \/ req'[u].pc = "idle"
  BY <1>1, StatesOK
<1>3. req' \in [Thread -> Request]
  BY <1>1, StatesOK
<1>4. agent' \in [Key -> AgentState]
  BY StatesOK DEF Answer, Inv, TypeOK, AgentState
<1>5. \A u \in Thread : req'[u].pc # "idle" => req'[u].key \in issued'
  BY <1>1, <1>2
<1>6. \A u \in Thread :
        req'[u].pc = "commit" /\ NeedsToken(req'[u]) => uses'[req'[u].key] = 1
  BY <1>1, <1>2 DEF Inv, CommitInv
<1>7. CommitInv'
  BY <1>6 DEF CommitInv, NeedsToken
<1>8. ASSUME NEW k \in Key PROVE k \in issued' \/ agent'[k] = Off
  <2>1. k \in issued \/ agent[k] = Off
    BY DEF Inv, AgentInv
  <2>2. agent[k] = Off => agent'[k] = agent[k]
    BY StatesOK, EnrollmentAssumption DEF Answer
  <2> QED BY <2>1, <2>2
<1>9. AgentInv'
  BY <1>8 DEF AgentInv, Off
<1> QED BY <1>3, <1>4, <1>5, <1>7, <1>9 DEF RequestsOK

LEMMA MoveOK ==
  ASSUME Inv, NEW t \in Thread, NEW pc \in PC, req[t].pc # "idle",
         req' = [req EXCEPT ![t].pc = pc], UNCHANGED <<agent, issued>>,
         \A k \in Key : uses[k] = 1 => uses'[k] = 1,
         pc = "commit" /\ NeedsToken(req[t]) => uses'[req[t].key] = 1
  PROVE  RequestsOK'
<1>1. /\ req \in [Thread -> Request] /\ issued \subseteq Key
      /\ \A u \in Thread : req[u].pc # "idle" => req[u].key \in issued
  BY DEF Inv, TypeOK
<1> DEFINE r == [req[t] EXCEPT !.pc = pc]
<1>2. r \in Request /\ r.pc = pc /\ r.key = req[t].key /\ r.saw = req[t].saw
  BY <1>1 DEF Request
<1>3. req' = [req EXCEPT ![t] = r]
  BY <1>1
<1> HIDE DEF r
<1>4. req' \in [Thread -> Request] /\ \A u \in Thread : req'[u] = IF u = t THEN r ELSE req[u]
  BY <1>1, <1>2, <1>3
<1>5. agent' \in [Key -> AgentState]
  BY DEF Inv, TypeOK, AgentState
<1>6. ASSUME NEW u \in Thread
      PROVE  /\ req'[u].pc # "idle" => req'[u].key \in issued'
             /\ req'[u].pc = "commit" /\ NeedsToken(req'[u]) => uses'[req'[u].key] = 1
  <2>1. CASE u = t
    BY <1>1, <1>2, <1>4, <2>1 DEF NeedsToken
  <2>2. CASE u # t
    BY <1>1, <1>4, <2>2 DEF Inv, CommitInv
  <2> QED BY <2>1, <2>2
<1>7. CommitInv'
  BY <1>6 DEF CommitInv, NeedsToken
<1>8. AgentInv'
  BY DEF Inv, AgentInv
<1> QED BY <1>4, <1>5, <1>6, <1>7, <1>8 DEF RequestsOK

(* What is left to show where tokens and registry do not change            *)
LEMMA FrameOK ==
  ASSUME Inv, RequestsOK', UNCHANGED <<issued, expiry, used, uses>>,
         clock' \in 0..MaxClock, registry' \in Registered,
         faults' \in 0..MaxFault, restarts' \in 0..MaxRestart
  PROVE  Inv'
  BY DEF Inv, TypeOK, UseInv, RequestsOK, AgentState

(* Another use of a token: the one that was noted has not been forgotten   *)
(* before the token expired.                                               *)
Accept(k) ==
  /\ TimeToLive(k) > 0 /\ used[k] <= clock
  /\ used' = [used EXCEPT ![k] = clock + 2 * TimeToLive(k)]
  /\ uses' = [uses EXCEPT ![k] = @ + 1]

LEMMA AcceptOK ==
  ASSUME Inv, NEW k \in issued, Accept(k), UNCHANGED <<issued, expiry>>
  PROVE  /\ {expiry', used', uses'} \subseteq [Key -> Nat]
         /\ UseInv' /\ uses[k] = 0 /\ uses'[k] = 1
         /\ \A j \in Key : uses[j] = 1 => uses'[j] = 1
<1>1. /\ k \in Key /\ clock \in Nat /\ issued \subseteq Key
      /\ expiry \in [Key -> Nat] /\ used \in [Key -> Nat] /\ uses \in [Key -> Nat]
  BY EnrollmentAssumption DEF Inv, TypeOK
<1>2. Now \in Nat /\ 2 * Now <= clock /\ clock < 2 * Now + 2
  BY <1>1, Seconds
<1>3. /\ expiry[k] \in Nat /\ used[k] \in Nat /\ uses[k] \in Nat
      /\ TimeToLive(k) = expiry[k] - Now
  BY <1>1 DEF TimeToLive
<1>4. expiry[k] - Now > 0 /\ used[k] <= clock
  BY <1>3 DEF Accept
<1>5. clock < 2 * expiry[k]
  BY <1>1, <1>2, <1>3, <1>4
<1>6. uses[k] = 0
  <2>1. uses[k] # 0 => 2 * expiry[k] <= used[k]
    BY <1>1 DEF Inv, UseInv
  <2> QED BY <1>1, <1>3, <1>4, <1>5, <2>1
<1> DEFINE until == clock + 2 * (expiry[k] - Now)
<1>7. until \in Nat /\ 2 * expiry[k] <= until
  BY <1>1, <1>2, <1>3, <1>4
<1>8. used' = [used EXCEPT ![k] = until] /\ uses' = [uses EXCEPT ![k] = 1]
  BY <1>1, <1>3, <1>6 DEF Accept
<1> HIDE DEF until
<1>9. used' \in [Key -> Nat] /\ uses' \in [Key -> Nat] /\ expiry' \in [Key -> Nat]
  BY <1>1, <1>7, <1>8
<1>10. ASSUME NEW j \in Key
       PROVE  /\ uses'[j] <= 1
              /\ uses'[j] # 0 => j \in issued' /\ 2 * expiry'[j] <= used'[j]
              /\ uses[j] = 1 => uses'[j] = 1
  <2>1. /\ uses[j] <= 1
        /\ uses[j] # 0 => j \in issued /\ 2 * expiry[j] <= used[j]
    BY DEF Inv, UseInv
  <2>2. CASE j = k
    BY <1>1, <1>6, <1>7, <1>8, <2>2
  <2>3. CASE j # k
    BY <1>1, <1>8, <2>1, <2>3
  <2> QED BY <2>2, <2>3
<1>11. UseInv'
  BY <1>10 DEF UseInv
<1> QED BY <1>1, <1>6, <1>8, <1>9, <1>10, <1>11

-----------------------------------------------------------------------------
(* The actions *)

LEMMA IssueStep == ASSUME Inv, NEW k \in Key, Issue(k) PROVE Inv'
<1>1. /\ k \notin issued /\ issued' = issued \cup {k}
      /\ expiry' = [expiry EXCEPT ![k] = Now + Lifetime]
      /\ agent' = [agent EXCEPT ![k] = Unregistered]
      /\ UNCHANGED <<clock, used, uses, registry, req, faults, restarts>>
  BY DEF Issue, bounds
<1>2. Now + Lifetime \in Nat
  BY Seconds, EnrollmentAssumption DEF Inv, TypeOK
<1>3. expiry' \in [Key -> Nat] /\ issued' \subseteq Key
  BY <1>1, <1>2 DEF Inv, TypeOK
<1>4. agent' \in [Key -> AgentState]
  BY <1>1, StatesOK DEF Inv, TypeOK, AgentState
<1>5. \A t \in Thread : req'[t].pc # "idle" => req'[t].key \in issued'
  BY <1>1 DEF Inv, TypeOK
<1>6. TypeOK'
  BY <1>1, <1>3, <1>4, <1>5 DEF Inv, TypeOK, AgentState
<1>7. UseInv'
  BY <1>1 DEF Inv, TypeOK, UseInv
<1>8. CommitInv'
  BY <1>1 DEF Inv, CommitInv, NeedsToken
<1>9. AgentInv'
  BY <1>1 DEF Inv, TypeOK, AgentInv
<1> QED BY <1>6, <1>7, <1>8, <1>9 DEF Inv

LEMMA RegisterStep == ASSUME Inv, NEW t \in Thread, NEW k \in Key, Register(t, k) PROVE Inv'
<1> DEFINE r == [pc |-> "check", key |-> k, saw |-> registry]
           waits == [pc |-> "waits", call |-> t]
<1>1. /\ agent[k] = Unregistered
      /\ req' = [req EXCEPT ![t] = r] /\ agent' = [agent EXCEPT ![k] = waits]
      /\ UNCHANGED <<clock, issued, expiry, used, uses, registry, faults, restarts>>
  BY DEF Register, bounds
<1>2. r \in Request /\ r.pc = "check" /\ r.key = k /\ waits \in AgentState
  <2>1. registry \in Registered /\ k \in Registered
    BY DEF Inv, TypeOK, Registered
  <2>2. r \in Request
    BY <2>1 DEF Request, PC
  <2> QED BY <2>2, StatesOK
<1>3. k \in issued
  BY <1>1, StatesOK DEF Inv, AgentInv
<1> HIDE DEF r, waits
<1>4. /\ req' \in [Thread -> Request] /\ \A u \in Thread : req'[u] = IF u = t THEN r ELSE req[u]
      /\ agent' \in [Key -> AgentState]
  BY <1>1, <1>2 DEF Inv, TypeOK, AgentState
<1>5. ASSUME NEW u \in Thread
      PROVE  /\ req'[u].pc # "idle" => req'[u].key \in issued'
             /\ req'[u].pc = "commit" /\ NeedsToken(req'[u]) => uses'[req'[u].key] = 1
  <2>1. CASE u = t
    BY <1>1, <1>2, <1>3, <1>4, <2>1
  <2>2. CASE u # t
    BY <1>1, <1>4, <2>2 DEF Inv, TypeOK, CommitInv
  <2> QED BY <2>1, <2>2
<1>6. RequestsOK'
  <2>1. AgentInv'
    BY <1>1, <1>3 DEF Inv, TypeOK, AgentInv
  <2> QED BY <2>1, <1>4, <1>5 DEF RequestsOK, CommitInv, NeedsToken
<1> QED BY <1>1, <1>6, FrameOK DEF Inv, TypeOK

LEMMA CheckStep == ASSUME Inv, NEW t \in Thread, Check(t) PROVE Inv'
<1>1. req[t].pc = "check" /\ UNCHANGED <<clock, issued, expiry, used, uses, registry, faults, restarts>>
  BY DEF Check, bounds
<1>2. RequestsOK'
  <2>1. CASE ~NeedsToken(req[t]) /\ req' = [req EXCEPT ![t].pc = "commit"] /\ agent' = agent
    BY <1>1, <2>1, MoveOK DEF PC
  <2>2. CASE req' = [req EXCEPT ![t].pc = "consume"] /\ agent' = agent
    BY <1>1, <2>2, MoveOK DEF PC
  <2>3. CASE Answer(t, FALSE)
    BY <1>1, <2>3, AnswerOK
  <2> QED BY <2>1, <2>2, <2>3 DEF Check
<1> QED BY <1>1, <1>2, FrameOK DEF Inv, TypeOK

(* What is left to show where a token is accepted *)
LEMMA AcceptedOK ==
  ASSUME Inv, RequestsOK', {expiry', used', uses'} \subseteq [Key -> Nat], UseInv',
         UNCHANGED <<clock, issued, registry>>,
         faults' \in 0..MaxFault, restarts' \in 0..MaxRestart
  PROVE  Inv'
  BY DEF Inv, TypeOK, RequestsOK, AgentState

LEMMA ConsumeStep == ASSUME Inv, NEW t \in Thread, Consume(t) PROVE Inv'
<1> DEFINE k == req[t].key
<1>1. req[t].pc = "consume" /\ UNCHANGED <<clock, issued, expiry, registry, faults, restarts>>
  BY DEF Consume, bounds
<1>2. k \in issued
  BY <1>1 DEF Inv, TypeOK
<1>3. faults' \in 0..MaxFault /\ restarts' \in 0..MaxRestart
  BY <1>1 DEF Inv, TypeOK
<1>4. CASE Accept(k) /\ req' = [req EXCEPT ![t].pc = "commit"] /\ agent' = agent
  <2>1. /\ {expiry', used', uses'} \subseteq [Key -> Nat] /\ UseInv' /\ uses'[k] = 1
        /\ \A j \in Key : uses[j] = 1 => uses'[j] = 1
    BY <1>1, <1>2, <1>4, AcceptOK
  <2>2. RequestsOK'
    BY <1>1, <1>4, <2>1, MoveOK DEF PC
  <2> QED BY <1>1, <1>3, <2>1, <2>2, AcceptedOK
<1>5. CASE Answer(t, FALSE) /\ UNCHANGED <<used, uses>>
  <2>1. RequestsOK'
    BY <1>1, <1>5, AnswerOK
  <2> QED BY <1>1, <1>3, <1>5, <2>1, FrameOK DEF Inv, TypeOK
<1> QED BY <1>4, <1>5 DEF Consume, Accept

LEMMA CommitStep == ASSUME Inv, NEW t \in Thread, Commit(t) PROVE Inv'
<1>1. /\ req[t].pc = "commit" /\ registry' = Written(req[t])
      /\ Answer(t, ~(req[t].saw = NoRow /\ registry # NoRow))
      /\ UNCHANGED <<clock, issued, expiry, used, uses, faults, restarts>>
  BY DEF Commit, bounds
<1>2. registry' \in Registered
  BY <1>1 DEF Written, Inv, TypeOK, Registered
<1>3. RequestsOK'
  <2>1. (~(req[t].saw = NoRow /\ registry # NoRow)) \in BOOLEAN
    OBVIOUS
  <2> QED BY <1>1, <2>1, AnswerOK
<1> QED BY <1>1, <1>2, <1>3, FrameOK DEF Inv, TypeOK

LEMMA UnavailableStep == ASSUME Inv, NEW t \in Thread, Unavailable(t) PROVE Inv'
<1> DEFINE k == req[t].key
<1>1. /\ req[t].pc = "consume" /\ TimeToLive(k) > 0 /\ faults < MaxFault /\ faults' = faults + 1
      /\ Answer(t, FALSE) /\ UNCHANGED <<clock, issued, expiry, registry, restarts>>
  BY DEF Unavailable
<1>2. k \in issued
  BY <1>1 DEF Inv, TypeOK
<1>3. faults' \in 0..MaxFault /\ restarts' \in 0..MaxRestart
  BY <1>1, EnrollmentAssumption DEF Inv, TypeOK
<1>4. CASE Accept(k)
  <2>1. /\ {expiry', used', uses'} \subseteq [Key -> Nat] /\ UseInv'
        /\ \A j \in Key : uses[j] = 1 => uses'[j] = 1
    BY <1>1, <1>2, <1>4, AcceptOK
  <2>2. RequestsOK'
    BY <1>1, <2>1, AnswerOK
  <2> QED BY <1>1, <1>3, <2>1, <2>2, AcceptedOK
<1>5. CASE UNCHANGED <<used, uses>>
  <2>1. RequestsOK'
    BY <1>1, <1>5, AnswerOK
  <2> QED BY <1>1, <1>3, <1>5, <2>1, FrameOK DEF Inv, TypeOK
<1> QED BY <1>1, <1>4, <1>5 DEF Unavailable, Accept

LEMMA AgainStep == ASSUME Inv, NEW k \in Key, Again(k) PROVE Inv'
<1>1. /\ agent[k].pc \in {"waits", "registered"} /\ faults < MaxFault /\ faults' = faults + 1
      /\ agent' = [agent EXCEPT ![k] = Unregistered]
      /\ UNCHANGED <<clock, issued, expiry, used, uses, registry, req, restarts>>
  BY DEF Again
<1>2. agent' \in [Key -> AgentState]
  BY <1>1, StatesOK DEF Inv, TypeOK, AgentState
<1>3. RequestsOK'
  <2>1. k \in issued
    BY <1>1, StatesOK DEF Inv, AgentInv
  <2>2. AgentInv'
    BY <1>1, <2>1 DEF Inv, TypeOK, AgentInv
  <2> QED BY <1>1, <1>2, <2>2 DEF Inv, TypeOK, RequestsOK, CommitInv, NeedsToken
<1>4. faults' \in 0..MaxFault
  BY <1>1, EnrollmentAssumption DEF Inv, TypeOK
<1> QED BY <1>1, <1>3, <1>4, FrameOK DEF Inv, TypeOK

LEMMA RestartStep == ASSUME Inv, Restart PROVE Inv'
<1>1. /\ restarts < MaxRestart /\ restarts' = restarts + 1
      /\ req' = [t \in Thread |-> Idle]
      /\ agent' = [k \in Key |-> IF agent[k].pc = "waits" THEN Unregistered ELSE agent[k]]
      /\ UNCHANGED <<clock, issued, expiry, used, uses, registry, faults>>
  BY DEF Restart
<1>2. agent' \in [Key -> AgentState] /\ req' \in [Thread -> Request]
  BY <1>1, StatesOK DEF Inv, TypeOK, AgentState
<1>3. \A t \in Thread : req'[t].pc = "idle"
  BY <1>1, StatesOK
<1>4. RequestsOK'
  <2>1. AgentInv'
    BY <1>1, StatesOK DEF Inv, AgentInv
  <2> QED BY <1>2, <1>3, <2>1 DEF RequestsOK, CommitInv
<1>5. restarts' \in 0..MaxRestart
  BY <1>1, EnrollmentAssumption DEF Inv, TypeOK
<1> QED BY <1>1, <1>4, <1>5, FrameOK DEF Inv, TypeOK

(* a step in which no request or agent changes *)
LEMMA StillOK ==
  ASSUME Inv, UNCHANGED <<issued, expiry, used, uses, registry, req, agent, faults, restarts>>,
         clock' \in 0..MaxClock
  PROVE  Inv'
<1>1. RequestsOK'
  BY DEF Inv, TypeOK, RequestsOK, CommitInv, NeedsToken, AgentState, AgentInv
<1> QED BY <1>1, FrameOK DEF Inv, TypeOK

LEMMA Step == Inv /\ [Next]_vars => Inv'
<1> SUFFICES ASSUME Inv, [Next]_vars PROVE Inv'
  OBVIOUS
<1>1. ASSUME NEW k \in Key, Issue(k) \/ Again(k) PROVE Inv'
  BY <1>1, IssueStep, AgainStep
<1>2. ASSUME NEW k \in Key, NEW t \in Thread, Register(t, k) PROVE Inv'
  BY <1>2, RegisterStep
<1>3. ASSUME NEW t \in Thread, Serve(t) \/ Unavailable(t) PROVE Inv'
  BY <1>3, CheckStep, ConsumeStep, CommitStep, UnavailableStep DEF Serve
<1>4. CASE Tick
  <2>1. /\ clock' \in 0..MaxClock
        /\ UNCHANGED <<issued, expiry, used, uses, registry, req, agent, faults, restarts>>
    BY <1>4, EnrollmentAssumption DEF Tick, bounds, Inv, TypeOK
  <2> QED BY <2>1, StillOK
<1>5. CASE Restart
  BY <1>5, RestartStep
<1>6. CASE UNCHANGED vars
  <2>1. /\ clock' \in 0..MaxClock
        /\ UNCHANGED <<issued, expiry, used, uses, registry, req, agent, faults, restarts>>
    BY <1>6 DEF vars, bounds, Inv, TypeOK
  <2> QED BY <2>1, StillOK
<1> QED BY <1>1, <1>2, <1>3, <1>4, <1>5, <1>6 DEF Next

LEMMA Start == Init => Inv
<1> SUFFICES ASSUME Init PROVE Inv
  OBVIOUS
<1>1. \A t \in Thread : req[t] = Idle
  BY DEF Init
<1>2. TypeOK
  BY <1>1, StatesOK, EnrollmentAssumption DEF Init, TypeOK, AgentState, Registered
<1>3. UseInv
  <2>1. ASSUME NEW k \in Key PROVE uses[k] = 0
    BY DEF Init
  <2>2. 0 <= 1
    OBVIOUS
  <2> QED BY <2>1, <2>2 DEF UseInv
<1>4. CommitInv
  BY <1>1, StatesOK DEF CommitInv
<1>5. AgentInv
  BY DEF Init, AgentInv, Off
<1> QED BY <1>2, <1>3, <1>4, <1>5 DEF Inv

LEMMA Invariance == Spec => []Inv
<1> QED BY Start, Step, PTL DEF Spec

-----------------------------------------------------------------------------
(* A registration that is served is of a key that the launcher issued, and *)
(* keeps what it needs from check to commit (agent.py:142-203).            *)
THEOREM EnrollmentTypeCorrect == Spec => []TypeOK
<1>1. Inv => TypeOK
  BY DEF Inv
<1> QED BY <1>1, Invariance, PTL

(* A token is accepted once, whatever its lifetime, however registrations  *)
(* overlap and wherever in its seconds the clock stands                    *)
(* (enrollment.py:79-108).                                                 *)
THEOREM TokenUsedOnceHolds == Spec => []TokenUsedOnce
<1>1. Inv => TokenUsedOnce
  BY DEF Inv, UseInv, TokenUsedOnce
<1> QED BY <1>1, Invariance, PTL

(* The registered key changes only to one whose token was accepted for     *)
(* the registration that writes it (agent.py:142-190).                     *)
THEOREM KeyNeedsTokenHolds == Spec => KeyNeedsToken
<1> DEFINE Needs == registry' # registry =>
       \E t \in Thread : /\ req[t].pc = "commit" /\ req[t].key = registry'
                         /\ req[t].saw # registry' /\ uses[registry'] = 1
<1>1. Inv /\ [Next]_vars => [Needs]_vars
  <2> SUFFICES ASSUME Inv, Next, registry' # registry
               PROVE  \E t \in Thread : /\ req[t].pc = "commit" /\ req[t].key = registry'
                                        /\ req[t].saw # registry' /\ uses[registry'] = 1
    BY DEF vars
  <2>1. PICK t \in Thread : Commit(t)
    BY DEF Next, Serve, Issue, Again, Register, Check, Consume, Unavailable, Tick, Restart
  <2>2. req[t].pc = "commit" /\ registry' = req[t].key /\ req[t].saw # req[t].key
    BY <2>1 DEF Commit, Written
  <2>3. uses[req[t].key] = 1
    BY <2>2 DEF Inv, CommitInv, NeedsToken
  <2> QED BY <2>2, <2>3
<1> QED BY <1>1, Invariance, PTL DEF Spec, KeyNeedsToken
=============================================================================
