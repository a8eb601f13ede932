------------------------------- MODULE Accounts -------------------------------
(***************************************************************************)
(* Signing up, logging in and using a token, and the rate limiter in front *)
(* of them: backend/app/routers/auth.py, auth.py and rate_limit.py.        *)
(*                                                                         *)
(* The limiter counts in Valkey, under a key that names the bucket, whom   *)
(* it is counted for and the number of the current window.  It increments  *)
(* the counter, gives a new one an expiry with a second command, and asks  *)
(* for the time to live with a third when it refuses.  Signing up looks    *)
(* for the email before it inserts it; the column is UNIQUE.               *)
(*                                                                         *)
(* The clock counts fractions of a second, the code whole ones.            *)
(*                                                                         *)
(* Operators whose name ends in Mutant are plausible mistakes that the     *)
(* properties are tried against; nothing else uses them.                   *)
(***************************************************************************)
EXTENDS Integers, Sequences

CONSTANTS
  Thread,     \* concurrently served requests
  Ip, Email, Password,
  Strong,     \* the passwords validate_password accepts
  Lower(_),   \* str.lower of an email
  Limit,      \* Limit[b]: requests of one identifier in a window of bucket b
  Window,     \* Window[b]: window_seconds
  Lifetime,   \* ACCESS_TOKEN_EXPIRE_MINUTES, in seconds
  Tick,       \* steps of the clock in a second
  MaxClock,   \* bound on the time
  MaxRequest, \* bound on the requests
  MaxFault,   \* bound on failures of Valkey and restarts of the backend
  None

(* Signup and login count first for the address, then for the account; a   *)
(* route with a token counts for the user.                                 *)
Buckets(kind) ==
  CASE kind = "signup" -> <<"signup:ip", "signup:account">>
    [] kind = "login"  -> <<"login:ip", "login:account">>
    [] kind = "me"     -> <<"me">>
Bucket == {"signup:ip", "signup:account", "login:ip", "login:account", "me"}

ASSUME AccountsAssumption ==
  /\ {Lifetime, MaxClock, MaxRequest, MaxFault} \subseteq Nat
  /\ Tick \in Nat \ {0}
  /\ Limit \in [Bucket -> Nat \ {0}] /\ Window \in [Bucket -> Nat \ {0}]
  /\ Strong \subseteq Password
  /\ None \notin Password \cup Ip \cup Email

VARIABLES
  clock,
  counter, deadline, \* the counters in Valkey, and when each is forgotten
  users,             \* users[e]: the password whose hash is in the row of e
  promised,          \* emails and passwords that were answered "registered"
  tokens,            \* access tokens handed out: email and exp
  req,               \* the request each thread serves, or has served last
  arrivals,          \* requests that computed a key
  admitted,          \* requests let past a key within the key's own window
  made, faults

accounts == <<users, promised>>
limiter == <<counter, deadline, arrivals, admitted>>
vars == <<clock, limiter, accounts, tokens, req, made, faults>>

Now == clock \div Tick
NoExpiry == 0
Identifiers(b) == IF b \in {"signup:ip", "login:ip"} THEN Ip ELSE {Lower(e) : e \in Email}
Key == UNION {{b} \X Identifiers(b) \X (0..(MaxClock \div Tick) \div Window[b]) : b \in Bucket}

Token == [email : Email, exp : Nat]
PC == {"token", "key", "incr", "expire", "ttl", "work", "insert", "done"}
Request == [pc : PC, kind : {"signup", "login", "me"}, ip : Ip \cup {None},
            email : Email \cup {None}, password : Password \cup {None}, exp : Nat,
            todo : Seq(Bucket), seen : 0..MaxClock, code : Nat, retry : Nat]
Fresh == [pc |-> "done", kind |-> "me", ip |-> None, email |-> None, password |-> None,
          exp |-> 0, todo |-> <<>>, seen |-> 0, code |-> 0, retry |-> 0]

Init ==
  /\ clock = 0
  /\ counter = [k \in Key |-> 0]
  /\ deadline = [k \in Key |-> NoExpiry]
  /\ users = [e \in Email |-> None]
  /\ promised = {}
  /\ tokens = {}
  /\ req = [t \in Thread |-> Fresh]
  /\ arrivals = [k \in Key |-> 0]
  /\ admitted = [k \in Key |-> 0]
  /\ made = 0
  /\ faults = 0

-----------------------------------------------------------------------------
(* POST /api/signup, POST /api/login and GET /api/me *)
Begin(t) ==
  /\ req[t].pc = "done" /\ made < MaxRequest
  /\ made' = made + 1
  /\ \/ \E kind \in {"signup", "login"}, ip \in Ip, e \in Email, p \in Password :
          req' = [req EXCEPT ![t] = [Fresh EXCEPT !.pc = "key", !.kind = kind, !.ip = ip,
                    !.email = e, !.password = p, !.todo = Buckets(kind)]]
     \/ \E token \in tokens :
          req' = [req EXCEPT ![t] = [Fresh EXCEPT !.pc = "token", !.email = token.email,
                    !.exp = token.exp, !.todo = Buckets("me")]]
  /\ UNCHANGED <<clock, limiter, accounts, tokens, faults>>

Answer(t, code, retry) ==
  req' = [req EXCEPT ![t] = [Fresh EXCEPT !.code = code, !.retry = retry]]

(* get_current_user *)
CheckToken(t) ==
  /\ req[t].pc = "token"
  /\ IF Now < req[t].exp /\ users[req[t].email] # None
     THEN req' = [req EXCEPT ![t].pc = "key"]
     ELSE Answer(t, 401, 0)
  /\ UNCHANGED <<clock, limiter, accounts, tokens, made, faults>>

-----------------------------------------------------------------------------
(* enforce_rate_limit: the key of the bucket that comes next               *)
IdentifierOf(r) ==
  IF Head(r.todo) \in {"signup:ip", "login:ip"} THEN r.ip ELSE Lower(r.email)
(* one counter for all time *)
NoWindowMutant(b, seen) == 0

WindowNumber(b, seen) == seen \div Window[b]

KeyOf(r) == <<Head(r.todo), IdentifierOf(r), WindowNumber(Head(r.todo), r.seen)>>

(* the same for the history of requests *)
Slot(r) == <<Head(r.todo), IdentifierOf(r), r.seen \div Window[Head(r.todo)]>>

ComputeKey(t) ==
  LET r == [req[t] EXCEPT !.pc = "incr", !.seen = Now] IN
  /\ req[t].pc = "key"
  /\ req' = [req EXCEPT ![t] = r]
  /\ arrivals' = [arrivals EXCEPT ![Slot(r)] = @ + 1]
  /\ UNCHANGED <<clock, counter, deadline, accounts, tokens, admitted, made, faults>>

CountOne(k) == counter' = [counter EXCEPT ![k] = @ + 1] /\ UNCHANGED deadline

(* there is always another bucket *)
NeverPastMutant(r) == [r EXCEPT !.pc = "key", !.todo = Tail(@)]

(* past this bucket, to the next or to the work *)
Past(r) ==
  [r EXCEPT !.pc = IF Len(r.todo) = 1 THEN "work" ELSE "key", !.todo = Tail(@)]

Increment(t) ==
  LET r == req[t]
      k == KeyOf(r)
  IN
  /\ r.pc = "incr"
  /\ CountOne(k)
  /\ req' = [req EXCEPT ![t] =
       IF counter'[k] = 1 THEN [r EXCEPT !.pc = "expire"]
       ELSE IF counter'[k] > Limit[k[1]] THEN [r EXCEPT !.pc = "ttl"] ELSE Past(r)]
  /\ admitted' = [admitted EXCEPT ![Slot(r)] =
       IF counter'[k] <= Limit[k[1]] /\ Slot(r) = Slot([r EXCEPT !.seen = Now]) THEN @ + 1 ELSE @]
  /\ UNCHANGED <<clock, accounts, tokens, arrivals, made, faults>>

(* the time to live is taken for ticks *)
ShortLifeMutant(b) == Window[b]

LifeOf(b) == Tick * Window[b]

SetExpiry(k) ==
  deadline' = [deadline EXCEPT ![k] = IF counter[k] > 0 THEN clock + LifeOf(k[1]) ELSE @]

Expire(t) ==
  /\ req[t].pc = "expire"
  /\ SetExpiry(KeyOf(req[t]))
  /\ req' = [req EXCEPT ![t] = Past(@)]
  /\ UNCHANGED <<clock, counter, accounts, tokens, arrivals, admitted, made, faults>>

(* TTL rounds to the nearest second; none is set yet, or the key is gone: 0 *)
TimeToLive(k) ==
  IF deadline[k] # NoExpiry
  THEN (2 * (deadline[k] - clock) + Tick) \div (2 * Tick) ELSE 0

(* whatever Valkey says *)
NoDefaultMutant(k) == TimeToLive(k)

RetryAfter(k) == IF TimeToLive(k) > 0 THEN TimeToLive(k) ELSE Window[k[1]]

Refuse(t) ==
  /\ req[t].pc = "ttl"
  /\ Answer(t, 429, RetryAfter(KeyOf(req[t])))
  /\ UNCHANGED <<clock, limiter, accounts, tokens, made, faults>>

-----------------------------------------------------------------------------
(* validate_password *)
Valid(password) == password \in Strong

(* register, login and read_current_user past the limiter                  *)
Work(t) ==
  LET r == req[t] IN
  /\ r.pc = "work"
  /\ \/ /\ r.kind = "signup"
        /\ IF ~Valid(r.password) \/ users[r.email] # None
           THEN Answer(t, 400, 0) ELSE req' = [req EXCEPT ![t].pc = "insert"]
        /\ UNCHANGED tokens
     \/ /\ r.kind = "login" /\ users[r.email] = r.password
        /\ tokens' = tokens \cup {[email |-> r.email, exp |-> Now + Lifetime]}
        /\ Answer(t, 200, 0)
     \/ /\ r.kind = "login" /\ users[r.email] # r.password
        /\ Answer(t, 401, 0) /\ UNCHANGED tokens
     \/ /\ r.kind = "me"
        /\ Answer(t, 200, 0) /\ UNCHANGED tokens
  /\ UNCHANGED <<clock, limiter, accounts, made, faults>>

(* the row is written over *)
MergeMutant(r) == TRUE

Unique(r) == users[r.email] = None

(* INSERT: the exception of a second row for the email is not handled.     *)
Insert(t) ==
  LET r == req[t] IN
  /\ r.pc = "insert"
  /\ \/ /\ Unique(r)
        /\ users' = [users EXCEPT ![r.email] = r.password]
        /\ promised' = promised \cup {<<r.email, r.password>>}
        /\ Answer(t, 200, 0)
     \/ ~Unique(r) /\ Answer(t, 500, 0) /\ UNCHANGED accounts
  /\ UNCHANGED <<clock, limiter, tokens, made, faults>>

-----------------------------------------------------------------------------
(* Valkey fails, with or without having done what it was asked: 503.       *)
Unavailable(t) ==
  /\ req[t].pc \in {"incr", "expire", "ttl"} /\ faults < MaxFault
  /\ faults' = faults + 1
  /\ \/ UNCHANGED <<counter, deadline>>
     \/ req[t].pc = "incr" /\ CountOne(KeyOf(req[t]))
     \/ req[t].pc = "expire" /\ SetExpiry(KeyOf(req[t])) /\ UNCHANGED counter
  /\ Answer(t, 503, 0)
  /\ UNCHANGED <<clock, accounts, tokens, arrivals, admitted, made>>

Restart ==
  /\ faults < MaxFault
  /\ faults' = faults + 1
  /\ req' = [t \in Thread |-> Fresh]
  /\ UNCHANGED <<clock, limiter, accounts, tokens, made>>

(* Valkey forgets a counter at its deadline.                               *)
Advance ==
  /\ clock < MaxClock
  /\ clock' = clock + 1
  /\ counter' = [k \in Key |-> IF deadline[k] \in 1..clock' THEN 0 ELSE counter[k]]
  /\ deadline' = [k \in Key |-> IF deadline[k] \in 1..clock' THEN NoExpiry ELSE deadline[k]]
  /\ UNCHANGED <<arrivals, admitted, accounts, tokens, req, made, faults>>

Next ==
  \/ \E t \in Thread : \/ Begin(t) \/ CheckToken(t) \/ ComputeKey(t) \/ Increment(t)
                       \/ Expire(t) \/ Refuse(t) \/ Work(t) \/ Insert(t) \/ Unavailable(t)
  \/ Restart
  \/ Advance

Spec == Init /\ [][Next]_vars

-----------------------------------------------------------------------------
TypeOK ==
  /\ clock \in 0..MaxClock
  /\ counter \in [Key -> Nat] /\ deadline \in [Key -> Nat]
  /\ users \in [Email -> Password \cup {None}]
  /\ promised \subseteq Email \X Password
  /\ tokens \subseteq Token
  /\ req \in [Thread -> Request]
  /\ \A t \in Thread : req[t].pc \in {"key", "incr", "expire", "ttl"} => req[t].todo # <<>>
  /\ arrivals \in [Key -> Nat] /\ admitted \in [Key -> Nat]
  /\ made \in 0..MaxRequest
  /\ faults \in 0..MaxFault

(* In no window are more requests of an identifier let past a bucket than  *)
(* its limit, however their commands interleave and Valkey forgets: a      *)
(* counter never goes before the window it counts is over                  *)
(* (rate_limit.py:34-60).                                                  *)
AdmittedInWindow == \A k \in Key : admitted[k] <= Limit[k[1]]

Answered(t, code) == req[t].pc # "done" /\ req'[t].pc = "done" /\ req'[t].code = code

(* A request is refused only for what arrived in its own window: a counter *)
(* that a crash left without an expiry locks nobody out of later windows   *)
(* (rate_limit.py:52-55).                                                  *)
RefusalJustified ==
  [][\A t \in Thread : Answered(t, 429) =>
       arrivals[Slot(req[t])] > Limit[Head(req[t].todo)]]_vars

(* Who is refused and waits as told finds a new window, but for less than  *)
(* the half second by which TTL rounds down, and is never told to wait     *)
(* longer than a window (rate_limit.py:56-62).                             *)
RetryAfterHonest ==
  [][\A t \in Thread : Answered(t, 429) =>
       LET b == Head(req[t].todo)
           end == Tick * Window[b] * (Slot(req[t])[3] + 1)
       IN  /\ 2 * (end - clock - Tick * req'[t].retry) < Tick
           /\ req'[t].retry \in 1..Window[b]]_vars

(* Whoever is told that the registration succeeded can log in with the     *)
(* password, although others sign up with the same email at the same time  *)
(* (auth.py:28-39).                                                        *)
SuccessMeansLogin == \A p \in promised : users[p[1]] = p[2]
=============================================================================
