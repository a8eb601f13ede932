--------------------------- MODULE Accounts_proofs ---------------------------
(***************************************************************************)
(* Proofs about Accounts, for any number of threads, requests and faults,  *)
(* any limits, windows and resolution of the clock.                        *)
(*                                                                         *)
(* Why no window admits more than its limit: a counter is never below the  *)
(* requests admitted in its window while that window lasts, since an       *)
(* expiry is set no sooner than the window begins and for a whole window,  *)
(* so Valkey forgets a counter only when its window is over.               *)
(*                                                                         *)
(* Why nobody is refused without cause: the window's number is part of the *)
(* key, so a counter never exceeds what arrived in its window, even when   *)
(* a failure left it without an expiry; and why Retry-After is honest: an  *)
(* expiry lies ahead of the clock, by a window at most.                    *)
(***************************************************************************)
EXTENDS Accounts, FiniteSetTheorems, TLAPS

-----------------------------------------------------------------------------
(* Seconds and windows *)

LEMMA Division ==
  ASSUME NEW a \in Nat, NEW d \in Nat \ {0}
  PROVE  a \div d \in Nat /\ d * (a \div d) <= a /\ a < d * (a \div d) + d
  OBVIOUS

LEMMA Monotone ==
  ASSUME NEW d \in Nat, NEW a \in Nat, NEW b \in Nat, a <= b
  PROVE  d * a <= d * b
  OBVIOUS

LEMMA DivisionMonotone ==
  ASSUME NEW d \in Nat \ {0}, NEW a \in Nat, NEW b \in Nat, a <= b
  PROVE  a \div d <= b \div d
<1> DEFINE x == a \div d
           y == b \div d
<1>1. x \in Nat /\ d * x <= a /\ y \in Nat /\ b < d * y + d
  BY Division
<1> HIDE DEF x, y
<1>2. SUFFICES ASSUME x > y PROVE FALSE
  BY <1>1 DEF x, y
<1>3. d * (y + 1) <= d * x
  BY <1>1, <1>2, Monotone
<1>4. d * (y + 1) = d * y + d
  BY <1>1
<1> QED BY <1>1, <1>3, <1>4

(* The end of the window of a key *)
End(k) == LifeOf(k[1]) * (k[3] + 1)

LEMMA Constants ==
  /\ Tick \in Nat \ {0}
  /\ \A b \in Bucket : /\ Window[b] \in Nat \ {0} /\ LifeOf(b) \in Nat \ {0}
                       /\ Limit[b] \in Nat \ {0}
                       /\ \A n \in Nat : LifeOf(b) * n = Tick * (Window[b] * n)
<1>1. /\ Tick \in Nat \ {0}
      /\ \A b \in Bucket : Window[b] \in Nat \ {0} /\ Limit[b] \in Nat \ {0}
  BY AccountsAssumption
<1>2. ASSUME NEW b \in Bucket
      PROVE  LifeOf(b) \in Nat \ {0} /\ \A n \in Nat : LifeOf(b) * n = Tick * (Window[b] * n)
  BY <1>1 DEF LifeOf
<1> QED BY <1>1, <1>2

(* A window begins before whoever has seen it is served, and the clock is  *)
(* before the end of the window that it is in.                             *)
LEMMA Windows ==
  ASSUME NEW b \in Bucket, NEW c \in Nat, NEW seen \in Nat, seen <= c \div Tick
  PROVE  /\ WindowNumber(b, seen) \in Nat
         /\ WindowNumber(b, seen) <= WindowNumber(b, c \div Tick)
         /\ LifeOf(b) * WindowNumber(b, seen) <= c
         /\ c < LifeOf(b) * (WindowNumber(b, c \div Tick) + 1)
<1> DEFINE w == Window[b]
           q == c \div Tick
           n == seen \div w
           m == q \div w
<1>1. Tick \in Nat \ {0} /\ w \in Nat \ {0}
  BY Constants
<1>2. q \in Nat /\ Tick * q <= c /\ c < Tick * q + Tick
  BY <1>1, Division
<1>3. n \in Nat /\ w * n <= seen /\ m \in Nat /\ w * m <= q /\ q < w * m + w
  BY <1>1, <1>2, Division
<1>4. n <= m
  BY <1>1, <1>2, DivisionMonotone
<1>5. \A i \in Nat : LifeOf(b) * i = Tick * (w * i)
  BY Constants
<1>6. WindowNumber(b, seen) = n /\ WindowNumber(b, q) = m /\ seen <= q
  BY DEF WindowNumber
<1> HIDE DEF w, q, n, m
<1>7. LifeOf(b) * n <= c
  <2>1. w * n \in Nat /\ w * n <= q
    BY <1>1, <1>2, <1>3, <1>6
  <2>2. Tick * (w * n) <= Tick * q
    BY <2>1, <1>1, <1>2, Monotone
  <2> QED BY <2>1, <2>2, <1>1, <1>2, <1>3, <1>5
<1>8. c < LifeOf(b) * (m + 1)
  <2>1. w * (m + 1) \in Nat /\ q + 1 <= w * (m + 1)
    <3>1. w * (m + 1) = w * m + w /\ w * m \in Nat
      BY <1>1, <1>3
    <3> QED BY <3>1, <1>1, <1>2, <1>3
  <2>2. Tick * (q + 1) <= Tick * (w * (m + 1))
    BY <2>1, <1>1, <1>2, Monotone
  <2>3. Tick * (q + 1) = Tick * q + Tick
    BY <1>1, <1>2
  <2>4. m + 1 \in Nat
    BY <1>3
  <2>5. LifeOf(b) * (m + 1) = Tick * (w * (m + 1))
    BY <2>4, <1>5
  <2>6. Tick * q \in Nat /\ Tick * (w * (m + 1)) \in Nat
    BY <1>1, <1>2, <2>1
  <2> QED BY <2>2, <2>3, <2>5, <2>6, <1>1, <1>2
<1> QED BY <1>3, <1>4, <1>6, <1>7, <1>8 DEF q

-----------------------------------------------------------------------------
(* Keys *)

IpBucket == {"signup:ip", "login:ip"}

LEMMA KeyParts ==
  \A k \in Key : k[1] \in Bucket /\ k[3] \in Nat /\ End(k) \in Nat \ {0}
<1>1. ASSUME NEW k \in Key
      PROVE  k[1] \in Bucket /\ k[3] \in Nat
  <2>1. PICK b \in Bucket : k \in {b} \X Identifiers(b) \X (0..(MaxClock \div Tick) \div Window[b])
    BY <1>1 DEF Key
  <2> QED BY <2>1
<1>2. \A k \in Key : LifeOf(k[1]) \in Nat \ {0}
  BY <1>1, Constants
<1>3. ASSUME NEW l \in Nat \ {0}, NEW n \in Nat
      PROVE  l * (n + 1) \in Nat \ {0}
  <2>1. l * 1 <= l * (n + 1)
    BY Monotone
  <2> QED BY <2>1
<1> QED BY <1>1, <1>2, <1>3 DEF End

(* What holds of the request of a thread, whatever it does *)
RequestOK(r) ==
  /\ r \in Request
  /\ r.pc \in {"token", "key", "incr", "expire", "ttl"} => r.todo # <<>>
  /\ \A i \in 1..Len(r.todo) : r.todo[i] \in IpBucket => r.ip \in Ip
  /\ r.pc # "done" => r.email \in Email
  /\ r.pc # "done" /\ r.kind # "me" => r.password \in Password
  /\ r.pc = "insert" => r.kind = "signup"

LEMMA KeyInKey ==
  ASSUME NEW r, RequestOK(r), r.todo # <<>>, NEW c \in 0..MaxClock, r.seen <= c \div Tick,
         r.pc # "done"
  PROVE  /\ KeyOf(r) \in Key /\ Slot(r) = KeyOf(r)
         /\ KeyOf(r)[1] = Head(r.todo) /\ Head(r.todo) \in Bucket
         /\ KeyOf(r)[3] = WindowNumber(Head(r.todo), r.seen)
<1> DEFINE b == Head(r.todo)
           w == WindowNumber(b, r.seen)
<1>1. /\ r.todo \in Seq(Bucket) /\ r.seen \in Nat /\ r.ip \in Ip \cup {None}
      /\ r.email \in Email
      /\ \A i \in 1..Len(r.todo) : r.todo[i] \in IpBucket => r.ip \in Ip
  BY DEF RequestOK, Request
<1>2. b \in Bucket /\ b = r.todo[1] /\ 1 \in 1..Len(r.todo)
  BY <1>1
<1>3. IdentifierOf(r) \in Identifiers(b)
  <2>1. b \in IpBucket => r.ip \in Ip
    BY <1>1, <1>2
  <2> QED BY <1>1, <2>1 DEF IdentifierOf, Identifiers, IpBucket
<1>4. c \in Nat /\ MaxClock \in Nat /\ Tick \in Nat \ {0} /\ c <= MaxClock
  BY AccountsAssumption
<1>5. c \div Tick <= MaxClock \div Tick /\ c \div Tick \in Nat /\ MaxClock \div Tick \in Nat
  BY <1>4, Division, DivisionMonotone
<1>6. r.seen <= MaxClock \div Tick
  BY <1>5, <1>1
<1>7. w \in Nat /\ w <= WindowNumber(b, MaxClock \div Tick)
  BY <1>1, <1>2, <1>4, <1>6, Windows
<1>8. w \in 0..(MaxClock \div Tick) \div Window[b]
  <2>1. (MaxClock \div Tick) \div Window[b] \in Nat
    BY <1>2, <1>5, Constants, Division
  <2> QED BY <1>7, <2>1 DEF WindowNumber
<1>9. <<b, IdentifierOf(r), w>> \in Key
  BY <1>2, <1>3, <1>8 DEF Key
<1>10. KeyOf(r) = <<b, IdentifierOf(r), w>> /\ Slot(r) = KeyOf(r)
  BY DEF KeyOf, Slot, WindowNumber
<1> QED BY <1>2, <1>9, <1>10

-----------------------------------------------------------------------------
(* Requests *)

LEMMA NoBuckets == <<>> \in Seq(Bucket) /\ Len(<<>>) = 0 /\ 0 \in 0..MaxClock /\ "done" \in PC
  BY AccountsAssumption DEF PC

LEMMA FreshOK == RequestOK(Fresh) /\ Fresh.pc = "done" /\ Fresh.seen = 0 /\ Fresh.todo = <<>>
<1>1. Fresh \in Request
  BY NoBuckets DEF Request, Fresh
<1>2. Fresh.pc = "done" /\ Fresh.seen = 0 /\ Fresh.todo = <<>>
  BY DEF Fresh
<1> QED BY <1>1, <1>2, NoBuckets DEF RequestOK

LEMMA AnswerOK ==
  ASSUME NEW code \in Nat, NEW retry \in Nat
  PROVE  /\ RequestOK([Fresh EXCEPT !.code = code, !.retry = retry])
         /\ [Fresh EXCEPT !.code = code, !.retry = retry].seen = 0
<1>1. ASSUME NEW r, RequestOK(r), r.pc = "done", r.seen = 0
      PROVE  /\ RequestOK([r EXCEPT !.code = code, !.retry = retry])
             /\ [r EXCEPT !.code = code, !.retry = retry].seen = 0
  BY <1>1 DEF RequestOK, Request
<1> QED BY <1>1, FreshOK

LEMMA BucketsOK ==
  /\ \A kind \in {"signup", "login"} : Buckets(kind) \in Seq(Bucket) /\ Buckets(kind) # <<>>
  /\ Buckets("me") \in Seq(Bucket) /\ Buckets("me") # <<>>
  /\ \A i \in 1..Len(Buckets("me")) : Buckets("me")[i] \notin IpBucket
<1>1. Buckets("signup") = <<"signup:ip", "signup:account">>
  BY DEF Buckets
<1>2. Buckets("login") = <<"login:ip", "login:account">>
  BY DEF Buckets
<1>3. Buckets("me") = <<"me">>
  BY DEF Buckets
<1>4. <<"signup:ip", "signup:account">> \in Seq(Bucket)
  BY DEF Bucket
<1>5. <<"login:ip", "login:account">> \in Seq(Bucket)
  BY DEF Bucket
<1>6. <<"me">> \in Seq(Bucket)
  BY DEF Bucket
<1>7. /\ <<"signup:ip", "signup:account">> # <<>> /\ <<"login:ip", "login:account">> # <<>>
      /\ <<"me">> # <<>>
  OBVIOUS
<1>8. /\ \A kind \in {"signup", "login"} : Buckets(kind) \in Seq(Bucket) /\ Buckets(kind) # <<>>
      /\ Buckets("me") \in Seq(Bucket) /\ Buckets("me") # <<>>
  <2> DEFINE a == <<"signup:ip", "signup:account">>
             b == <<"login:ip", "login:account">>
             c == <<"me">>
  <2>1. Buckets("signup") = a /\ Buckets("login") = b /\ Buckets("me") = c
    BY <1>1, <1>2, <1>3
  <2>2. a # <<>> /\ b # <<>> /\ c # <<>> /\ {a, b, c} \subseteq Seq(Bucket)
    BY <1>4, <1>5, <1>6, <1>7
  <2> HIDE DEF a, b, c
  <2> QED BY <2>1, <2>2
<1>9. \A i \in 1..Len(Buckets("me")) : Buckets("me")[i] \notin IpBucket
  BY <1>3 DEF IpBucket
<1> QED BY <1>8, <1>9

Posted(kind, ip, e, p) ==
  [Fresh EXCEPT !.pc = "key", !.kind = kind, !.ip = ip, !.email = e, !.password = p,
                !.todo = Buckets(kind)]
Asked(token) ==
  [Fresh EXCEPT !.pc = "token", !.email = token.email, !.exp = token.exp, !.todo = Buckets("me")]

LEMMA BeginOK ==
  /\ \A kind \in {"signup", "login"}, ip \in Ip, e \in Email, p \in Password :
       RequestOK(Posted(kind, ip, e, p)) /\ Posted(kind, ip, e, p).seen = 0
  /\ \A token \in Token : RequestOK(Asked(token)) /\ Asked(token).seen = 0
<1>1. ASSUME NEW kind \in {"signup", "login"}, NEW ip \in Ip, NEW e \in Email,
             NEW p \in Password
      PROVE  RequestOK(Posted(kind, ip, e, p)) /\ Posted(kind, ip, e, p).seen = 0
  <2> DEFINE r == Fresh
             todo == Buckets(kind)
  <2>1. RequestOK(r) /\ r.seen = 0 /\ todo \in Seq(Bucket) /\ todo # <<>>
    BY FreshOK, BucketsOK
  <2>2. Posted(kind, ip, e, p) = [r EXCEPT !.pc = "key", !.kind = kind, !.ip = ip,
                                    !.email = e, !.password = p, !.todo = todo]
    BY DEF Posted
  <2> HIDE DEF r, todo
  <2> QED BY <2>1, <2>2 DEF RequestOK, Request, PC
<1>2. ASSUME NEW token \in Token
      PROVE  RequestOK(Asked(token)) /\ Asked(token).seen = 0
  <2> DEFINE r == Fresh
             todo == Buckets("me")
             e == token.email
             exp == token.exp
  <2>1. RequestOK(r) /\ r.seen = 0 /\ todo \in Seq(Bucket) /\ todo # <<>>
    BY FreshOK, BucketsOK
  <2>2. Asked(token) = [r EXCEPT !.pc = "token", !.email = e, !.exp = exp, !.todo = todo]
    BY DEF Asked
  <2>3. r.kind = "me" /\ e \in Email /\ exp \in Nat
    BY DEF Fresh, Token
  <2>4. \A i \in 1..Len(todo) : todo[i] \notin IpBucket
    BY BucketsOK
  <2> HIDE DEF r, todo, e, exp
  <2> QED BY <2>1, <2>2, <2>3, <2>4 DEF RequestOK, Request, PC
<1> QED BY <1>1, <1>2

LEMMA MoveOK ==
  ASSUME NEW r, RequestOK(r), NEW pc \in PC \ {"done"}, r.pc # "done",
         r.todo # <<>> \/ pc \in {"work", "insert"}, pc = "insert" => r.kind = "signup"
  PROVE  /\ RequestOK([r EXCEPT !.pc = pc])
         /\ \A seen \in 0..MaxClock : RequestOK([r EXCEPT !.pc = pc, !.seen = seen])
         /\ [r EXCEPT !.pc = pc].pc = pc /\ [r EXCEPT !.pc = pc].seen = r.seen
<1>1. ASSUME NEW seen \in 0..MaxClock
      PROVE  RequestOK([r EXCEPT !.pc = pc, !.seen = seen])
  BY DEF RequestOK, Request
<1>2. RequestOK([r EXCEPT !.pc = pc])
  BY DEF RequestOK, Request
<1> QED BY <1>1, <1>2 DEF RequestOK, Request

LEMMA PastOK ==
  ASSUME NEW r, RequestOK(r), r.pc \in {"incr", "expire"}
  PROVE  RequestOK(Past(r)) /\ Past(r).seen = r.seen /\ Past(r).pc \in {"work", "key"}
<1> DEFINE todo == Tail(r.todo)
           pc == IF Len(r.todo) = 1 THEN "work" ELSE "key"
<1>1. /\ r.todo \in Seq(Bucket) /\ r.todo # <<>>
      /\ \A i \in 1..Len(r.todo) : r.todo[i] \in IpBucket => r.ip \in Ip
  BY DEF RequestOK, Request
<1>2. /\ todo \in Seq(Bucket) /\ Len(todo) = Len(r.todo) - 1
      /\ \A i \in 1..Len(todo) : todo[i] = r.todo[i + 1] /\ i + 1 \in 1..Len(r.todo)
  BY <1>1
<1>3. /\ \A i \in 1..Len(todo) : todo[i] \in IpBucket => r.ip \in Ip
      /\ pc = "key" => todo # <<>>
  <2>1. \A i \in 1..Len(todo) : todo[i] \in IpBucket => r.ip \in Ip
    BY <1>1, <1>2
  <2>2. Len(r.todo) # 1 => Len(todo) # 0
    BY <1>1, <1>2
  <2>3. pc = "key" => Len(r.todo) # 1
    OBVIOUS
  <2>4. Len(todo) # 0 => todo # <<>>
    <3> HIDE DEF todo
    <3> QED BY NoBuckets
  <2> QED BY <2>1, <2>2, <2>3, <2>4
<1>4. Past(r) = [r EXCEPT !.pc = pc, !.todo = todo]
  BY DEF Past, RequestOK, Request
<1>5. todo \in Seq(Bucket) /\ pc \in {"work", "key"}
  BY <1>2
<1>6. r.pc # "done" /\ pc # "done" /\ pc \in PC
  BY <1>5 DEF PC
<1> HIDE DEF todo, pc
<1>7. RequestOK([r EXCEPT !.pc = pc, !.todo = todo])
  BY <1>3, <1>5, <1>6 DEF RequestOK, Request
<1>8. /\ [r EXCEPT !.pc = pc, !.todo = todo].seen = r.seen
      /\ [r EXCEPT !.pc = pc, !.todo = todo].pc = pc
  BY DEF RequestOK, Request
<1> QED BY <1>4, <1>5, <1>7, <1>8

-----------------------------------------------------------------------------
(* The types, with what holds of each request *)
TypeInv ==
  /\ clock \in 0..MaxClock
  /\ counter \in [Key -> Nat] /\ deadline \in [Key -> Nat]
  /\ users \in [Email -> Password \cup {None}]
  /\ promised \subseteq Email \X Password
  /\ tokens \subseteq Token
  /\ req \in [Thread -> Request]
  /\ \A t \in Thread : RequestOK(req[t]) /\ req[t].seen <= Now
  /\ arrivals \in [Key -> Nat] /\ admitted \in [Key -> Nat]
  /\ made \in 0..MaxRequest
  /\ faults \in 0..MaxFault

(* Counters and the windows they count for *)
WindowInv ==
  \A k \in Key :
    /\ admitted[k] <= Limit[k[1]]
    /\ clock < End(k) => admitted[k] <= counter[k]
    /\ deadline[k] = NoExpiry \/ End(k) <= deadline[k]

LEMMA TypeInvTypeOK == TypeInv => TypeOK
<1> SUFFICES ASSUME TypeInv PROVE TypeOK
  OBVIOUS
<1>1. \A t \in Thread : req[t].pc \in {"key", "incr", "expire", "ttl"} => req[t].todo # <<>>
  BY DEF TypeInv, RequestOK
<1> QED BY <1>1 DEF TypeInv, TypeOK

LEMMA NowOK == TypeInv => Now \in Nat /\ clock \in Nat /\ Now <= clock
<1> SUFFICES ASSUME TypeInv PROVE Now \in Nat /\ clock \in Nat /\ Now <= clock
  OBVIOUS
<1>1. clock \in Nat /\ Tick \in Nat \ {0}
  BY AccountsAssumption DEF TypeInv
<1>2. clock \div Tick \in Nat /\ Tick * (clock \div Tick) <= clock
  BY <1>1, Division
<1>3. \A n \in Nat : n <= Tick * n
  <2>1. SUFFICES ASSUME NEW n \in Nat PROVE n * 1 <= n * Tick
    BY <1>1
  <2> QED BY <1>1, Monotone
<1>4. Tick * (clock \div Tick) \in Nat
  BY <1>1, <1>2
<1> QED BY <1>1, <1>2, <1>3, <1>4 DEF Now

(* The key of a request that is being counted *)
LEMMA Counting ==
  ASSUME TypeInv, NEW t \in Thread, req[t].pc \in {"incr", "expire", "ttl"}
  PROVE  LET r == req[t]
             k == KeyOf(r)
         IN  /\ RequestOK(r) /\ k \in Key /\ Slot(r) = k /\ k[1] = Head(r.todo)
             /\ k[1] \in Bucket
             /\ LifeOf(k[1]) * k[3] <= clock
             /\ LifeOf(k[1]) * k[3] \in Nat
             /\ End(k) = LifeOf(k[1]) * k[3] + LifeOf(k[1])
<1> DEFINE r == req[t]
           k == KeyOf(r)
<1>1. /\ RequestOK(r) /\ r.seen <= clock \div Tick /\ r.todo # <<>> /\ r.pc # "done"
      /\ r.seen \in Nat /\ clock \in 0..MaxClock /\ clock \in Nat
  <2>1. RequestOK(r) /\ r.seen <= clock \div Tick /\ clock \in 0..MaxClock
    BY DEF TypeInv, Now
  <2>2. r.todo # <<>> /\ r.pc # "done"
    BY <2>1 DEF RequestOK
  <2>3. r.seen \in Nat
    BY <2>1 DEF RequestOK, Request
  <2> QED BY <2>1, <2>2, <2>3
<1> HIDE DEF r
<1>2. /\ k \in Key /\ Slot(r) = k /\ k[1] = Head(r.todo) /\ k[1] \in Bucket
      /\ k[3] = WindowNumber(k[1], r.seen)
  BY <1>1, KeyInKey
<1>3. LifeOf(k[1]) * k[3] <= clock /\ k[3] \in Nat
  BY <1>1, <1>2, Windows
<1>4. LifeOf(k[1]) \in Nat
  BY <1>2, Constants
<1>5. LifeOf(k[1]) * k[3] \in Nat /\ LifeOf(k[1]) * (k[3] + 1) = LifeOf(k[1]) * k[3] + LifeOf(k[1])
  BY <1>3, <1>4
<1> QED BY <1>1, <1>2, <1>3, <1>5 DEF r, End

-----------------------------------------------------------------------------
(* What the parts of an action do to the invariants *)

LEMMA RequestStep ==
  ASSUME TypeInv, clock' = clock, NEW t \in Thread, NEW r, RequestOK(r), r.seen <= Now,
         req' = [req EXCEPT ![t] = r]
  PROVE  /\ req' \in [Thread -> Request]
         /\ \A u \in Thread : RequestOK(req'[u]) /\ req'[u].seen <= Now'
<1>1. r \in Request
  BY DEF RequestOK
<1>2. Now' = Now
  BY DEF Now
<1> QED BY <1>1, <1>2 DEF TypeInv

(* An answer makes the thread's request a new one.                         *)
LEMMA AnswerStep ==
  ASSUME TypeInv, clock' = clock, NEW t \in Thread, NEW code \in Nat, NEW retry \in Nat,
         Answer(t, code, retry)
  PROVE  /\ req' \in [Thread -> Request]
         /\ \A u \in Thread : RequestOK(req'[u]) /\ req'[u].seen <= Now'
<1> DEFINE r == [Fresh EXCEPT !.code = code, !.retry = retry]
<1>1. RequestOK(r) /\ r.seen = 0
  BY AnswerOK
<1>2. req' = [req EXCEPT ![t] = r]
  BY DEF Answer
<1> HIDE DEF r
<1>3. r.seen <= Now
  BY <1>1, NowOK
<1> QED BY <1>1, <1>2, <1>3, RequestStep

LEMMA WindowFrame ==
  ASSUME WindowInv, UNCHANGED <<clock, counter, deadline, admitted>>
  PROVE  WindowInv'
  BY DEF WindowInv, End, LifeOf

(* A count, of a request that is admitted or not *)
LEMMA CountStep ==
  ASSUME TypeInv, WindowInv, clock' = clock, NEW k \in Key, CountOne(k),
         \/ admitted' = admitted
         \/ /\ admitted' = [admitted EXCEPT ![k] = @ + 1]
            /\ counter'[k] <= Limit[k[1]] /\ clock < End(k)
  PROVE  /\ counter' \in [Key -> Nat] /\ admitted' \in [Key -> Nat] /\ deadline' = deadline
         /\ WindowInv'
<1>1. /\ counter' = [counter EXCEPT ![k] = @ + 1] /\ deadline' = deadline
      /\ counter \in [Key -> Nat] /\ admitted \in [Key -> Nat]
  BY DEF CountOne, TypeInv
<1>2. counter' \in [Key -> Nat] /\ admitted' \in [Key -> Nat]
  BY <1>1
<1>3. ASSUME NEW j \in Key
      PROVE  /\ admitted'[j] <= Limit[j[1]]
             /\ clock < End(j) => admitted'[j] <= counter'[j]
             /\ deadline'[j] = NoExpiry \/ End(j) <= deadline'[j]
  <2>1. /\ admitted[j] <= Limit[j[1]]
        /\ clock < End(j) => admitted[j] <= counter[j]
        /\ deadline[j] = NoExpiry \/ End(j) <= deadline[j]
    BY DEF WindowInv
  <2>2. /\ counter[j] \in Nat /\ admitted[j] \in Nat
        /\ counter'[j] = IF j = k THEN counter[j] + 1 ELSE counter[j]
    BY <1>1
  <2>3. CASE admitted' = admitted
    BY <1>1, <2>1, <2>2, <2>3
  <2>4. CASE /\ admitted' = [admitted EXCEPT ![k] = @ + 1]
             /\ counter'[k] <= Limit[k[1]] /\ clock < End(k)
    <3>1. admitted'[j] = IF j = k THEN admitted[j] + 1 ELSE admitted[j]
      BY <1>1, <2>4
    <3>2. Limit[k[1]] \in Nat
      BY KeyParts, Constants
    <3> QED BY <1>1, <2>1, <2>2, <2>4, <3>1, <3>2
  <2> QED BY <2>3, <2>4
<1> QED BY <1>1, <1>2, <1>3 DEF WindowInv, End, LifeOf

(* An expiry: not before the end of the key's window *)
LEMMA ExpiryStep ==
  ASSUME TypeInv, WindowInv, clock' = clock, NEW k \in Key, SetExpiry(k),
         UNCHANGED <<counter, admitted>>,
         LifeOf(k[1]) * k[3] \in Nat, LifeOf(k[1]) * k[3] <= clock, k[1] \in Bucket,
         End(k) = LifeOf(k[1]) * k[3] + LifeOf(k[1])
  PROVE  deadline' \in [Key -> Nat] /\ WindowInv'
<1>1. LifeOf(k[1]) \in Nat /\ clock \in Nat
  BY Constants, NowOK
<1>2. End(k) <= clock + LifeOf(k[1]) /\ clock + LifeOf(k[1]) \in Nat
  BY <1>1
<1> DEFINE then == IF counter[k] > 0 THEN clock + LifeOf(k[1]) ELSE deadline[k]
<1>3. deadline' = [deadline EXCEPT ![k] = then] /\ deadline \in [Key -> Nat]
  BY DEF SetExpiry, TypeInv
<1>4. then \in Nat /\ (then = NoExpiry \/ End(k) <= then)
  BY <1>2, <1>3 DEF WindowInv
<1> HIDE DEF then
<1>5. ASSUME NEW j \in Key
      PROVE  /\ admitted'[j] <= Limit[j[1]]
             /\ clock < End(j) => admitted'[j] <= counter'[j]
             /\ deadline'[j] = NoExpiry \/ End(j) <= deadline'[j]
  BY <1>3, <1>4 DEF WindowInv
<1> QED BY <1>3, <1>4, <1>5 DEF WindowInv, End, LifeOf

-----------------------------------------------------------------------------
(* The invariants together *)
Inv == TypeInv /\ WindowInv /\ SuccessMeansLogin

(* What a step that leaves the limiter and the accounts alone preserves    *)
LEMMA ServeStep ==
  ASSUME Inv, UNCHANGED <<clock, counter, deadline, admitted, accounts>>,
         req' \in [Thread -> Request],
         \A u \in Thread : RequestOK(req'[u]) /\ req'[u].seen <= Now',
         tokens' \subseteq Token, arrivals' \in [Key -> Nat],
         made' \in 0..MaxRequest, faults' \in 0..MaxFault
  PROVE  Inv'
<1>1. WindowInv'
  BY WindowFrame DEF Inv
<1>2. TypeInv'
  BY DEF Inv, TypeInv, accounts
<1>3. SuccessMeansLogin'
  BY DEF Inv, SuccessMeansLogin, accounts
<1> QED BY <1>1, <1>2, <1>3 DEF Inv

LEMMA BeginStep == ASSUME Inv, NEW t \in Thread, Begin(t) PROVE Inv'
<1>1. PICK r : RequestOK(r) /\ r.seen = 0 /\ req' = [req EXCEPT ![t] = r]
  <2>1. CASE \E kind \in {"signup", "login"}, ip \in Ip, e \in Email, p \in Password :
               req' = [req EXCEPT ![t] = Posted(kind, ip, e, p)]
    BY <2>1, BeginOK
  <2>2. CASE \E token \in tokens : req' = [req EXCEPT ![t] = Asked(token)]
    BY <2>2, BeginOK DEF Inv, TypeInv
  <2> QED BY <2>1, <2>2 DEF Begin, Posted, Asked
<1>2. /\ clock' = clock /\ UNCHANGED <<counter, deadline, admitted, accounts>>
      /\ tokens' = tokens /\ arrivals' = arrivals /\ faults' = faults
      /\ made' = made + 1 /\ made < MaxRequest
  BY DEF Begin, limiter
<1>3. r.seen <= Now
  BY <1>1, NowOK DEF Inv
<1>4. /\ req' \in [Thread -> Request]
      /\ \A u \in Thread : RequestOK(req'[u]) /\ req'[u].seen <= Now'
  BY <1>1, <1>2, <1>3, RequestStep DEF Inv
<1>5. made' \in 0..MaxRequest
  BY <1>2, AccountsAssumption DEF Inv, TypeInv
<1>6. /\ tokens' \subseteq Token /\ arrivals' \in [Key -> Nat] /\ faults' \in 0..MaxFault
  BY <1>2 DEF Inv, TypeInv
<1> QED BY <1>2, <1>4, <1>5, <1>6, ServeStep

(* An answer, by a step that leaves the limiter and the accounts alone     *)
LEMMA AnsweredStep ==
  ASSUME Inv, NEW t \in Thread, NEW code \in Nat, NEW retry \in Nat, Answer(t, code, retry),
         UNCHANGED <<clock, limiter, accounts, made, faults>>, tokens' \subseteq Token
  PROVE  Inv'
<1>1. /\ req' \in [Thread -> Request]
      /\ \A u \in Thread : RequestOK(req'[u]) /\ req'[u].seen <= Now'
  BY AnswerStep DEF Inv
<1>2. /\ UNCHANGED <<clock, counter, deadline, admitted, accounts>>
      /\ arrivals' = arrivals /\ made' = made /\ faults' = faults
  BY DEF limiter
<1>3. arrivals' \in [Key -> Nat] /\ made' \in 0..MaxRequest /\ faults' \in 0..MaxFault
  BY <1>2 DEF Inv, TypeInv
<1> QED BY <1>1, <1>2, <1>3, ServeStep

(* A request goes on, by such a step                                       *)
LEMMA MovedStep ==
  ASSUME Inv, NEW t \in Thread, NEW r, RequestOK(r), r.seen <= Now,
         req' = [req EXCEPT ![t] = r], arrivals' \in [Key -> Nat],
         UNCHANGED <<clock, counter, deadline, admitted, accounts, tokens, made, faults>>
  PROVE  Inv'
<1>1. /\ req' \in [Thread -> Request]
      /\ \A u \in Thread : RequestOK(req'[u]) /\ req'[u].seen <= Now'
  BY RequestStep DEF Inv
<1>2. tokens' \subseteq Token /\ made' \in 0..MaxRequest /\ faults' \in 0..MaxFault
  BY DEF Inv, TypeInv
<1> QED BY <1>1, <1>2, ServeStep

LEMMA CheckTokenStep == ASSUME Inv, NEW t \in Thread, CheckToken(t) PROVE Inv'
<1>1. CASE Answer(t, 401, 0)
  <2>1. tokens' \subseteq Token
    BY DEF Inv, TypeInv, CheckToken
  <2> QED BY <1>1, <2>1, AnsweredStep DEF CheckToken
<1>2. CASE req' = [req EXCEPT ![t].pc = "key"]
  <2> DEFINE r == req[t]
             s == [r EXCEPT !.pc = "key"]
  <2>1. RequestOK(r) /\ r.pc = "token" /\ r.todo # <<>> /\ r.seen <= Now
    BY DEF Inv, TypeInv, CheckToken, RequestOK
  <2>2. RequestOK(s) /\ s.seen = r.seen
    BY <2>1, MoveOK DEF PC
  <2>3. req' = [req EXCEPT ![t] = s]
    BY <1>2 DEF Inv, TypeInv
  <2>4. /\ UNCHANGED <<clock, counter, deadline, admitted, accounts, tokens, made, faults>>
        /\ arrivals' \in [Key -> Nat]
    BY DEF CheckToken, limiter, Inv, TypeInv
  <2> HIDE DEF s
  <2> QED BY <2>1, <2>2, <2>3, <2>4, MovedStep
<1> QED BY <1>1, <1>2 DEF CheckToken

LEMMA ComputeKeyStep == ASSUME Inv, NEW t \in Thread, ComputeKey(t) PROVE Inv'
<1> DEFINE r == req[t]
           s == [r EXCEPT !.pc = "incr", !.seen = Now]
<1>1. RequestOK(r) /\ r.pc = "key" /\ r.todo # <<>>
  BY DEF Inv, TypeInv, ComputeKey, RequestOK
<1>2. Now \in Nat /\ clock \in 0..MaxClock /\ Now <= clock
  BY NowOK DEF Inv, TypeInv
<1>3. Now \in 0..MaxClock
  BY <1>2, AccountsAssumption
<1>4. RequestOK(s) /\ s.seen = Now
  BY <1>1, <1>3, MoveOK DEF PC, RequestOK, Request
<1>5. req' = [req EXCEPT ![t] = s]
  BY DEF ComputeKey
<1>6. arrivals' \in [Key -> Nat]
  <2> DEFINE x == Slot(s)
  <2>1. arrivals' = [arrivals EXCEPT ![x] = arrivals[x] + 1] /\ arrivals \in [Key -> Nat]
    BY DEF ComputeKey, Inv, TypeInv
  <2> HIDE DEF x
  <2>2. \A j \in Key : arrivals[j] \in Nat /\ arrivals[j] + 1 \in Nat
    BY <2>1
  <2>3. arrivals' = [j \in Key |-> IF j = x THEN arrivals[j] + 1 ELSE arrivals[j]]
    BY <2>1
  <2> QED BY <2>2, <2>3
<1>7. UNCHANGED <<clock, counter, deadline, admitted, accounts, tokens, made, faults>>
  BY DEF ComputeKey
<1>8. s.seen <= Now
  BY <1>2, <1>4
<1> HIDE DEF s
<1> QED BY <1>4, <1>5, <1>6, <1>7, <1>8, MovedStep

(* A count, of a request that is admitted only while its window lasts      *)
LEMMA IncrementStep == ASSUME Inv, NEW t \in Thread, Increment(t) PROVE Inv'
<1> DEFINE r == req[t]
           k == KeyOf(r)
<1>1. r.pc = "incr" /\ CountOne(k) /\ clock' = clock
  BY DEF Increment
<1>2. /\ RequestOK(r) /\ k \in Key /\ Slot(r) = k /\ k[1] = Head(r.todo)
      /\ k[1] \in Bucket
  BY <1>1, Counting DEF Inv
<1>3. r.seen <= Now /\ r.todo # <<>> /\ Now \in Nat /\ clock \in Nat
  BY <1>1, <1>2, NowOK DEF Inv, TypeInv, RequestOK
<1>4. ASSUME Slot(r) = Slot([r EXCEPT !.seen = Now]) PROVE clock < End(k)
  <2>1. Slot([r EXCEPT !.seen = Now])[3] = WindowNumber(k[1], Now)
    BY <1>2 DEF Slot, WindowNumber, RequestOK, Request
  <2>2. k[3] = WindowNumber(k[1], Now)
    BY <1>2, <1>4, <2>1
  <2>3. clock < LifeOf(k[1]) * (WindowNumber(k[1], Now) + 1)
    BY <1>2, <1>3, Windows DEF Now
  <2> QED BY <2>2, <2>3 DEF End
<1>5. \/ admitted' = admitted
      \/ /\ admitted' = [admitted EXCEPT ![k] = @ + 1]
         /\ counter'[k] <= Limit[k[1]] /\ clock < End(k)
  <2>1. CASE counter'[k] <= Limit[k[1]] /\ Slot(r) = Slot([r EXCEPT !.seen = Now])
    BY <2>1, <1>2, <1>4 DEF Increment
  <2>2. CASE ~(counter'[k] <= Limit[k[1]] /\ Slot(r) = Slot([r EXCEPT !.seen = Now]))
    <3>1. admitted' = [admitted EXCEPT ![k] = admitted[k]]
      BY <2>2, <1>2 DEF Increment
    <3> QED BY <3>1 DEF Inv, TypeInv
  <2> QED BY <2>1, <2>2
<1>6. /\ counter' \in [Key -> Nat] /\ admitted' \in [Key -> Nat] /\ deadline' = deadline
      /\ WindowInv'
  BY <1>1, <1>2, <1>5, CountStep DEF Inv
<1>7. PICK s : RequestOK(s) /\ s.seen = r.seen /\ req' = [req EXCEPT ![t] = s]
  <2>1. \A pc \in {"expire", "ttl"} :
          RequestOK([r EXCEPT !.pc = pc]) /\ [r EXCEPT !.pc = pc].seen = r.seen
    BY <1>1, <1>2, <1>3, MoveOK DEF PC
  <2>2. RequestOK(Past(r)) /\ Past(r).seen = r.seen
    BY <1>1, <1>2, PastOK
  <2>3. \/ req' = [req EXCEPT ![t] = [r EXCEPT !.pc = "expire"]]
        \/ req' = [req EXCEPT ![t] = [r EXCEPT !.pc = "ttl"]]
        \/ req' = [req EXCEPT ![t] = Past(r)]
    BY DEF Increment
  <2> QED BY <2>1, <2>2, <2>3
<1>8. /\ req' \in [Thread -> Request]
      /\ \A u \in Thread : RequestOK(req'[u]) /\ req'[u].seen <= Now'
  BY <1>1, <1>3, <1>7, RequestStep DEF Inv
<1>9. UNCHANGED <<clock, accounts, tokens, arrivals, made, faults>>
  BY DEF Increment
<1>10. TypeInv' /\ SuccessMeansLogin'
  BY <1>6, <1>8, <1>9 DEF Inv, TypeInv, SuccessMeansLogin, accounts
<1> QED BY <1>6, <1>10 DEF Inv

LEMMA ExpireStep == ASSUME Inv, NEW t \in Thread, Expire(t) PROVE Inv'
<1> DEFINE r == req[t]
           k == KeyOf(r)
<1>1. /\ r.pc = "expire" /\ SetExpiry(k) /\ clock' = clock /\ req' = [req EXCEPT ![t] = Past(r)]
      /\ UNCHANGED <<counter, accounts, tokens, arrivals, admitted, made, faults>>
  BY DEF Expire
<1>2. /\ RequestOK(r) /\ k \in Key /\ k[1] \in Bucket
      /\ LifeOf(k[1]) * k[3] <= clock
      /\ LifeOf(k[1]) * k[3] \in Nat
      /\ End(k) = LifeOf(k[1]) * k[3] + LifeOf(k[1])
  BY <1>1, Counting DEF Inv
<1>3. deadline' \in [Key -> Nat] /\ WindowInv'
  BY <1>1, <1>2, ExpiryStep DEF Inv
<1>4. RequestOK(Past(r)) /\ Past(r).seen = r.seen /\ r.seen <= Now
  BY <1>1, <1>2, PastOK DEF Inv, TypeInv
<1>5. /\ req' \in [Thread -> Request]
      /\ \A u \in Thread : RequestOK(req'[u]) /\ req'[u].seen <= Now'
  BY <1>1, <1>4, RequestStep DEF Inv
<1>6. TypeInv' /\ SuccessMeansLogin'
  BY <1>1, <1>3, <1>5 DEF Inv, TypeInv, SuccessMeansLogin, accounts
<1> QED BY <1>3, <1>6 DEF Inv

LEMMA RefuseStep == ASSUME Inv, NEW t \in Thread, Refuse(t) PROVE Inv'
<1> DEFINE k == KeyOf(req[t])
<1>1. k \in Key /\ k[1] \in Bucket
  BY Counting DEF Inv, Refuse
<1>2. deadline[k] \in Nat /\ clock \in Nat /\ Tick \in Nat \ {0} /\ Window[k[1]] \in Nat
  BY <1>1, NowOK, Constants DEF Inv, TypeInv
<1>3. TimeToLive(k) \in Int
  BY <1>2 DEF TimeToLive
<1>4. RetryAfter(k) \in Nat
  BY <1>2, <1>3 DEF RetryAfter
<1>5. Answer(t, 429, RetryAfter(k)) /\ UNCHANGED <<clock, limiter, accounts, tokens, made, faults>>
  BY DEF Refuse
<1>6. tokens' \subseteq Token
  BY <1>5 DEF Inv, TypeInv
<1> QED BY <1>4, <1>5, <1>6, AnsweredStep

LEMMA WorkStep == ASSUME Inv, NEW t \in Thread, Work(t) PROVE Inv'
<1> DEFINE r == req[t]
<1>1. RequestOK(r) /\ r.pc = "work" /\ r.seen <= Now /\ r.email \in Email
  BY DEF Work, Inv, TypeInv, RequestOK
<1>2. tokens \subseteq Token /\ UNCHANGED <<clock, limiter, accounts, made, faults>>
  BY DEF Work, Inv, TypeInv
<1>3. CASE r.kind = "signup" /\ req' = [req EXCEPT ![t].pc = "insert"] /\ UNCHANGED tokens
  <2> DEFINE s == [r EXCEPT !.pc = "insert"]
  <2>1. RequestOK(s) /\ s.seen = r.seen
    BY <1>1, <1>3, MoveOK DEF PC
  <2>2. req' = [req EXCEPT ![t] = s]
    BY <1>3 DEF Inv, TypeInv
  <2>3. /\ UNCHANGED <<clock, counter, deadline, admitted, accounts, tokens, made, faults>>
        /\ arrivals' \in [Key -> Nat]
    BY <1>2, <1>3 DEF limiter, Inv, TypeInv
  <2> HIDE DEF s
  <2> QED BY <1>1, <2>1, <2>2, <2>3, MovedStep
<1>4. CASE tokens' \subseteq Token /\ \E code \in {200, 400, 401} : Answer(t, code, 0)
  BY <1>2, <1>4, AnsweredStep
<1>5. [email |-> r.email, exp |-> Now + Lifetime] \in Token
  BY <1>1, NowOK, AccountsAssumption DEF Inv, Token
<1> QED BY <1>2, <1>3, <1>4, <1>5 DEF Work

(* A row is inserted only where there was none, so no promise is broken.   *)
LEMMA InsertStep == ASSUME Inv, NEW t \in Thread, Insert(t) PROVE Inv'
<1> DEFINE r == req[t]
<1>1. RequestOK(r) /\ r.pc = "insert" /\ r.email \in Email
  BY DEF Insert, Inv, TypeInv, RequestOK
<1>2. UNCHANGED <<clock, limiter, tokens, made, faults>> /\ tokens' \subseteq Token
  BY DEF Insert, Inv, TypeInv
<1>3. CASE Answer(t, 500, 0) /\ UNCHANGED accounts
  BY <1>2, <1>3, AnsweredStep
<1>4. CASE /\ Unique(r)
           /\ users' = [users EXCEPT ![r.email] = r.password]
           /\ promised' = promised \cup {<<r.email, r.password>>}
           /\ Answer(t, 200, 0)
  <2>1. /\ req' \in [Thread -> Request]
        /\ \A u \in Thread : RequestOK(req'[u]) /\ req'[u].seen <= Now'
    BY <1>2, <1>4, AnswerStep DEF Inv
  <2>2. r.password \in Password
    BY <1>1 DEF RequestOK
  <2>3. users' \in [Email -> Password \cup {None}] /\ promised' \subseteq Email \X Password
    BY <1>1, <1>4, <2>2 DEF Inv, TypeInv
  <2>4. SuccessMeansLogin'
    <3>1. \A p \in promised : p[1] # r.email
      BY <1>4, AccountsAssumption DEF Unique, Inv, SuccessMeansLogin, TypeInv
    <3>2. ASSUME NEW p \in promised' PROVE users'[p[1]] = p[2]
      BY <1>1, <1>4, <3>1, <3>2 DEF Inv, SuccessMeansLogin, TypeInv
    <3> QED BY <3>2 DEF SuccessMeansLogin
  <2>5. WindowInv'
    BY <1>2, WindowFrame DEF Inv, limiter
  <2>6. TypeInv'
    BY <1>2, <2>1, <2>3 DEF Inv, TypeInv, limiter
  <2> QED BY <2>4, <2>5, <2>6 DEF Inv
<1> QED BY <1>3, <1>4 DEF Insert

LEMMA UnavailableStep == ASSUME Inv, NEW t \in Thread, Unavailable(t) PROVE Inv'
<1> DEFINE k == KeyOf(req[t])
<1>1. /\ Answer(t, 503, 0) /\ faults < MaxFault /\ faults' = faults + 1
      /\ UNCHANGED <<clock, accounts, tokens, arrivals, admitted, made>>
  BY DEF Unavailable
<1>2. /\ req' \in [Thread -> Request]
      /\ \A u \in Thread : RequestOK(req'[u]) /\ req'[u].seen <= Now'
  BY <1>1, AnswerStep DEF Inv
<1>3. faults' \in 0..MaxFault
  BY <1>1, AccountsAssumption DEF Inv, TypeInv
<1>4. /\ k \in Key /\ k[1] \in Bucket
      /\ LifeOf(k[1]) * k[3] <= clock
      /\ LifeOf(k[1]) * k[3] \in Nat
      /\ End(k) = LifeOf(k[1]) * k[3] + LifeOf(k[1])
  BY Counting DEF Inv, Unavailable
<1>5. counter' \in [Key -> Nat] /\ deadline' \in [Key -> Nat] /\ WindowInv'
  <2>1. CASE UNCHANGED <<counter, deadline>>
    BY <1>1, <2>1, WindowFrame DEF Inv, TypeInv
  <2>2. CASE CountOne(k)
    BY <1>1, <1>4, <2>2, CountStep DEF Inv, TypeInv
  <2>3. CASE SetExpiry(k) /\ UNCHANGED counter
    BY <1>1, <1>4, <2>3, ExpiryStep DEF Inv, TypeInv
  <2> QED BY <2>1, <2>2, <2>3 DEF Unavailable
<1>6. TypeInv' /\ SuccessMeansLogin'
  BY <1>1, <1>2, <1>3, <1>5 DEF Inv, TypeInv, SuccessMeansLogin, accounts
<1> QED BY <1>5, <1>6 DEF Inv

LEMMA RestartStep == ASSUME Inv, Restart PROVE Inv'
<1>1. /\ req' = [t \in Thread |-> Fresh] /\ faults < MaxFault /\ faults' = faults + 1
      /\ UNCHANGED <<clock, limiter, accounts, tokens, made>>
  BY DEF Restart
<1>2. Now' \in Nat /\ 0 <= Now'
  BY <1>1, NowOK DEF Inv, Now
<1>3. /\ req' \in [Thread -> Request]
      /\ \A u \in Thread : RequestOK(req'[u]) /\ req'[u].seen <= Now'
  BY <1>1, <1>2, FreshOK DEF RequestOK
<1>4. faults' \in 0..MaxFault
  BY <1>1, AccountsAssumption DEF Inv, TypeInv
<1>5. /\ UNCHANGED <<clock, counter, deadline, admitted, accounts>> /\ tokens' \subseteq Token
      /\ arrivals' \in [Key -> Nat] /\ made' \in 0..MaxRequest
  BY <1>1 DEF Inv, TypeInv, limiter
<1> QED BY <1>3, <1>4, <1>5, ServeStep

(* Valkey forgets a counter only when the window it counts is over.        *)
LEMMA AdvanceStep == ASSUME Inv, Advance PROVE Inv'
<1>1. /\ clock < MaxClock /\ clock' = clock + 1
      /\ counter' = [k \in Key |-> IF deadline[k] \in 1..clock' THEN 0 ELSE counter[k]]
      /\ deadline' = [k \in Key |-> IF deadline[k] \in 1..clock' THEN NoExpiry ELSE deadline[k]]
      /\ UNCHANGED <<arrivals, admitted, accounts, tokens, req, made, faults>>
  BY DEF Advance
<1>2. clock \in Nat /\ MaxClock \in Nat /\ clock' \in 0..MaxClock
  BY <1>1, NowOK, AccountsAssumption DEF Inv
<1>3. counter' \in [Key -> Nat] /\ deadline' \in [Key -> Nat]
  BY <1>1 DEF Inv, TypeInv, NoExpiry
<1>4. Now' \in Nat /\ Now <= Now'
  <2>1. Tick \in Nat \ {0} /\ clock' \in Nat /\ clock <= clock'
    BY <1>1, <1>2, AccountsAssumption
  <2>2. clock' \div Tick \in Nat /\ clock \div Tick <= clock' \div Tick
    BY <2>1, <1>2, Division, DivisionMonotone
  <2> QED BY <2>2 DEF Now
<1>5. \A u \in Thread : RequestOK(req'[u]) /\ req'[u].seen <= Now'
  <2>1. ASSUME NEW u \in Thread PROVE RequestOK(req[u]) /\ req[u].seen <= Now'
    <3>1. RequestOK(req[u]) /\ req[u].seen <= Now /\ req[u].seen \in Nat /\ Now \in Nat
      <4>1. RequestOK(req[u]) /\ req[u].seen <= Now
        BY DEF Inv, TypeInv
      <4>2. req[u].seen \in Nat
        BY <4>1 DEF RequestOK, Request
      <4> QED BY <4>1, <4>2, NowOK DEF Inv
    <3> QED BY <3>1, <1>4
  <2> QED BY <2>1, <1>1
<1>6. WindowInv'
  <2>1. ASSUME NEW k \in Key
        PROVE  /\ admitted'[k] <= Limit[k[1]]
               /\ clock' < End(k) => admitted'[k] <= counter'[k]
               /\ deadline'[k] = NoExpiry \/ End(k) <= deadline'[k]
    <3>1. /\ admitted[k] <= Limit[k[1]]
          /\ clock < End(k) => admitted[k] <= counter[k]
          /\ deadline[k] = NoExpiry \/ End(k) <= deadline[k]
      BY DEF Inv, WindowInv
    <3>2. End(k) \in Nat /\ deadline[k] \in Nat
      BY KeyParts DEF Inv, TypeInv
    <3>3. CASE deadline[k] \in 1..clock'
      BY <1>1, <1>2, <3>1, <3>2, <3>3 DEF NoExpiry
    <3>4. CASE deadline[k] \notin 1..clock'
      BY <1>1, <1>2, <3>1, <3>2, <3>4
    <3> QED BY <3>3, <3>4
  <2> QED BY <2>1 DEF WindowInv, End, LifeOf
<1>7. TypeInv' /\ SuccessMeansLogin'
  BY <1>1, <1>2, <1>3, <1>5 DEF Inv, TypeInv, SuccessMeansLogin, accounts
<1> QED BY <1>6, <1>7 DEF Inv

-----------------------------------------------------------------------------
LEMMA Start == Init => Inv
<1> SUFFICES ASSUME Init PROVE Inv
  OBVIOUS
<1>1. Now \in Nat /\ 0 <= Now
  BY AccountsAssumption, Division DEF Init, Now
<1>2. \A t \in Thread : RequestOK(req[t]) /\ req[t].seen <= Now
  BY <1>1, FreshOK DEF Init
<1>3. req \in [Thread -> Request]
  BY FreshOK DEF Init, RequestOK
<1>4. TypeInv
  BY <1>2, <1>3, AccountsAssumption DEF Init, TypeInv, NoExpiry
<1>5. WindowInv
  <2>1. \A k \in Key : Limit[k[1]] \in Nat
    BY KeyParts, Constants
  <2> QED BY <2>1 DEF Init, WindowInv, NoExpiry
<1>6. SuccessMeansLogin
  BY DEF Init, SuccessMeansLogin
<1> QED BY <1>4, <1>5, <1>6 DEF Inv

LEMMA Step == Inv /\ [Next]_vars => Inv'
<1> SUFFICES ASSUME Inv, [Next]_vars PROVE Inv'
  OBVIOUS
<1>1. ASSUME NEW t \in Thread,
             \/ Begin(t) \/ CheckToken(t) \/ ComputeKey(t) \/ Increment(t)
             \/ Expire(t) \/ Refuse(t) \/ Work(t) \/ Insert(t) \/ Unavailable(t)
      PROVE  Inv'
  BY <1>1, BeginStep, CheckTokenStep, ComputeKeyStep, IncrementStep, ExpireStep, RefuseStep,
     WorkStep, InsertStep, UnavailableStep
<1>2. CASE Restart
  BY <1>2, RestartStep
<1>3. CASE Advance
  BY <1>3, AdvanceStep
<1>4. CASE UNCHANGED vars
  <2>1. /\ UNCHANGED <<clock, counter, deadline, admitted, accounts>>
        /\ req' = req /\ tokens' = tokens /\ arrivals' = arrivals
        /\ made' = made /\ faults' = faults
    BY <1>4 DEF vars, limiter
  <2>2. Now' = Now
    BY <2>1 DEF Now
  <2> QED BY <2>1, <2>2, ServeStep DEF Inv, TypeInv
<1> QED BY <1>1, <1>2, <1>3, <1>4 DEF Next

LEMMA Invariance == Spec => []Inv
<1> QED BY Start, Step, PTL DEF Spec

(* A request that is served has an address, an email and a password        *)
(* wherever the handler uses them, and a bucket whenever it is counted     *)
(* (rate_limit.py:34-62, auth.py:24-81).                                   *)
THEOREM AccountsTypeCorrect == Spec => []TypeOK
<1>1. Inv => TypeOK
  BY TypeInvTypeOK DEF Inv
<1> QED BY <1>1, Invariance, PTL

(* However many requests are counted at once, and wherever Valkey or the   *)
(* backend fails between INCR and EXPIRE, no window of a bucket lets more  *)
(* than its limit past (rate_limit.py:34-60).                              *)
THEOREM AdmittedInWindowHolds == Spec => []AdmittedInWindow
<1>1. Inv => AdmittedInWindow
  BY DEF Inv, WindowInv, AdmittedInWindow
<1> QED BY <1>1, Invariance, PTL

(* However many sign up with an email at once, whoever was answered that   *)
(* the registration succeeded can log in (auth.py:28-39).                  *)
THEOREM SuccessMeansLoginHolds == Spec => []SuccessMeansLogin
<1>1. Inv => SuccessMeansLogin
  BY DEF Inv
<1> QED BY <1>1, Invariance, PTL

-----------------------------------------------------------------------------
(* Arrivals and expiries.  RefusalJustified speaks of the requests that    *)
(* have arrived, so what is counted must have arrived: those that are past *)
(* the key and not counted yet make up the difference.                     *)
Waiting(k) == {t \in Thread : req[t].pc = "incr" /\ KeyOf(req[t]) = k}

ArrivedInv ==
  /\ \A k \in Key : /\ IsFiniteSet(Waiting(k))
                    /\ counter[k] + Cardinality(Waiting(k)) <= arrivals[k]
  /\ \A t \in Thread :
       req[t].pc = "ttl" => arrivals[KeyOf(req[t])] > Limit[KeyOf(req[t])[1]]

(* An expiry lies ahead, by a window at most.                              *)
DeadlineInv ==
  \A k \in Key :
    deadline[k] = NoExpiry \/ (clock < deadline[k] /\ deadline[k] <= clock + LifeOf(k[1]))

LEMMA WaitingMoves ==
  ASSUME TypeInv, NEW t \in Thread, NEW s, req' = [req EXCEPT ![t] = s], NEW k
  PROVE  Waiting(k)' = IF s.pc = "incr" /\ KeyOf(s) = k THEN Waiting(k) \cup {t}
                       ELSE Waiting(k) \ {t}
<1>1. \A u \in Thread : req'[u] = IF u = t THEN s ELSE req[u]
  BY DEF TypeInv
<1>2. Waiting(k)' = {u \in Thread : req'[u].pc = "incr" /\ KeyOf(req'[u]) = k}
  BY DEF Waiting, KeyOf, IdentifierOf, WindowNumber
<1> QED BY <1>1, <1>2 DEF Waiting

(* A step that computes no key: what it counts was waiting to be.          *)
LEMMA CountedStep ==
  ASSUME Inv, ArrivedInv, NEW t \in Thread, NEW s, req' = [req EXCEPT ![t] = s],
         s.pc # "incr", arrivals' = arrivals, counter' \in [Key -> Nat],
         \A k \in Key : counter'[k] <= IF t \in Waiting(k) THEN counter[k] + 1 ELSE counter[k],
         s.pc = "ttl" => arrivals[KeyOf(s)] > Limit[KeyOf(s)[1]]
  PROVE  ArrivedInv'
<1>1. ASSUME NEW k \in Key
      PROVE  IsFiniteSet(Waiting(k)') /\ counter'[k] + Cardinality(Waiting(k)') <= arrivals'[k]
  <2> DEFINE w == Waiting(k)
             n == Cardinality(w)
  <2>1. IsFiniteSet(w) /\ counter[k] + n <= arrivals[k]
    BY DEF ArrivedInv
  <2>2. Waiting(k)' = w \ {t}
    BY WaitingMoves DEF Inv
  <2>3. /\ IsFiniteSet(w \ {t})
        /\ Cardinality(w \ {t}) = IF t \in w THEN n - 1 ELSE n
    BY <2>1, FS_RemoveElement
  <2>4. n \in Nat /\ counter[k] \in Nat /\ arrivals[k] \in Nat /\ counter'[k] \in Nat
    BY <2>1, FS_CardinalityType DEF Inv, TypeInv
  <2>5. counter'[k] <= IF t \in w THEN counter[k] + 1 ELSE counter[k]
    OBVIOUS
  <2> HIDE DEF w, n
  <2> QED BY <2>1, <2>2, <2>3, <2>4, <2>5
<1>2. ASSUME NEW u \in Thread, req'[u].pc = "ttl"
      PROVE  arrivals'[KeyOf(req'[u])] > Limit[KeyOf(req'[u])[1]]
  <2>1. req'[u] = IF u = t THEN s ELSE req[u]
    BY DEF Inv, TypeInv
  <2> QED BY <1>2, <2>1 DEF ArrivedInv
<1> QED BY <1>1, <1>2 DEF ArrivedInv, KeyOf, IdentifierOf, WindowNumber

(* such a step that counts nothing                                         *)
LEMMA QuietStep ==
  ASSUME Inv, ArrivedInv, NEW t \in Thread, NEW s, req' = [req EXCEPT ![t] = s],
         s.pc \notin {"incr", "ttl"}, arrivals' = arrivals, counter' = counter
  PROVE  ArrivedInv'
<1>1. counter \in [Key -> Nat]
  BY DEF Inv, TypeInv
<1>2. \A k \in Key : counter'[k] <= IF t \in Waiting(k) THEN counter[k] + 1 ELSE counter[k]
  BY <1>1
<1> QED BY <1>1, <1>2, CountedStep

LEMMA AnsweredKeeps ==
  ASSUME Inv, ArrivedInv, NEW t \in Thread, NEW code, NEW retry, Answer(t, code, retry),
         arrivals' = arrivals, counter' = counter
  PROVE  ArrivedInv'
<1> DEFINE s == [Fresh EXCEPT !.code = code, !.retry = retry]
<1>1. req' = [req EXCEPT ![t] = s] /\ s.pc = "done"
  BY DEF Answer, Fresh
<1> HIDE DEF s
<1> QED BY <1>1, QuietStep

LEMMA ArrivedBegin == ASSUME Inv, ArrivedInv, NEW t \in Thread, Begin(t) PROVE ArrivedInv'
<1>1. arrivals' = arrivals /\ counter' = counter
  BY DEF Begin, limiter
<1>2. \A kind, ip, e, p : Posted(kind, ip, e, p).pc = "key"
  BY DEF Posted, Fresh
<1>3. \A token : Asked(token).pc = "token"
  BY DEF Asked, Fresh
<1>4. PICK s : req' = [req EXCEPT ![t] = s] /\ s.pc \in {"key", "token"}
  <2>1. CASE \E kind \in {"signup", "login"}, ip \in Ip, e \in Email, p \in Password :
               req' = [req EXCEPT ![t] = Posted(kind, ip, e, p)]
    <3>1. PICK kind \in {"signup", "login"}, ip \in Ip, e \in Email, p \in Password :
            req' = [req EXCEPT ![t] = Posted(kind, ip, e, p)]
      BY <2>1
    <3>2. Posted(kind, ip, e, p).pc = "key"
      BY <1>2
    <3> QED BY <3>1, <3>2
  <2>2. CASE \E token \in tokens : req' = [req EXCEPT ![t] = Asked(token)]
    BY <2>2, <1>3
  <2> QED BY <2>1, <2>2 DEF Begin, Posted, Asked
<1> QED BY <1>1, <1>4, QuietStep

LEMMA ArrivedCheckToken ==
  ASSUME Inv, ArrivedInv, NEW t \in Thread, CheckToken(t) PROVE ArrivedInv'
<1>1. arrivals' = arrivals /\ counter' = counter
  BY DEF CheckToken, limiter
<1>2. CASE Answer(t, 401, 0)
  BY <1>1, <1>2, AnsweredKeeps
<1>3. CASE req' = [req EXCEPT ![t].pc = "key"]
  <2> DEFINE s == [req[t] EXCEPT !.pc = "key"]
  <2>1. req' = [req EXCEPT ![t] = s] /\ s.pc = "key"
    BY <1>3 DEF Inv, TypeInv, Request
  <2> HIDE DEF s
  <2> QED BY <1>1, <2>1, QuietStep
<1> QED BY <1>2, <1>3 DEF CheckToken

(* What arrives waits to be counted, in the place it arrived at.           *)
LEMMA ArrivedComputeKey ==
  ASSUME Inv, ArrivedInv, NEW t \in Thread, ComputeKey(t) PROVE ArrivedInv'
<1> DEFINE r == req[t]
           s == [r EXCEPT !.pc = "incr", !.seen = Now]
           j == KeyOf(s)
<1>1. RequestOK(r) /\ r.pc = "key" /\ r.todo # <<>>
  BY DEF Inv, TypeInv, ComputeKey, RequestOK
<1>2. Now \in Nat /\ clock \in 0..MaxClock /\ Now <= clock /\ Now = clock \div Tick
  BY NowOK DEF Inv, TypeInv, Now
<1>3. Now \in 0..MaxClock
  BY <1>2, AccountsAssumption
<1>4. RequestOK(s) /\ s.seen = Now /\ s.pc = "incr" /\ s.todo = r.todo
  BY <1>1, <1>3, MoveOK DEF PC, RequestOK, Request
<1>5. /\ req' = [req EXCEPT ![t] = s] /\ counter' = counter
      /\ arrivals' = [arrivals EXCEPT ![Slot(s)] = @ + 1]
  BY DEF ComputeKey
<1> HIDE DEF s, r
<1>6. j \in Key /\ Slot(s) = j
  <2>1. s.todo # <<>> /\ s.seen <= clock \div Tick /\ s.pc # "done"
    BY <1>1, <1>2, <1>4
  <2> QED BY <1>2, <1>4, <2>1, KeyInKey
<1>7. \A k \in Key : arrivals[k] \in Nat /\ arrivals'[k] = IF k = j THEN arrivals[k] + 1 ELSE arrivals[k]
  BY <1>5, <1>6 DEF Inv, TypeInv
<1>8. r \in Request /\ req[t] = r /\ r.pc = "key"
  BY <1>1 DEF RequestOK, r
<1>9. ASSUME NEW k \in Key
      PROVE  IsFiniteSet(Waiting(k)') /\ counter'[k] + Cardinality(Waiting(k)') <= arrivals'[k]
  <2> DEFINE w == Waiting(k)
             n == Cardinality(w)
  <2>1. IsFiniteSet(w) /\ counter[k] + n <= arrivals[k]
    BY DEF ArrivedInv
  <2>2. t \notin w
    BY <1>8 DEF Waiting
  <2>3. Waiting(k)' = IF j = k THEN w \cup {t} ELSE w
    <3>1. Waiting(k)' = IF j = k THEN w \cup {t} ELSE w \ {t}
      BY <1>4, <1>5, WaitingMoves DEF Inv
    <3> QED BY <2>2, <3>1
  <2>4. IsFiniteSet(w \cup {t}) /\ Cardinality(w \cup {t}) = n + 1
    BY <2>1, <2>2, FS_AddElement
  <2>5. n \in Nat /\ counter[k] \in Nat
    BY <2>1, FS_CardinalityType DEF Inv, TypeInv
  <2> HIDE DEF w, j
  <2> QED BY <1>5, <1>7, <2>1, <2>3, <2>4, <2>5
<1>10. ASSUME NEW u \in Thread, req'[u].pc = "ttl"
       PROVE  arrivals'[KeyOf(req'[u])] > Limit[KeyOf(req'[u])[1]]
  <2>1. req'[u] = IF u = t THEN s ELSE req[u]
    BY <1>5 DEF Inv, TypeInv
  <2>2. req[u].pc = "ttl" /\ req'[u] = req[u]
    BY <1>4, <1>10, <2>1
  <2> DEFINE k == KeyOf(req[u])
  <2>3. arrivals[k] > Limit[k[1]]
    BY <2>2 DEF ArrivedInv
  <2>4. k \in Key /\ k[1] \in Bucket
    BY <2>2, Counting DEF Inv
  <2>5. Limit[k[1]] \in Nat
    BY <2>4, Constants
  <2> HIDE DEF k, j
  <2>6. arrivals'[k] > Limit[k[1]]
    BY <1>7, <2>3, <2>4, <2>5
  <2> QED BY <2>2, <2>6 DEF k
<1> QED BY <1>9, <1>10 DEF ArrivedInv, KeyOf, IdentifierOf, WindowNumber

(* Whoever is counted over the limit has waited among the arrivals.        *)
LEMMA ArrivedIncrement ==
  ASSUME Inv, ArrivedInv, NEW t \in Thread, Increment(t) PROVE ArrivedInv'
<1> DEFINE r == req[t]
           j == KeyOf(r)
<1>1. /\ r.pc = "incr" /\ counter' = [counter EXCEPT ![j] = @ + 1] /\ arrivals' = arrivals
      /\ req' = [req EXCEPT ![t] =
           IF counter'[j] = 1 THEN [r EXCEPT !.pc = "expire"]
           ELSE IF counter'[j] > Limit[j[1]] THEN [r EXCEPT !.pc = "ttl"] ELSE Past(r)]
  BY DEF Increment, CountOne
<1>2. RequestOK(r) /\ r \in Request /\ j \in Key /\ j[1] \in Bucket /\ Limit[j[1]] \in Nat
  <2>1. RequestOK(r) /\ j \in Key /\ j[1] \in Bucket
    BY <1>1, Counting DEF Inv
  <2> QED BY <2>1, Constants DEF RequestOK
<1>3. \A k \in Key : t \in Waiting(k) <=> k = j
  BY <1>1 DEF Waiting
<1>4. counter \in [Key -> Nat] /\ arrivals \in [Key -> Nat]
  BY DEF Inv, TypeInv
<1>5. Past(r).pc \in {"work", "key"}
  BY <1>1, <1>2, PastOK
<1>6. \A pc \in PC : [r EXCEPT !.pc = pc].pc = pc /\ KeyOf([r EXCEPT !.pc = pc]) = j
  BY <1>2 DEF Request, KeyOf, IdentifierOf, WindowNumber
<1>7. counter'[j] <= arrivals[j]
  <2> DEFINE w == Waiting(j)
             n == Cardinality(w)
  <2>1. IsFiniteSet(w) /\ counter[j] + n <= arrivals[j] /\ t \in w
    BY <1>2, <1>3 DEF ArrivedInv
  <2>2. n \in Nat /\ n # 0
    BY <2>1, FS_CardinalityType, FS_EmptySet
  <2>3. counter'[j] = counter[j] + 1 /\ counter[j] \in Nat /\ arrivals[j] \in Nat
    BY <1>1, <1>2, <1>4
  <2> HIDE DEF w, n, j
  <2> QED BY <2>1, <2>2, <2>3
<1> DEFINE s == IF counter'[j] = 1 THEN [r EXCEPT !.pc = "expire"]
                ELSE IF counter'[j] > Limit[j[1]] THEN [r EXCEPT !.pc = "ttl"] ELSE Past(r)
<1>8. s.pc # "incr"
  BY <1>5, <1>6 DEF PC
<1>9. s.pc = "ttl" => KeyOf(s) = j /\ counter'[j] > Limit[j[1]]
  BY <1>5, <1>6 DEF PC
<1>10. counter' \in [Key -> Nat]
  <2> HIDE DEF j
  <2> QED BY <1>1, <1>2, <1>4
<1>11. \A k \in Key : counter'[k] <= IF t \in Waiting(k) THEN counter[k] + 1 ELSE counter[k]
  <2> HIDE DEF j
  <2> QED BY <1>1, <1>2, <1>3, <1>4
<1>12. s.pc = "ttl" => arrivals[KeyOf(s)] > Limit[KeyOf(s)[1]]
  <2>1. counter'[j] \in Nat /\ arrivals[j] \in Nat
    BY <1>2, <1>4, <1>10
  <2> HIDE DEF s, j
  <2> QED BY <1>2, <1>7, <1>9, <2>1
<1>13. req' = [req EXCEPT ![t] = s]
  BY <1>1
<1> HIDE DEF s
<1> QED BY <1>1, <1>8, <1>10, <1>11, <1>12, <1>13, CountedStep

LEMMA ArrivedExpire == ASSUME Inv, ArrivedInv, NEW t \in Thread, Expire(t) PROVE ArrivedInv'
<1> DEFINE s == Past(req[t])
<1>1. req' = [req EXCEPT ![t] = s] /\ arrivals' = arrivals /\ counter' = counter
  BY DEF Expire
<1>2. s.pc \in {"work", "key"}
  <2>1. RequestOK(req[t]) /\ req[t].pc = "expire"
    BY DEF Inv, TypeInv, Expire
  <2> QED BY <2>1, PastOK
<1> HIDE DEF s
<1> QED BY <1>1, <1>2, QuietStep

LEMMA ArrivedWork == ASSUME Inv, ArrivedInv, NEW t \in Thread, Work(t) PROVE ArrivedInv'
<1>1. arrivals' = arrivals /\ counter' = counter
  BY DEF Work, limiter
<1>2. CASE \E code \in {200, 400, 401} : Answer(t, code, 0)
  BY <1>1, <1>2, AnsweredKeeps
<1>3. CASE req' = [req EXCEPT ![t].pc = "insert"]
  <2> DEFINE s == [req[t] EXCEPT !.pc = "insert"]
  <2>1. req' = [req EXCEPT ![t] = s] /\ s.pc = "insert"
    BY <1>3 DEF Inv, TypeInv, Request
  <2> HIDE DEF s
  <2> QED BY <1>1, <2>1, QuietStep
<1> QED BY <1>2, <1>3 DEF Work

(* A failure may have counted, and answers in any case.                    *)
LEMMA ArrivedUnavailable ==
  ASSUME Inv, ArrivedInv, NEW t \in Thread, Unavailable(t) PROVE ArrivedInv'
<1> DEFINE r == req[t]
           j == KeyOf(r)
           s == [Fresh EXCEPT !.code = 503, !.retry = 0]
<1>1. /\ req' = [req EXCEPT ![t] = s] /\ s.pc = "done" /\ arrivals' = arrivals
      /\ Answer(t, 503, 0)
  BY DEF Unavailable, Answer, Fresh
<1> HIDE DEF s
<1>2. CASE counter' = counter
  BY <1>1, <1>2, AnsweredKeeps
<1>3. CASE r.pc = "incr" /\ CountOne(j)
  <2>1. counter' = [counter EXCEPT ![j] = @ + 1] /\ counter \in [Key -> Nat]
    BY <1>3 DEF CountOne, Inv, TypeInv
  <2>2. t \in Waiting(j) /\ j \in Key
    BY <1>3, Counting DEF Waiting, Inv
  <2> HIDE DEF j
  <2>3. counter' \in [Key -> Nat]
    BY <2>1, <2>2
  <2>4. \A k \in Key : counter'[k] <= IF t \in Waiting(k) THEN counter[k] + 1 ELSE counter[k]
    BY <2>1, <2>2
  <2> QED BY <1>1, <2>3, <2>4, CountedStep
<1> QED BY <1>2, <1>3 DEF Unavailable

LEMMA ArrivedRestart == ASSUME Inv, ArrivedInv, Restart PROVE ArrivedInv'
<1>1. req' = [t \in Thread |-> Fresh] /\ arrivals' = arrivals /\ counter' = counter
  BY DEF Restart, limiter
<1>2. \A t \in Thread : req'[t].pc = "done"
  BY <1>1, FreshOK
<1>3. ASSUME NEW k \in Key
      PROVE  IsFiniteSet(Waiting(k)') /\ counter'[k] + Cardinality(Waiting(k)') <= arrivals'[k]
  <2>1. Waiting(k)' = {}
    BY <1>2 DEF Waiting
  <2>2. IsFiniteSet(Waiting(k)) /\ counter[k] + Cardinality(Waiting(k)) <= arrivals[k]
    BY DEF ArrivedInv
  <2>3. Cardinality(Waiting(k)) \in Nat /\ counter[k] \in Nat /\ arrivals[k] \in Nat
    BY <2>2, FS_CardinalityType DEF Inv, TypeInv
  <2> QED BY <1>1, <2>1, <2>2, <2>3, FS_EmptySet
<1> QED BY <1>2, <1>3 DEF ArrivedInv

LEMMA ArrivedAdvance == ASSUME Inv, ArrivedInv, Advance PROVE ArrivedInv'
<1>1. /\ req' = req /\ arrivals' = arrivals
      /\ counter' = [k \in Key |-> IF deadline[k] \in 1..clock' THEN 0 ELSE counter[k]]
  BY DEF Advance
<1>2. ASSUME NEW k \in Key
      PROVE  IsFiniteSet(Waiting(k)') /\ counter'[k] + Cardinality(Waiting(k)') <= arrivals'[k]
  <2>1. Waiting(k)' = Waiting(k)
    BY <1>1 DEF Waiting
  <2>2. IsFiniteSet(Waiting(k)) /\ counter[k] + Cardinality(Waiting(k)) <= arrivals[k]
    BY DEF ArrivedInv
  <2>3. Cardinality(Waiting(k)) \in Nat /\ counter[k] \in Nat /\ arrivals[k] \in Nat
    BY <2>2, FS_CardinalityType DEF Inv, TypeInv
  <2>4. counter'[k] \in {0, counter[k]}
    BY <1>1
  <2> QED BY <1>1, <2>1, <2>2, <2>3, <2>4
<1>3. \A t \in Thread : req'[t].pc = "ttl" => arrivals'[KeyOf(req'[t])] > Limit[KeyOf(req'[t])[1]]
  BY <1>1 DEF ArrivedInv
<1> QED BY <1>2, <1>3 DEF ArrivedInv, KeyOf, IdentifierOf, WindowNumber

LEMMA ArrivedStart == Init => ArrivedInv
<1> SUFFICES ASSUME Init PROVE ArrivedInv
  OBVIOUS
<1>1. \A t \in Thread : req[t].pc = "done"
  BY FreshOK DEF Init
<1>2. \A k \in Key : Waiting(k) = {} /\ counter[k] = 0 /\ arrivals[k] = 0
  BY <1>1 DEF Waiting, Init
<1> QED BY <1>1, <1>2, FS_EmptySet DEF ArrivedInv

LEMMA ArrivedStep == Inv /\ ArrivedInv /\ [Next]_vars => ArrivedInv'
<1> SUFFICES ASSUME Inv, ArrivedInv, [Next]_vars PROVE ArrivedInv'
  OBVIOUS
<1>1. ASSUME NEW t \in Thread,
             \/ Begin(t) \/ CheckToken(t) \/ ComputeKey(t) \/ Increment(t)
             \/ Expire(t) \/ Work(t) \/ Unavailable(t)
      PROVE  ArrivedInv'
  BY <1>1, ArrivedBegin, ArrivedCheckToken, ArrivedComputeKey, ArrivedIncrement, ArrivedExpire,
     ArrivedWork, ArrivedUnavailable
<1>2. ASSUME NEW t \in Thread, Refuse(t) PROVE ArrivedInv'
  <2>1. arrivals' = arrivals /\ counter' = counter
    BY <1>2 DEF Refuse, limiter
  <2> QED BY <1>2, <2>1, AnsweredKeeps DEF Refuse
<1>3. ASSUME NEW t \in Thread, Insert(t) PROVE ArrivedInv'
  <2>1. arrivals' = arrivals /\ counter' = counter
    BY <1>3 DEF Insert, limiter
  <2> QED BY <1>3, <2>1, AnsweredKeeps DEF Insert
<1>4. CASE UNCHANGED vars
  BY <1>4 DEF ArrivedInv, Waiting, KeyOf, IdentifierOf, WindowNumber, vars, limiter
<1> QED BY <1>1, <1>2, <1>3, <1>4, ArrivedRestart, ArrivedAdvance DEF Next

-----------------------------------------------------------------------------
LEMMA DeadlineFrame == ASSUME DeadlineInv, UNCHANGED <<clock, deadline>> PROVE DeadlineInv'
  BY DEF DeadlineInv, LifeOf

LEMMA DeadlineSet ==
  ASSUME Inv, DeadlineInv, clock' = clock, NEW k \in Key, k[1] \in Bucket, SetExpiry(k)
  PROVE  DeadlineInv'
<1>1. LifeOf(k[1]) \in Nat \ {0} /\ clock \in Nat
  BY Constants, NowOK DEF Inv
<1> DEFINE then == IF counter[k] > 0 THEN clock + LifeOf(k[1]) ELSE deadline[k]
<1>2. deadline' = [deadline EXCEPT ![k] = then] /\ deadline \in [Key -> Nat]
  BY DEF SetExpiry, Inv, TypeInv
<1>3. then = NoExpiry \/ (clock < then /\ then <= clock + LifeOf(k[1]))
  BY <1>1 DEF DeadlineInv
<1> HIDE DEF then
<1>4. \A j \in Key : deadline'[j] = IF j = k THEN then ELSE deadline[j]
  BY <1>2
<1> QED BY <1>3, <1>4 DEF DeadlineInv, LifeOf

LEMMA DeadlineAdvance == ASSUME Inv, DeadlineInv, Advance PROVE DeadlineInv'
<1>1. /\ clock' = clock + 1 /\ clock \in Nat
      /\ deadline' = [k \in Key |-> IF deadline[k] \in 1..clock' THEN NoExpiry ELSE deadline[k]]
  BY NowOK DEF Advance, Inv
<1>2. ASSUME NEW k \in Key
      PROVE  \/ deadline'[k] = NoExpiry
             \/ clock' < deadline'[k] /\ deadline'[k] <= clock' + LifeOf(k[1])
  <2>1. deadline[k] \in Nat /\ LifeOf(k[1]) \in Nat
    BY KeyParts, Constants DEF Inv, TypeInv
  <2>2. deadline[k] = NoExpiry \/ (clock < deadline[k] /\ deadline[k] <= clock + LifeOf(k[1]))
    BY DEF DeadlineInv
  <2>3. CASE deadline[k] \in 1..clock'
    BY <1>1, <2>3
  <2>4. CASE deadline[k] \notin 1..clock'
    BY <1>1, <2>1, <2>2, <2>4 DEF NoExpiry
  <2> QED BY <2>3, <2>4
<1> QED BY <1>2 DEF DeadlineInv, LifeOf

LEMMA DeadlineStep == Inv /\ DeadlineInv /\ [Next]_vars => DeadlineInv'
<1> SUFFICES ASSUME Inv, DeadlineInv, [Next]_vars PROVE DeadlineInv'
  OBVIOUS
<1>1. ASSUME NEW t \in Thread, \/ Expire(t)
                               \/ req[t].pc = "expire" /\ Unavailable(t) /\ SetExpiry(KeyOf(req[t]))
      PROVE  DeadlineInv'
  <2>1. req[t].pc = "expire" /\ SetExpiry(KeyOf(req[t])) /\ clock' = clock
    BY <1>1 DEF Expire, Unavailable
  <2>2. KeyOf(req[t]) \in Key /\ KeyOf(req[t])[1] \in Bucket
    BY <2>1, Counting DEF Inv
  <2> QED BY <2>1, <2>2, DeadlineSet
<1>2. ASSUME NEW t \in Thread, \/ Begin(t) \/ CheckToken(t) \/ ComputeKey(t) \/ Increment(t)
                               \/ Refuse(t) \/ Work(t) \/ Insert(t)
      PROVE  UNCHANGED <<clock, deadline>>
  BY <1>2 DEF Begin, CheckToken, ComputeKey, Increment, CountOne, Refuse, Work, Insert, limiter
<1>3. ASSUME NEW t \in Thread, Unavailable(t), ~(req[t].pc = "expire" /\ SetExpiry(KeyOf(req[t])))
      PROVE  UNCHANGED <<clock, deadline>>
  BY <1>3 DEF Unavailable, CountOne
<1>4. Restart \/ UNCHANGED vars => UNCHANGED <<clock, deadline>>
  BY DEF Restart, vars, limiter
<1> QED BY <1>1, <1>2, <1>3, <1>4, DeadlineFrame, DeadlineAdvance DEF Next

LEMMA DeadlineStart == Init => DeadlineInv
  BY DEF Init, DeadlineInv

LEMMA RefusalInvariance == Spec => [](ArrivedInv /\ DeadlineInv)
<1>1. Init => ArrivedInv /\ DeadlineInv
  BY ArrivedStart, DeadlineStart
<1>2. Inv /\ (ArrivedInv /\ DeadlineInv) /\ [Next]_vars => (ArrivedInv /\ DeadlineInv)'
  BY ArrivedStep, DeadlineStep
<1> QED BY <1>1, <1>2, Invariance, PTL DEF Spec

-----------------------------------------------------------------------------
(* Nobody but Refuse answers 429.                                          *)
LEMMA OnlyRefuse ==
  ASSUME Inv, [Next]_vars, NEW t \in Thread, Answered(t, 429)
  PROVE  /\ Refuse(t)
         /\ req'[t].retry = RetryAfter(KeyOf(req[t]))
<1>1. req[t].pc # "done" /\ req'[t].pc = "done" /\ req'[t].code = 429
  BY DEF Answered
<1>2. req'[t] # req[t]
  BY <1>1
<1>3. req \in [Thread -> Request]
  BY DEF Inv, TypeInv
<1>4. ASSUME NEW u \in Thread, NEW s, req' = [req EXCEPT ![u] = s]
      PROVE  u = t /\ req'[t] = s
  BY <1>2, <1>3, <1>4
<1>5. ASSUME NEW u \in Thread, NEW code \in Nat, NEW retry, Answer(u, code, retry)
      PROVE  u = t /\ code = 429 /\ req'[t].retry = retry
  <2> DEFINE s == [Fresh EXCEPT !.code = code, !.retry = retry]
  <2>1. req' = [req EXCEPT ![u] = s] /\ s.code = code /\ s.retry = retry
    BY <1>5 DEF Answer, Fresh
  <2> HIDE DEF s
  <2> QED BY <1>1, <1>4, <2>1
<1>6. ASSUME NEW u \in Thread, NEW s, req' = [req EXCEPT ![u] = s], s.pc # "done"
      PROVE  FALSE
  BY <1>1, <1>4, <1>6
<1>7. ASSUME NEW u \in Thread, NEW pc, req' = [req EXCEPT ![u].pc = pc], pc # "done"
      PROVE  FALSE
  <2> DEFINE s == [req[u] EXCEPT !.pc = pc]
  <2>1. req' = [req EXCEPT ![u] = s] /\ s.pc # "done"
    BY <1>3, <1>7 DEF Request
  <2> HIDE DEF s
  <2> QED BY <1>6, <2>1
<1>8. ASSUME NEW u \in Thread PROVE ~Begin(u)
  <2>1. SUFFICES ASSUME Begin(u) PROVE FALSE
    OBVIOUS
  <2>2. \A kind, ip, e, p : Posted(kind, ip, e, p).pc # "done"
    BY DEF Posted, Fresh
  <2>3. \A token : Asked(token).pc # "done"
    BY DEF Asked, Fresh
  <2>4. ASSUME NEW kind \in {"signup", "login"}, NEW ip \in Ip, NEW e \in Email,
               NEW p \in Password
        PROVE  req' # [req EXCEPT ![u] = Posted(kind, ip, e, p)]
    <3> DEFINE s == Posted(kind, ip, e, p)
    <3>1. s.pc # "done"
      BY <2>2
    <3>2. SUFFICES ASSUME req' = [req EXCEPT ![u] = s] PROVE FALSE
      OBVIOUS
    <3> HIDE DEF s
    <3> QED BY <1>6, <3>1, <3>2
  <2>5. ASSUME NEW token \in tokens PROVE req' # [req EXCEPT ![u] = Asked(token)]
    <3> DEFINE s == Asked(token)
    <3>1. s.pc # "done"
      BY <2>3
    <3>2. SUFFICES ASSUME req' = [req EXCEPT ![u] = s] PROVE FALSE
      OBVIOUS
    <3> HIDE DEF s
    <3> QED BY <1>6, <3>1, <3>2
  <2>6. ~\E kind \in {"signup", "login"}, ip \in Ip, e \in Email, p \in Password :
          req' = [req EXCEPT ![u] = Posted(kind, ip, e, p)]
    BY <2>4
  <2>7. ~\E token \in tokens : req' = [req EXCEPT ![u] = Asked(token)]
    BY <2>5
  <2> QED BY <2>1, <2>6, <2>7 DEF Begin, Posted, Asked
<1>9. ASSUME NEW u \in Thread PROVE ~CheckToken(u)
  BY <1>5, <1>7 DEF CheckToken
<1>10. ASSUME NEW u \in Thread PROVE ~ComputeKey(u)
  <2> DEFINE s == [req[u] EXCEPT !.pc = "incr", !.seen = Now]
  <2>1. s.pc # "done"
    BY <1>3 DEF Request
  <2>2. ComputeKey(u) => req' = [req EXCEPT ![u] = s]
    BY DEF ComputeKey
  <2> HIDE DEF s
  <2> QED BY <1>6, <2>1, <2>2
<1>11. ASSUME NEW u \in Thread PROVE ~Increment(u) /\ ~Expire(u)
  <2>1. req[u].pc \in {"incr", "expire"} => Past(req[u]).pc # "done"
    BY PastOK DEF Inv, TypeInv
  <2>2. \A pc \in {"expire", "ttl"} : [req[u] EXCEPT !.pc = pc].pc # "done"
    BY <1>3 DEF Request
  <2>3. ~Expire(u)
    BY <1>6, <2>1 DEF Expire
  <2>4. Increment(u) => \/ req' = [req EXCEPT ![u] = [req[u] EXCEPT !.pc = "expire"]]
                        \/ req' = [req EXCEPT ![u] = [req[u] EXCEPT !.pc = "ttl"]]
                        \/ req[u].pc = "incr" /\ req' = [req EXCEPT ![u] = Past(req[u])]
    BY DEF Increment
  <2>5. ~Increment(u)
    BY <1>6, <2>1, <2>2, <2>4
  <2> QED BY <2>3, <2>5
<1>12. ASSUME NEW u \in Thread PROVE ~Work(u)
  <2>1. Work(u) => \/ req' = [req EXCEPT ![u].pc = "insert"]
                   \/ \E code \in {200, 400, 401} : Answer(u, code, 0)
    BY DEF Work
  <2> QED BY <1>5, <1>7, <2>1
<1>13. ASSUME NEW u \in Thread PROVE ~Insert(u) /\ ~Unavailable(u)
  BY <1>5 DEF Insert, Unavailable
<1>14. ~Restart
  <2>1. Fresh.code = 0
    BY DEF Fresh
  <2> QED BY <1>1, <2>1 DEF Restart
<1>15. ~Advance /\ ~UNCHANGED vars
  BY <1>2 DEF Advance, vars
<1>16. PICK u \in Thread : Refuse(u)
  BY <1>8, <1>9, <1>10, <1>11, <1>12, <1>13, <1>14, <1>15 DEF Next
<1>17. u = t /\ req'[t].retry = RetryAfter(KeyOf(req[u]))
  BY <1>5, <1>16 DEF Refuse
<1> QED BY <1>16, <1>17

(* What TTL says: the nearest second                                       *)
LEMMA Nearest ==
  ASSUME NEW d \in Nat, NEW n \in Nat \ {0}, NEW w \in Nat, d <= n * w
  PROVE  LET s == (2 * d + n) \div (2 * n)
         IN  s \in Nat /\ s <= w /\ 2 * (d - n * s) < n
<1> DEFINE m == 2 * n
           a == 2 * d + n
           s == a \div m
<1>1. m \in Nat \ {0} /\ a \in Nat
  OBVIOUS
<1>2. s \in Nat /\ m * s <= a /\ a < m * s + m
  BY <1>1, Division
<1>3. m * s = 2 * (n * s) /\ n * s \in Nat /\ n * w \in Nat
  <2> HIDE DEF s
  <2> QED BY <1>2
<1> HIDE DEF s
<1>4. 2 * (d - n * s) < n
  BY <1>2, <1>3
<1>5. s <= w
  <2>1. SUFFICES ASSUME w + 1 <= s PROVE FALSE
    BY <1>2
  <2>2. n * (w + 1) <= n * s
    BY <2>1, <1>2, Monotone
  <2>3. n * (w + 1) = n * w + n
    OBVIOUS
  <2> QED BY <2>2, <2>3, <1>2, <1>3
<1> QED BY <1>2, <1>4, <1>5 DEF s

(* What a refusal tells *)
LEMMA Told ==
  ASSUME Inv, DeadlineInv, NEW t \in Thread, req[t].pc = "ttl"
  PROVE  LET k == KeyOf(req[t])
         IN  /\ 2 * (End(k) - clock - Tick * RetryAfter(k)) < Tick
             /\ RetryAfter(k) \in 1..Window[k[1]]
<1> DEFINE k == KeyOf(req[t])
           b == k[1]
           w == Window[b]
           d == deadline[k]
           ttl == TimeToLive(k)
<1>1. /\ k \in Key /\ b \in Bucket /\ LifeOf(b) * k[3] <= clock /\ LifeOf(b) * k[3] \in Nat
      /\ End(k) = LifeOf(b) * k[3] + LifeOf(b)
  BY Counting DEF Inv
<1>2. Tick \in Nat \ {0} /\ w \in Nat \ {0} /\ LifeOf(b) = Tick * w /\ Tick * w \in Nat
  BY <1>1, Constants DEF LifeOf
<1>3. clock \in Nat /\ d \in Nat /\ End(k) \in Nat
  BY <1>1, NowOK, KeyParts DEF Inv, TypeInv
<1>4. End(k) - clock <= Tick * w
  <2> HIDE DEF k, b, w
  <2> QED BY <1>1, <1>2, <1>3
<1> DEFINE Good == 2 * (End(k) - clock - Tick * RetryAfter(k)) < Tick /\ RetryAfter(k) \in 1..w
<1>5. ASSUME RetryAfter(k) = w PROVE Good
  <2> HIDE DEF k, b, w
  <2> QED BY <1>2, <1>3, <1>4, <1>5
<1>6. ASSUME d = NoExpiry PROVE Good
  <2>1. RetryAfter(k) = w
    BY <1>6 DEF TimeToLive, RetryAfter
  <2> HIDE DEF Good
  <2> QED BY <2>1, <1>5
<1>7. ASSUME d # NoExpiry PROVE Good
  <2>1. clock < d /\ d <= clock + Tick * w /\ End(k) <= d
    BY <1>1, <1>2, <1>7 DEF DeadlineInv, Inv, WindowInv
  <2> DEFINE e == d - clock
  <2>2. e \in Nat /\ e <= Tick * w /\ End(k) - clock <= e
    <3> HIDE DEF k, b, w, d
    <3> QED BY <2>1, <1>2, <1>3
  <2>3. ttl = (2 * e + Tick) \div (2 * Tick)
    BY <1>7 DEF TimeToLive
  <2> HIDE DEF e
  <2>4. ttl \in Nat /\ ttl <= w /\ 2 * (e - Tick * ttl) < Tick
    <3> HIDE DEF ttl, w
    <3> QED BY <1>2, <2>2, <2>3, Nearest
  <2>5. RetryAfter(k) = IF ttl > 0 THEN ttl ELSE w
    BY DEF RetryAfter
  <2>6. CASE ttl > 0
    <3>1. RetryAfter(k) = ttl
      BY <2>5, <2>6
    <3> DEFINE a == Tick * ttl
    <3>2. a \in Nat /\ ttl \in 1..w
      <4> HIDE DEF ttl, w
      <4> QED BY <2>4, <2>6, <1>2
    <3>3. 2 * (e - a) < Tick /\ Tick * RetryAfter(k) = a
      BY <2>4, <3>1
    <3> HIDE DEF k, b, w, d, ttl, a
    <3> QED BY <3>1, <3>2, <3>3, <2>2, <1>2, <1>3
  <2>7. CASE ~(ttl > 0)
    <3>1. RetryAfter(k) = w
      BY <2>5, <2>7
    <3> HIDE DEF Good
    <3> QED BY <3>1, <1>5
  <2> QED BY <2>6, <2>7
<1> QED BY <1>6, <1>7

(* Nobody is locked out: whoever is refused, more than the limit arrived   *)
(* in the window the refusal is for (rate_limit.py:52-55).                 *)
THEOREM RefusalJustifiedHolds == Spec => RefusalJustified
<1>1. ASSUME Inv, ArrivedInv, [Next]_vars, NEW t \in Thread, Answered(t, 429)
      PROVE  arrivals[Slot(req[t])] > Limit[Head(req[t].todo)]
  <2>1. req[t].pc = "ttl"
    BY <1>1, OnlyRefuse DEF Refuse
  <2>2. Slot(req[t]) = KeyOf(req[t]) /\ KeyOf(req[t])[1] = Head(req[t].todo)
    BY <1>1, <2>1, Counting DEF Inv
  <2> QED BY <1>1, <2>1, <2>2 DEF ArrivedInv
<1>2. Inv /\ ArrivedInv /\ [Next]_vars =>
        [\A t \in Thread : Answered(t, 429) =>
           arrivals[Slot(req[t])] > Limit[Head(req[t].todo)]]_vars
  BY <1>1
<1> QED BY <1>2, Invariance, RefusalInvariance, PTL DEF Spec, RefusalJustified

(* Retry-After names a second of the window or the first half second of    *)
(* rounding after it, and never more than a window (rate_limit.py:56-62).  *)
THEOREM RetryAfterHonestHolds == Spec => RetryAfterHonest
<1> DEFINE Honest(t) ==
      Answered(t, 429) =>
        LET b == Head(req[t].todo)
            end == Tick * Window[b] * (Slot(req[t])[3] + 1)
        IN  /\ 2 * (end - clock - Tick * req'[t].retry) < Tick
            /\ req'[t].retry \in 1..Window[b]
<1>1. ASSUME Inv, DeadlineInv, [Next]_vars, NEW t \in Thread PROVE Honest(t)
  <2>1. SUFFICES ASSUME Answered(t, 429)
                 PROVE  LET b == Head(req[t].todo)
                            end == Tick * Window[b] * (Slot(req[t])[3] + 1)
                        IN  /\ 2 * (end - clock - Tick * req'[t].retry) < Tick
                            /\ req'[t].retry \in 1..Window[b]
    OBVIOUS
  <2> DEFINE k == KeyOf(req[t])
  <2>2. req[t].pc = "ttl" /\ req'[t].retry = RetryAfter(k)
    BY <1>1, <2>1, OnlyRefuse DEF Refuse
  <2>3. Slot(req[t]) = k /\ k[1] = Head(req[t].todo)
    BY <1>1, <2>2, Counting DEF Inv
  <2>4. End(k) = Tick * Window[Head(req[t].todo)] * (Slot(req[t])[3] + 1)
    BY <2>3 DEF End, LifeOf
  <2>5. /\ 2 * (End(k) - clock - Tick * RetryAfter(k)) < Tick
        /\ RetryAfter(k) \in 1..Window[k[1]]
    BY <1>1, <2>2, Told
  <2> HIDE DEF k
  <2> QED BY <2>2, <2>3, <2>4, <2>5
<1>2. Inv /\ DeadlineInv /\ [Next]_vars => [\A t \in Thread : Honest(t)]_vars
  BY <1>1
<1> QED BY <1>2, Invariance, RefusalInvariance, PTL DEF Spec, RetryAfterHonest
=============================================================================
