------------------------- MODULE ExecutionForm_proofs -------------------------
(***************************************************************************)
(* Proofs about Dispatch and ExecutionForm, for any devices, entries,      *)
(* lists, calls and changes of others.                                     *)
(*                                                                         *)
(* Why the device chosen is the least loaded: slack bounds how far the     *)
(* load that was read of a device is from what it has now, and how much    *)
(* farther for one device than for another, since what others do to an     *)
(* entry changes the load of one device.                                   *)
(*                                                                         *)
(* Why what is shown never goes back: it is a past status of the entry,    *)
(* and so is every answer under way; as long as the calls keep their       *)
(* order, only the oldest has an answer, which is no older than what is    *)
(* shown.                                                                  *)
(***************************************************************************)
EXTENDS ExecutionForm, FiniteSetTheorems, TLAPS

(* Entries and their devices *)
LogTypes ==
  /\ log \in [Entry -> Log!LogValue]
  /\ owner \in [Entry -> Device \cup {None}]
  /\ \A e \in Entry : e \in Queued <=> owner[e] # None

(* the submission, and what it has read *)
RequestInv ==
  /\ request = [pc |-> request.pc, device |-> request.device, todo |-> request.todo,
                loads |-> request.loads, entry |-> request.entry]
  /\ request.pc \in {"idle", "list", "queues", "execute", "queued", "failed"}
  /\ request.device \in Device \cup {None} /\ request.todo \subseteq Device
  /\ request.loads = <<>> \/ request.loads \in [DOMAIN request.loads -> 0..Limit]
  /\ request.entry \in Queued \cup {None}
  /\ request.pc = "queued" => request.entry \in Queued

(* how much more a device has to do than was read of it                    *)
Load(d) == Cardinality(ActiveOf(d))
Gap(d) == Load(d) - request.loads[d]

SlackInv ==
  /\ slack \in Nat
  /\ \A x \in DOMAIN request.loads :
       /\ -slack <= Gap(x) /\ Gap(x) <= slack
       /\ \A y \in DOMAIN request.loads : Gap(x) - Gap(y) <= slack

StatusTypes ==
  /\ status \in [Device -> {"online", "busy", "offline", "deleted"}]
  /\ changes \in 0..MaxStatus

ServerInv == LogTypes /\ StatusTypes /\ RequestInv /\ SlackInv

LEMMA NoLoads == DOMAIN <<>> = {}
  OBVIOUS

LEMMA Finite ==
  /\ IsFiniteSet(Entry) /\ Entry \subseteq Nat
  /\ \A d : IsFiniteSet(ActiveOf(d)) /\ Load(d) \in Nat
  /\ \A e : IsFiniteSet(Newer(e))
<1>1. IsFiniteSet(Entry) /\ Entry \subseteq Nat
  BY DispatchAssumption, FS_Interval DEF Entry
<1>2. ASSUME NEW d PROVE IsFiniteSet(ActiveOf(d)) /\ Load(d) \in Nat
  <2>1. ActiveOf(d) \in SUBSET Entry
    BY DEF ActiveOf, Queued
  <2> QED BY <1>1, <2>1, FS_Subset, FS_CardinalityType DEF Load
<1>3. ASSUME NEW e PROVE IsFiniteSet(Newer(e))
  <2>1. Newer(e) \in SUBSET Entry
    BY DEF Newer, Queued
  <2> QED BY <1>1, <2>1, FS_Subset
<1> QED BY <1>1, <1>2, <1>3

(* A list of the newest entries of a device shows no more than it has      *)
(* places for: entries of one device differ in how many are newer.         *)
LEMMA ListFits == \A d : ActiveCount(d) \in 0..Limit
<1> SUFFICES ASSUME NEW d PROVE ActiveCount(d) \in 0..Limit
  OBVIOUS
<1> DEFINE s == ListedActive(d)
           places == 0..(Limit - 1)
           f == [e \in s |-> Cardinality(Newer(e))]
<1>1. s \in SUBSET ActiveOf(d) /\ \A e \in s : e \in Queued /\ e \in Nat /\ owner[e] = d
  BY Finite DEF ListedActive, ActiveOf, Queued
<1>2. IsFiniteSet(s) /\ Cardinality(s) \in Nat
  BY <1>1, Finite, FS_Subset, FS_CardinalityType
<1>3. Limit \in Nat
  BY DispatchAssumption
<1>4. IsFiniteSet(places) /\ Cardinality(places) = Limit
  BY <1>3, FS_Interval
<1>5. f \in [s -> places]
  <2>1. ASSUME NEW e \in s PROVE Cardinality(Newer(e)) \in places
    <3>1. Cardinality(Newer(e)) < Limit
      BY DEF ListedActive
    <3>2. Cardinality(Newer(e)) \in Nat
      BY Finite, FS_CardinalityType
    <3> QED BY <1>3, <3>1, <3>2
  <2> QED BY <2>1
<1>6. ASSUME NEW a \in s, NEW b \in s, a < b PROVE f[a] # f[b]
  <2>1. Newer(b) \in SUBSET Newer(a) /\ b \in Newer(a) /\ b \notin Newer(b)
    <3>1. a \in Queued /\ b \in Queued /\ owner[a] = d /\ owner[b] = d /\ a \in Nat /\ b \in Nat
      BY <1>1
    <3>2. b \in Newer(a)
      BY <1>6, <3>1 DEF Newer
    <3>3. b \notin Newer(b)
      BY <3>1 DEF Newer
    <3>4. ASSUME NEW c \in Newer(b) PROVE c \in Newer(a)
      <4>1. c \in Queued /\ owner[c] = owner[b] /\ c > b /\ c \in Nat
        BY Finite DEF Newer, Queued
      <4> QED BY <1>6, <3>1, <4>1 DEF Newer
    <3> QED BY <3>2, <3>3, <3>4
  <2>2. Newer(b) # Newer(a)
    BY <2>1
  <2>3. Cardinality(Newer(b)) # Cardinality(Newer(a))
    BY <2>1, <2>2, Finite, FS_Subset
  <2> QED BY <2>3
<1>7. \A a, b \in s : a # b => f[a] # f[b]
  <2> HIDE DEF s, f
  <2> QED BY <1>1, <1>6
<1>8. ~(Cardinality(places) < Cardinality(s))
  <2> HIDE DEF s, f, places
  <2> QED BY <1>2, <1>4, <1>5, <1>7, FS_PigeonHole
<1>9. Cardinality(s) <= Limit
  <2> HIDE DEF s, places
  <2> QED BY <1>2, <1>3, <1>4, <1>8
<1> QED BY <1>2, <1>3, <1>9 DEF ActiveCount

LEMMA Unlisted ==
  \A d : /\ IsFiniteSet(ActiveOf(d) \ ListedActive(d))
         /\ Cardinality(ActiveOf(d) \ ListedActive(d)) \in Nat
         /\ Cardinality(ActiveOf(d) \ ListedActive(d)) = Load(d) - ActiveCount(d)
<1> SUFFICES ASSUME NEW d
             PROVE  /\ IsFiniteSet(ActiveOf(d) \ ListedActive(d))
                    /\ Cardinality(ActiveOf(d) \ ListedActive(d)) \in Nat
                    /\ Cardinality(ActiveOf(d) \ ListedActive(d)) = Load(d) - ActiveCount(d)
  OBVIOUS
<1>1. ActiveOf(d) \cap ListedActive(d) = ListedActive(d)
  BY DEF ListedActive
<1> QED BY <1>1, Finite, FS_Difference, FS_CardinalityType DEF Load, ActiveCount

(* What a change of one entry does to the loads *)
LEMMA OneEntry ==
  ASSUME LogTypes, NEW e \in Entry, NEW v, log' = [log EXCEPT ![e] = v],
         owner' = owner \/ (e \notin Queued /\ \E d : owner' = [owner EXCEPT ![e] = d])
  PROVE  \E o : \A x : /\ x # o => Load(x)' = Load(x)
                       /\ Load(x)' \in {Load(x) - 1, Load(x), Load(x) + 1}
<1> DEFINE o == owner'[e]
<1>1. ASSUME NEW x
      PROVE  /\ x # o => ActiveOf(x)' = ActiveOf(x)
             /\ ActiveOf(x)' \in {ActiveOf(x), ActiveOf(x) \cup {e}, ActiveOf(x) \ {e}}
  <2>1. \A f \in Entry : f # e => log'[f] = log[f] /\ owner'[f] = owner[f]
    BY DEF LogTypes
  <2>2. \A f \in Entry : f # e => (f \in ActiveOf(x)' <=> f \in ActiveOf(x))
    BY <2>1 DEF ActiveOf, Queued
  <2>3. ActiveOf(x)' \subseteq Entry /\ ActiveOf(x) \subseteq Entry
    BY DEF ActiveOf, Queued
  <2>4. ASSUME x # o PROVE e \notin ActiveOf(x)' /\ e \notin ActiveOf(x)
    BY <2>4 DEF ActiveOf, Queued
  <2>5. x # o => ActiveOf(x)' = ActiveOf(x)
    BY <2>2, <2>3, <2>4
  <2>6. CASE e \in ActiveOf(x)'
    <3>1. ActiveOf(x)' = ActiveOf(x) \cup {e}
      BY <2>2, <2>3, <2>6
    <3> QED BY <2>5, <3>1
  <2>7. CASE e \notin ActiveOf(x)'
    <3>1. ActiveOf(x)' = ActiveOf(x) \ {e}
      BY <2>2, <2>3, <2>7
    <3> QED BY <2>5, <3>1
  <2> QED BY <2>6, <2>7
<1>2. ASSUME NEW x
      PROVE  /\ x # o => Load(x)' = Load(x)
             /\ Load(x)' \in {Load(x) - 1, Load(x), Load(x) + 1}
  <2> DEFINE a == ActiveOf(x)
             b == ActiveOf(x)'
  <2>1. IsFiniteSet(a) /\ Load(x) = Cardinality(a) /\ Load(x)' = Cardinality(b)
        /\ Load(x) \in Nat
    BY Finite DEF Load
  <2>2. (x # o => b = a) /\ b \in {a, a \cup {e}, a \ {e}}
    BY <1>1
  <2> HIDE DEF a, b
  <2>3. x # o => Load(x)' = Load(x)
    BY <2>1, <2>2
  <2>4. Cardinality(a \cup {e}) \in {Load(x), Load(x) + 1}
    BY <2>1, FS_AddElement
  <2>5. Cardinality(a \ {e}) \in {Load(x), Load(x) - 1}
    BY <2>1, FS_RemoveElement
  <2> QED BY <2>1, <2>2, <2>3, <2>4, <2>5
<1> HIDE DEF o
<1> QED BY <1>2
-----------------------------------------------------------------------------
(* Steps of the log.  What is forgotten of a status: only that it was      *)
(* earlier.                                                                *)
Grows == \A e \in Entry : Reachable(log[e], log'[e])

LEMMA Reaching ==
  /\ \A a : Reachable(a, a) /\ Reachable("absent", a)
  /\ \A a : Reachable(a, "absent") => a = "absent"
  /\ \A a, b, c : Reachable(a, b) /\ Reachable(b, c) => Reachable(a, c)
  BY DEF Reachable

LEMMA QueuedStay ==
  ASSUME Grows
  PROVE  Queued \subseteq Queued'
  BY Reaching DEF Grows, Queued

LEMMA LogMoves ==
  ASSUME LogTypes, NEW e \in Entry, NEW from, NEW to, Log!Move(e, from, to),
         \/ from = "queued" /\ to \in {"running", "cancelled"} /\ owner' = owner
         \/ from = "running" /\ to \in {"done", "error"} /\ owner' = owner
         \/ from = "absent" /\ to = "queued" /\ \E d \in Device : owner' = [owner EXCEPT ![e] = d]
  PROVE  /\ LogTypes' /\ Grows
         /\ \E o : \A x : /\ x # o => Load(x)' = Load(x)
                          /\ Load(x)' \in {Load(x) - 1, Load(x), Load(x) + 1}
<1>1. log[e] = from /\ log' = [log EXCEPT ![e] = to] /\ to # "absent"
  BY DEF Log!Move
<1>2. to \in Log!LogValue
  BY DEF Log!LogValue, Log!Final
<1>3. log' \in [Entry -> Log!LogValue]
  BY <1>1, <1>2 DEF LogTypes
<1>4. Grows
  BY <1>1 DEF Grows, Reachable, LogTypes
<1>5. owner' \in [Entry -> Device \cup {None}]
  BY DEF LogTypes
<1>6. ASSUME NEW f \in Entry PROVE f \in Queued' <=> owner'[f] # None
  <2>1. CASE f = e
    <3>1. f \in Queued'
      BY <1>1, <2>1 DEF Queued, LogTypes
    <3>2. owner'[f] # None
      <4>1. CASE from # "absent" /\ owner' = owner
        BY <1>1, <2>1, <4>1 DEF Queued, LogTypes
      <4>2. CASE \E d \in Device : owner' = [owner EXCEPT ![e] = d]
        BY <2>1, <4>2, DispatchAssumption DEF LogTypes
      <4> QED BY <4>1, <4>2
    <3> QED BY <3>1, <3>2
  <2>2. CASE f # e
    <3>1. log'[f] = log[f] /\ owner'[f] = owner[f]
      BY <1>1, <2>2 DEF LogTypes
    <3> QED BY <3>1 DEF LogTypes, Queued
  <2> QED BY <2>1, <2>2
<1>7. owner' = owner \/ (e \notin Queued /\ \E d : owner' = [owner EXCEPT ![e] = d])
  BY <1>1 DEF Queued
<1> QED BY <1>1, <1>3, <1>4, <1>5, <1>6, <1>7, OneEntry DEF LogTypes

LEMMA Enqueued ==
  ASSUME LogTypes, NEW d \in Device, Enqueue(d)
  PROVE  /\ LogTypes' /\ Grows
         /\ \E o : \A x : /\ x # o => Load(x)' = Load(x)
                          /\ Load(x)' \in {Load(x) - 1, Load(x), Load(x) + 1}
         /\ NextId \in Queued' /\ log[NextId] = "absent"
<1>1. /\ NextId \in Entry /\ Log!Move(NextId, "absent", "queued")
      /\ owner' = [owner EXCEPT ![NextId] = d]
  BY DEF Enqueue
<1>2. NextId \in Queued' /\ log[NextId] = "absent"
  <2>1. log[NextId] = "absent" /\ log' = [log EXCEPT ![NextId] = "queued"]
    BY <1>1 DEF Log!Move
  <2> DEFINE e == NextId
  <2>2. e \in Entry /\ log[e] = "absent" /\ log' = [log EXCEPT ![e] = "queued"]
    BY <1>1, <2>1
  <2> HIDE DEF e
  <2>3. e \in Queued'
    BY <2>2 DEF Queued, LogTypes
  <2> QED BY <2>2, <2>3 DEF e
<1> HIDE DEF NextId
<1>3. \E x \in Device : owner' = [owner EXCEPT ![NextId] = x]
  BY <1>1
<1> QED BY <1>1, <1>2, <1>3, LogMoves

LEMMA OthersMove ==
  ASSUME LogTypes, Others
  PROVE  /\ LogTypes' /\ Grows
         /\ \E o : \A x : /\ x # o => Load(x)' = Load(x)
                          /\ Load(x)' \in {Load(x) - 1, Load(x), Load(x) + 1}
<1>1. CASE \E d \in Device : Enqueue(d)
  BY <1>1, Enqueued
<1>2. CASE Log!LogNext /\ Queued' = Queued /\ owner' = owner
  <2>1. PICK e \in Entry : \/ Log!Move(e, "absent", "queued")
                           \/ Log!Move(e, "queued", "running")
                           \/ Log!Move(e, "queued", "cancelled")
                           \/ Log!Move(e, "running", "done")
                           \/ Log!Move(e, "running", "error")
    BY <1>2 DEF Log!LogNext
  <2>2. ~Log!Move(e, "absent", "queued")
    <3>1. SUFFICES ASSUME log[e] = "absent", log' = [log EXCEPT ![e] = "queued"] PROVE FALSE
      BY DEF Log!Move
    <3>2. e \notin Queued /\ e \in Queued'
      BY <3>1 DEF Queued, LogTypes
    <3> QED BY <1>2, <3>2
  <2>3. PICK from, to : /\ Log!Move(e, from, to)
                        /\ \/ from = "queued" /\ to \in {"running", "cancelled"}
                           \/ from = "running" /\ to \in {"done", "error"}
    BY <2>1, <2>2
  <2> QED BY <1>2, <2>3, LogMoves
<1> QED BY <1>1, <1>2 DEF Others

LEMMA Unmoved ==
  ASSUME log' = log, owner' = owner
  PROVE  /\ LogTypes => LogTypes' /\ Grows
         /\ Queued' = Queued /\ \A x : Load(x)' = Load(x)
<1>1. Queued' = Queued
  BY DEF Queued
<1>2. LogTypes => LogTypes' /\ Grows
  BY <1>1, Reaching DEF LogTypes, Grows
<1>3. \A x : ActiveOf(x)' = ActiveOf(x)
  BY <1>1 DEF ActiveOf
<1> QED BY <1>1, <1>2, <1>3 DEF Load

-----------------------------------------------------------------------------
(* Steps of the submission *)

LEMMA NewRequest ==
  ASSUME NEW pc \in {"idle", "list", "queues", "execute", "queued", "failed"},
         NEW d \in Device \cup {None}, NEW todo \in SUBSET Device, NEW e \in Queued' \cup {None},
         pc = "queued" => e \in Queued', slack' \in Nat,
         request' = [pc |-> pc, device |-> d, todo |-> todo, loads |-> <<>>, entry |-> e]
  PROVE  RequestInv' /\ SlackInv'
<1>1. request'.loads = <<>>
  OBVIOUS
<1>2. SlackInv'
  BY <1>1, NoLoads DEF SlackInv
<1>3. RequestInv'
  BY DEF RequestInv
<1> QED BY <1>2, <1>3

LEMMA Failing ==
  ASSUME Fail, slack' \in Nat
  PROVE  RequestInv' /\ SlackInv' /\ request'.pc = "failed"
<1>1. request' = [pc |-> "failed", device |-> None, todo |-> {}, loads |-> <<>>, entry |-> None]
  BY DEF Fail, Idle
<1> QED BY <1>1, NewRequest

LEMMA ListDevicesStep ==
  ASSUME ServerInv, ListDevices
  PROVE  ServerInv' /\ Grows /\ request'.pc # "queued" /\ request.pc # "idle"
<1>1. /\ LogTypes' /\ Grows /\ StatusTypes' /\ slack' \in Nat /\ Queued' = Queued
      /\ request.pc = "list"
  BY Unmoved DEF ListDevices, Serving, server, ServerInv, StatusTypes, SlackInv
<1>2. CASE Fail
  BY <1>1, <1>2, Failing DEF ServerInv
<1>3. CASE request' = [request EXCEPT !.pc = "queues", !.todo = Available]
  <2>1. /\ request' = [pc |-> "queues", device |-> request.device, todo |-> Available,
                       loads |-> request.loads, entry |-> request.entry]
        /\ Available \subseteq Device
    BY <1>3 DEF ServerInv, RequestInv, Available
  <2> HIDE DEF Available
  <2>2. RequestInv'
    BY <1>1, <2>1 DEF ServerInv, RequestInv
  <2>3. SlackInv'
    <3>1. request'.loads = request.loads /\ slack' = slack /\ \A x : Load(x)' = Load(x)
      BY <2>1, Unmoved DEF ListDevices, server
    <3> QED BY <3>1 DEF ServerInv, SlackInv, Gap
  <2>4. request'.pc = "queues"
    BY <2>1
  <2> QED BY <1>1, <2>2, <2>3, <2>4 DEF ServerInv
<1> QED BY <1>2, <1>3 DEF ListDevices

(* What is read of a queue: the entries that the list leaves out are added *)
(* to the slack.                                                           *)
LEMMA ReadQueueStep ==
  ASSUME ServerInv, NEW d \in Device, ReadQueue(d)
  PROVE  ServerInv' /\ Grows /\ request'.pc # "queued" /\ request.pc # "idle"
<1>1. /\ LogTypes' /\ Grows /\ StatusTypes' /\ Queued' = Queued /\ \A x : Load(x)' = Load(x)
      /\ request.pc = "queues"
  BY Unmoved DEF ReadQueue, Serving, server, ServerInv, StatusTypes
<1>2. CASE Fail /\ slack' = 0
  BY <1>1, <1>2, Failing DEF ServerInv
<1> DEFINE old == request.loads
           n == ActiveCount(d)
           missing == Cardinality(ActiveOf(d) \ ListedActive(d))
           new == [x \in DOMAIN old \cup {d} |-> IF x = d THEN n ELSE old[x]]
           pc == IF request.todo = {d} THEN "execute" ELSE "queues"
           todo == request.todo \ {d}
<1>3. CASE /\ request' = [request EXCEPT !.pc = pc, !.todo = todo, !.loads = new]
           /\ slack' = slack + missing
  <2>1. n \in 0..Limit /\ missing \in Nat /\ missing = Load(d) - n /\ Load(d) \in Nat /\ n \in Nat
    BY ListFits, Unlisted, Finite, DispatchAssumption
  <2>2. /\ old = <<>> \/ old \in [DOMAIN old -> 0..Limit]
        /\ todo \subseteq Device /\ request.todo \subseteq Device
    BY DEF ServerInv, RequestInv
  <2>3. \A x \in DOMAIN old : old[x] \in 0..Limit
    BY <2>2, NoLoads
  <2>4. /\ DOMAIN new = DOMAIN old \cup {d} /\ new[d] = n
        /\ \A x \in DOMAIN old : x # d => new[x] = old[x]
    OBVIOUS
  <2>5. new \in [DOMAIN new -> 0..Limit]
    BY <2>1, <2>3
  <2>6. pc \in {"queues", "execute"}
    OBVIOUS
  <2> HIDE DEF new, n, missing, pc, todo
  <2>7. request' = [pc |-> pc, device |-> request.device, todo |-> todo, loads |-> new,
                    entry |-> request.entry]
    BY <1>3 DEF ServerInv, RequestInv
  <2>8. RequestInv'
    BY <1>1, <2>2, <2>5, <2>6, <2>7 DEF ServerInv, RequestInv
  <2>9. SlackInv'
    <3>1. request'.loads = new /\ slack' = slack + missing /\ slack \in Nat
      BY <1>3, <2>7 DEF ServerInv, SlackInv
    <3>2. \A x \in DOMAIN old : old[x] \in Nat /\ Load(x) \in Nat
      BY <2>3, Finite, DispatchAssumption
    <3> DEFINE gap(x) == Load(x) - new[x]
    <3>3. gap(d) = missing
      BY <2>1, <2>4
    <3>4. \A x \in DOMAIN old : x # d => gap(x) = Gap(x)
      BY <2>4 DEF Gap
    <3>5. \A x \in DOMAIN old : /\ Gap(x) \in Int /\ -slack <= Gap(x) /\ Gap(x) <= slack
                                /\ \A y \in DOMAIN old : Gap(x) - Gap(y) <= slack
      BY <3>2 DEF ServerInv, SlackInv, Gap
    <3> HIDE DEF gap, old
    <3>6. \A x \in DOMAIN new : -(slack + missing) <= gap(x) /\ gap(x) <= slack + missing
      BY <2>1, <2>4, <3>1, <3>3, <3>4, <3>5
    <3>7. \A x, y \in DOMAIN new : gap(x) - gap(y) <= slack + missing
      BY <2>1, <2>4, <3>1, <3>3, <3>4, <3>5
    <3>8. \A x : Gap(x)' = gap(x)
      BY <1>1, <3>1 DEF Gap, gap
    <3>9. slack' \in Nat
      BY <2>1, <3>1
    <3> QED BY <3>1, <3>6, <3>7, <3>8, <3>9 DEF SlackInv
  <2>10. request'.pc # "queued"
    BY <2>6, <2>7
  <2> QED BY <1>1, <2>8, <2>9, <2>10 DEF ServerInv
<1>4. \/ Fail /\ slack' = 0
      \/ /\ request' = [request EXCEPT !.pc = pc, !.todo = todo, !.loads = new]
         /\ slack' = slack + missing
  BY DEF ReadQueue
<1> QED BY <1>2, <1>3, <1>4

(* A command is queued as an entry that was not there.                     *)
LEMMA ExecuteStep ==
  ASSUME ServerInv, NEW d \in Device, Execute(d)
  PROVE  /\ ServerInv' /\ Grows /\ request.pc # "idle"
         /\ request'.pc = "queued" => log[request'.entry] = "absent"
<1>1. Enqueue(d) /\ slack' = 0 /\ request.pc = "execute"
  BY DEF Execute, Serving
<1>2. LogTypes' /\ Grows /\ NextId \in Queued' /\ log[NextId] = "absent"
  BY <1>1, Enqueued DEF ServerInv
<1>3. StatusTypes'
  BY <1>1 DEF Enqueue, ServerInv, StatusTypes
<1> DEFINE e == NextId
<1>4. \/ request' = [pc |-> "queued", device |-> None, todo |-> {}, loads |-> <<>>, entry |-> e]
      \/ request' = [pc |-> "failed", device |-> None, todo |-> {}, loads |-> <<>>, entry |-> None]
  BY DEF Execute, Idle
<1>5. e \in Queued' /\ log[e] = "absent"
  BY <1>2
<1> HIDE DEF e
<1>6. RequestInv' /\ SlackInv'
  BY <1>1, <1>4, <1>5, NewRequest
<1>7. request'.pc = "queued" => log[request'.entry] = "absent"
  BY <1>4, <1>5
<1> QED BY <1>1, <1>2, <1>3, <1>6, <1>7 DEF ServerInv

LEMMA ForwardFailsStep ==
  ASSUME ServerInv, ForwardFails
  PROVE  ServerInv' /\ Grows /\ request'.pc # "queued" /\ request.pc # "idle"
<1>1. /\ LogTypes' /\ Grows /\ StatusTypes' /\ Fail /\ slack' = 0
      /\ request.pc # "idle"
  BY Unmoved DEF ForwardFails, server, ServerInv, StatusTypes
<1> QED BY <1>1, Failing DEF ServerInv

(* What others do moves the load of one device, by one.                    *)
LEMMA OthersStep ==
  ASSUME ServerInv, Others
  PROVE  ServerInv' /\ Grows /\ request' = request
<1>1. LogTypes' /\ Grows /\ request' = request
  BY OthersMove DEF ServerInv, Others
<1>2. StatusTypes'
  BY DEF Others, Enqueue, ServerInv, StatusTypes
<1>3. RequestInv'
  <2>1. Queued \subseteq Queued'
    BY <1>1, QueuedStay
  <2> QED BY <1>1, <2>1 DEF RequestInv, ServerInv
<1>4. SlackInv'
  <2>1. slack \in Nat /\ slack' = IF request.loads = <<>> THEN 0 ELSE slack + 1
    BY DEF Others, ServerInv, SlackInv
  <2>2. CASE request.loads = <<>>
    BY <1>1, <2>1, <2>2, NoLoads DEF SlackInv
  <2>3. CASE request.loads # <<>>
    <3> DEFINE s == DOMAIN request.loads
    <3>1. slack' = slack + 1 /\ request'.loads = request.loads
      BY <1>1, <2>1, <2>3
    <3>2. \A x \in s : request.loads[x] \in Nat /\ Load(x) \in Nat
      BY <2>3, Finite, DispatchAssumption DEF ServerInv, RequestInv
    <3>3. \A x \in s : /\ Gap(x) \in Int /\ -slack <= Gap(x) /\ Gap(x) <= slack
                       /\ \A y \in s : Gap(x) - Gap(y) <= slack
      BY <3>2 DEF ServerInv, SlackInv, Gap
    <3>4. PICK o : \A x : /\ x # o => Load(x)' = Load(x)
                          /\ Load(x)' \in {Load(x) - 1, Load(x), Load(x) + 1}
      BY OthersMove DEF ServerInv
    <3>5. \A x \in s : /\ x # o => Gap(x)' = Gap(x)
                       /\ Gap(x)' \in {Gap(x) - 1, Gap(x), Gap(x) + 1}
      BY <3>1, <3>2, <3>4 DEF Gap
    <3> HIDE DEF s
    <3>6. ASSUME NEW x \in s
          PROVE  -slack' <= Gap(x)' /\ Gap(x)' <= slack'
      <4>1. /\ Gap(x) \in Int /\ -slack <= Gap(x) /\ Gap(x) <= slack
            /\ Gap(x)' \in {Gap(x) - 1, Gap(x), Gap(x) + 1}
        BY <3>3, <3>5
      <4> QED BY <2>1, <3>1, <4>1
    <3>7. ASSUME NEW x \in s, NEW y \in s PROVE Gap(x)' - Gap(y)' <= slack'
      <4>1. /\ Gap(x) \in Int /\ Gap(y) \in Int /\ Gap(x) - Gap(y) <= slack
            /\ Gap(x)' \in {Gap(x) - 1, Gap(x), Gap(x) + 1}
            /\ Gap(y)' \in {Gap(y) - 1, Gap(y), Gap(y) + 1}
            /\ x = y \/ Gap(x)' = Gap(x) \/ Gap(y)' = Gap(y)
        BY <3>3, <3>5
      <4>2. CASE x = y
        BY <2>1, <3>1, <4>1, <4>2
      <4>3. CASE x # y
        BY <2>1, <3>1, <4>1, <4>3
      <4> QED BY <4>2, <4>3
    <3>8. slack' \in Nat /\ DOMAIN request'.loads = s
      BY <2>1, <3>1 DEF s
    <3> QED BY <3>6, <3>7, <3>8 DEF SlackInv
  <2> QED BY <2>2, <2>3
<1> QED BY <1>1, <1>2, <1>3, <1>4 DEF ServerInv

(* A step that leaves the submission and the log alone                     *)
LEMMA RestStep ==
  ASSUME ServerInv, log' = log, owner' = owner, request' = request, slack' = slack, StatusTypes'
  PROVE  ServerInv' /\ Grows
<1>1. /\ LogTypes' /\ Grows /\ Queued' = Queued /\ \A x : Load(x)' = Load(x)
  BY Unmoved DEF ServerInv
<1>2. RequestInv'
  BY <1>1 DEF ServerInv, RequestInv
<1>3. SlackInv'
  BY <1>1 DEF ServerInv, SlackInv, Gap
<1> QED BY <1>1, <1>2, <1>3 DEF ServerInv

LEMMA StatusChangesStep ==
  ASSUME ServerInv, StatusChanges
  PROVE  ServerInv' /\ Grows /\ request' = request
<1>1. UNCHANGED <<log, owner, request, slack>> /\ changes' \in 0..MaxStatus
  BY DispatchAssumption DEF StatusChanges, ServerInv, StatusTypes
<1>2. status' \in [Device -> {"online", "busy", "offline", "deleted"}]
  BY DEF StatusChanges, ServerInv, StatusTypes
<1> QED BY <1>1, <1>2, RestStep DEF StatusTypes

(* The steps of the server together                                        *)
LEMMA ServerStep ==
  ASSUME ServerInv, ServerNext
  PROVE  /\ ServerInv' /\ Grows
         /\ request'.pc # "idle" => request.pc # "idle"
         /\ request'.pc = "queued" =>
              \/ request' = request
              \/ log[request'.entry] = "absent"
  BY ListDevicesStep, ReadQueueStep, ExecuteStep, ForwardFailsStep, OthersStep, StatusChangesStep
     DEF ServerNext

(* The steps of the form leave the server as it is, but that they hand it  *)
(* a submission or take its answer.                                        *)
LEMMA FormStep ==
  ASSUME ServerInv, UNCHANGED server,
         \/ UNCHANGED <<request, slack>>
         \/ request' = Idle /\ slack' = slack
         \/ \E d \in Device \cup {None} : BeginExecute(d)
  PROVE  ServerInv' /\ Grows
<1>1. UNCHANGED <<log, owner, status, changes>> /\ StatusTypes'
  BY DEF server, ServerInv, StatusTypes
<1>2. CASE UNCHANGED <<request, slack>>
  BY <1>1, <1>2, RestStep
<1>3. LogTypes' /\ Grows
  BY <1>1, Unmoved DEF ServerInv
<1>4. CASE request' = Idle /\ slack' = slack
  <2>1. request' = [pc |-> "idle", device |-> None, todo |-> {}, loads |-> <<>>, entry |-> None]
    BY <1>4 DEF Idle
  <2>2. slack' \in Nat
    BY <1>4 DEF ServerInv, SlackInv
  <2> QED BY <1>1, <1>3, <2>1, <2>2, NewRequest DEF ServerInv
<1>5. ASSUME NEW d \in Device \cup {None}, BeginExecute(d) PROVE ServerInv'
  <2>1. request' = [pc |-> IF d = None THEN "list" ELSE "execute", device |-> d, todo |-> {},
                    loads |-> <<>>, entry |-> None]
    BY <1>5 DEF BeginExecute, Idle
  <2>2. slack' \in Nat
    BY <1>5 DEF BeginExecute, ServerInv, SlackInv
  <2>3. (IF d = None THEN "list" ELSE "execute") \in {"list", "execute"}
    OBVIOUS
  <2> QED BY <1>1, <1>3, <2>1, <2>2, <2>3, NewRequest DEF ServerInv
<1> QED BY <1>2, <1>3, <1>4, <1>5

LEMMA ServerStart == ServerInit => ServerInv
<1> SUFFICES ASSUME ServerInit PROVE ServerInv
  OBVIOUS
<1>1. /\ log = [e \in Entry |-> "absent"] /\ owner = [e \in Entry |-> None]
      /\ request = [pc |-> "idle", device |-> None, todo |-> {}, loads |-> <<>>, entry |-> None]
      /\ slack = 0 /\ changes = 0 /\ status \in [Device -> {"online", "offline"}]
  BY DEF ServerInit, Log!LogInit, Idle
<1>2. LogTypes
  BY <1>1 DEF LogTypes, Queued, Log!LogValue, Log!Final
<1>3. RequestInv /\ SlackInv
  BY <1>1, NoLoads DEF RequestInv, SlackInv
<1>4. StatusTypes
  BY <1>1, DispatchAssumption DEF StatusTypes
<1> QED BY <1>2, <1>3, <1>4 DEF ServerInv

LEMMA ServerSafe == ServerInv => ServerTypeOK /\ ChosenLeastLoaded
<1> SUFFICES ASSUME ServerInv PROVE ServerTypeOK /\ ChosenLeastLoaded
  OBVIOUS
<1>1. ServerTypeOK
  BY DEF ServerInv, LogTypes, StatusTypes, RequestInv, SlackInv, ServerTypeOK
<1>2. ASSUME Serving("execute"), request.device = None,
             NEW chosen \in Selected, NEW d \in DOMAIN request.loads
      PROVE  Cardinality(ActiveOf(chosen)) <= Cardinality(ActiveOf(d)) + slack
  <2> DEFINE s == DOMAIN request.loads
  <2>1. chosen \in s /\ request.loads[chosen] <= request.loads[d]
    BY <1>2 DEF Selected
  <2>2. s # {}
    BY <2>1
  <2>3. \A x \in s : request.loads[x] \in Nat
    BY <2>2, NoLoads, DispatchAssumption DEF ServerInv, RequestInv
  <2>4. Gap(chosen) - Gap(d) <= slack /\ slack \in Nat
    BY <2>1 DEF ServerInv, SlackInv
  <2>5. Load(chosen) \in Nat /\ Load(d) \in Nat
    BY Finite
  <2>6. Load(chosen) <= Load(d) + slack
    <3> DEFINE a == request.loads[chosen]
               b == request.loads[d]
    <3>1. a \in Nat /\ b \in Nat /\ a <= b /\ (Load(chosen) - a) - (Load(d) - b) <= slack
      BY <2>1, <2>3, <2>4 DEF Gap
    <3> HIDE DEF a, b
    <3> QED BY <2>4, <2>5, <3>1
  <2> QED BY <2>6 DEF Load
<1> QED BY <1>1, <1>2 DEF ChosenLeastLoaded
-----------------------------------------------------------------------------
(* The form *)

Answered(r) == r.answer \notin {None, "failed"}

(* A call asks about an entry that is there, and has a past status of it.  *)
CallOK(r, now) ==
  /\ r \in Call
  /\ r.kind = "status" => r.entry \in Entry /\ now[r.entry] # "absent"
  /\ r.kind = "status" /\ Answered(r) => r.answer # "absent" /\ Reachable(r.answer, now[r.entry])

Turn == 1..Len(calls)

CallsInv ==
  /\ calls \in Seq(Call) /\ Len(calls) <= MaxCalls
  /\ \A i \in Turn : CallOK(calls[i], log)
  /\ \A i, j \in Turn : calls[i].kind = "submit" /\ calls[j].kind = "submit" => i = j
  /\ loading <=> \E i \in Turn : calls[i].kind = "submit"

ShownTypes ==
  /\ shown = None \/ shown \in [entry : Queued, status : Log!LogValue \ {"absent"}]
  /\ polling \in BOOLEAN /\ overlap \in BOOLEAN /\ loading \in BOOLEAN
  /\ watched \in Entry /\ told \in Log!LogValue

(* What was shown is past.                                                 *)
ToldInv == Reachable(told, log[watched])

(* Nothing is known yet of an entry that a submission is about to return.  *)
NewInv ==
  request.pc = "queued" /\ request.entry = watched =>
    /\ told = "absent"
    /\ shown # None => shown.entry # watched
    /\ \A i \in Turn : calls[i].kind = "status" => calls[i].entry # watched

(* Only the oldest call is served, and its answer is no older than what is *)
(* shown.                                                                  *)
OrderInv ==
  ~overlap =>
    /\ \A i \in Turn : calls[i].answer # None => i = 1
    /\ request.pc # "idle" =>
         1 \in Turn /\ calls[1].kind = "submit" /\ calls[1].answer = None
    /\ 1 \in Turn /\ calls[1].kind = "status" /\ calls[1].entry = watched /\ Answered(calls[1])
         => Reachable(told, calls[1].answer)

FormInv == CallsInv /\ ShownTypes /\ ToldInv /\ NewInv /\ OrderInv

LEMMA CallStays ==
  ASSUME Grows, NEW r, CallOK(r, log)
  PROVE  CallOK(r, log')
<1>1. r.kind = "status" => r.entry \in Entry /\ Reachable(log[r.entry], log'[r.entry])
  BY DEF CallOK, Grows
<1> QED BY <1>1, Reaching DEF CallOK

LEMMA Joined ==
  ASSUME NEW T, NEW a \in Seq(T), NEW b \in Seq(T)
  PROVE  a \o b \in Seq(T) /\ Len(a \o b) = Len(a) + Len(b)
  OBVIOUS

LEMMA Removed ==
  ASSUME NEW T, NEW s \in Seq(T), NEW i \in 1..Len(s)
  PROVE  /\ RemoveAt(s, i) \in Seq(T) /\ Len(RemoveAt(s, i)) = Len(s) - 1
         /\ \A j \in 1..(Len(s) - 1) :
              RemoveAt(s, i)[j] = IF j < i THEN s[j] ELSE s[j + 1]
<1> DEFINE n == Len(s)
           a == SubSeq(s, 1, i - 1)
           b == SubSeq(s, i + 1, n)
<1>1. n \in Nat /\ i \in Int /\ 1 <= i /\ i <= n
  OBVIOUS
<1>2. a \in Seq(T) /\ Len(a) = i - 1 /\ \A j \in 1..(i - 1) : a[j] = s[j]
  BY <1>1
<1>3. b \in Seq(T) /\ Len(b) = n - i /\ \A j \in 1..(n - i) : b[j] = s[j + i]
  BY <1>1
<1>4. RemoveAt(s, i) = a \o b
  BY DEF RemoveAt
<1> HIDE DEF a, b
<1>5. a \o b \in Seq(T) /\ Len(a \o b) = n - 1
  <2> HIDE DEF n
  <2>1. a \o b \in Seq(T) /\ Len(a \o b) = Len(a) + Len(b)
    BY <1>2, <1>3, Joined
  <2> QED BY <1>1, <1>2, <1>3, <2>1
<1>6. ASSUME NEW j \in 1..(n - 1) PROVE (a \o b)[j] = IF j < i THEN s[j] ELSE s[j + 1]
  <2>1. CASE j < i
    <3>1. j \in 1..(i - 1)
      BY <1>1, <2>1
    <3>2. (a \o b)[j] = a[j]
      BY <1>1, <1>2, <1>3, <3>1
    <3> QED BY <1>2, <2>1, <3>1, <3>2
  <2>2. CASE ~(j < i)
    <3>1. j - (i - 1) \in 1..(n - i) /\ (j - (i - 1)) + i = j + 1
      BY <1>1, <2>2
    <3>2. (a \o b)[j] = b[j - (i - 1)]
      BY <1>1, <1>2, <1>3, <2>2
    <3>3. b[j - (i - 1)] = s[j + 1]
      BY <1>3, <3>1
    <3> QED BY <2>2, <3>2, <3>3
  <2> QED BY <2>1, <2>2
<1> QED BY <1>4, <1>5, <1>6

LEMMA ShownStay ==
  ASSUME ShownTypes, Grows,
         UNCHANGED <<shown, watched, told>>,
         polling' \in BOOLEAN, overlap' \in BOOLEAN, loading' \in BOOLEAN
  PROVE  ShownTypes'
<1>1. Queued \subseteq Queued'
  BY QueuedStay
<1> QED BY <1>1 DEF ShownTypes

LEMMA ToldStays ==
  ASSUME ShownTypes, ToldInv, Grows, UNCHANGED <<watched, told>>
  PROVE  ToldInv'
  BY Reaching DEF ShownTypes, ToldInv, Grows

LEMMA AddCall ==
  ASSUME CallsInv, Grows, NEW r, CallOK(r, log'), Len(calls) < MaxCalls, calls' = Append(calls, r),
         \/ r.kind # "submit" /\ loading' = loading
         \/ r.kind = "submit" /\ loading = FALSE /\ loading' = TRUE
  PROVE  /\ CallsInv'
         /\ Turn' = 1..(Len(calls) + 1) /\ calls'[Len(calls) + 1] = r
         /\ \A i \in Turn : i \in Turn' /\ calls'[i] = calls[i]
<1> DEFINE n == Len(calls)
<1>1. n \in Nat /\ r \in Call /\ calls \in Seq(Call)
  BY DEF CallsInv, CallOK
<1>2. /\ calls' \in Seq(Call) /\ Len(calls') = n + 1 /\ calls'[n + 1] = r
      /\ \A i \in 1..n : calls'[i] = calls[i]
  BY <1>1
<1>3. Turn' = 1..(n + 1) /\ Turn = 1..n /\ \A i \in Turn' : i \in Turn \/ i = n + 1
  BY <1>1, <1>2 DEF Turn
<1>4. \A i \in Turn : calls'[i] = calls[i] /\ i \in Turn' /\ i # n + 1
  BY <1>1, <1>2, <1>3
<1> HIDE DEF n
<1>5. n + 1 \in Turn'
  BY <1>1, <1>3
<1>6. ASSUME NEW i \in Turn' PROVE CallOK(calls'[i], log')
  <2>1. CASE i = n + 1
    BY <1>2, <2>1
  <2>2. CASE i \in Turn
    <3> DEFINE x == calls[i]
    <3>1. PICK y : y = calls[i] /\ CallOK(y, log)
      BY <2>2 DEF CallsInv
    <3>2. CallOK(y, log')
      BY <3>1, CallStays
    <3> QED BY <1>4, <2>2, <3>1, <3>2
  <2> QED BY <1>3, <2>1, <2>2
<1>7. \A i, j \in Turn' : calls'[i].kind = "submit" /\ calls'[j].kind = "submit" => i = j
  BY <1>2, <1>3, <1>4 DEF CallsInv
<1>8. loading' <=> \E i \in Turn' : calls'[i].kind = "submit"
  BY <1>2, <1>3, <1>4, <1>5 DEF CallsInv
<1>9. Len(calls') <= MaxCalls
  BY <1>1, <1>2, FormAssumption DEF n
<1> QED BY <1>2, <1>3, <1>4, <1>6, <1>7, <1>8, <1>9 DEF CallsInv, n

(* An answer arrives, or the news that there is none.                      *)
LEMMA AnswerCall ==
  ASSUME CallsInv, Grows, NEW i \in Turn, NEW s \in Log!LogValue \cup {"failed", None},
         Answer(i, s), loading' = loading,
         calls[i].kind = "status" =>
           s = "failed" \/ (s # "absent" /\ Reachable(s, log'[calls[i].entry]))
  PROVE  /\ CallsInv' /\ Turn' = Turn
         /\ calls'[i] = [calls[i] EXCEPT !.answer = s] /\ calls[i] \in Call
         /\ \A j \in Turn : j # i => calls'[j] = calls[j]
<1> DEFINE r == [calls[i] EXCEPT !.answer = s]
<1>1. calls \in Seq(Call) /\ Len(calls) \in Nat /\ calls[i] \in Call /\ CallOK(calls[i], log)
  BY DEF CallsInv, CallOK, Turn
<1>2. /\ r \in Call /\ r.kind = calls[i].kind /\ r.entry = calls[i].entry /\ r.answer = s
  BY <1>1 DEF Call
<1>3. calls' = [calls EXCEPT ![i] = r]
  BY <1>1 DEF Answer, Turn
<1> HIDE DEF r
<1>4. /\ calls' \in Seq(Call) /\ Len(calls') = Len(calls) /\ calls'[i] = r
      /\ \A j \in Turn : j # i => calls'[j] = calls[j]
  BY <1>1, <1>2, <1>3 DEF Turn
<1>5. Turn' = Turn /\ \A j \in Turn : calls'[j].kind = calls[j].kind
  BY <1>2, <1>4 DEF Turn
<1>6. ASSUME NEW j \in Turn PROVE CallOK(calls'[j], log')
  <2>1. CASE j = i
    <3>1. r.kind = "status" => r.entry \in Entry /\ log'[r.entry] # "absent"
      BY <1>1, <1>2, Reaching DEF CallOK, Grows
    <3>2. r.kind = "status" /\ r.answer # "failed" =>
            r.answer # "absent" /\ Reachable(r.answer, log'[r.entry])
      BY <1>2
    <3> QED BY <1>2, <1>4, <2>1, <3>1, <3>2 DEF CallOK, Answered
  <2>2. CASE j # i
    <3>1. PICK y : y = calls[j] /\ CallOK(y, log)
      BY DEF CallsInv
    <3>2. CallOK(y, log')
      BY <3>1, CallStays
    <3> QED BY <1>4, <2>2, <3>1, <3>2
  <2> QED BY <2>1, <2>2
<1>7. CallsInv'
  BY <1>4, <1>5, <1>6 DEF CallsInv
<1> QED BY <1>1, <1>4, <1>5, <1>7 DEF r

(* A call has returned.                                                    *)
LEMMA RemoveCall ==
  ASSUME CallsInv, Grows, NEW i \in Turn, calls' = RemoveAt(calls, i),
         \/ calls[i].kind # "submit" /\ loading' = loading
         \/ calls[i].kind = "submit" /\ loading' = FALSE
  PROVE  /\ CallsInv'
         /\ \A j \in Turn' : \/ j \in Turn /\ j # i /\ calls'[j] = calls[j]
                             \/ j + 1 \in Turn /\ j + 1 # 1 /\ calls'[j] = calls[j + 1]
         /\ i # 1 => 1 \in Turn' /\ calls'[1] = calls[1]
<1>1. calls \in Seq(Call) /\ Len(calls) \in Nat /\ i \in 1..Len(calls)
  BY DEF CallsInv, Turn
<1>2. /\ calls' \in Seq(Call) /\ Len(calls') = Len(calls) - 1
      /\ \A j \in 1..(Len(calls) - 1) : calls'[j] = IF j < i THEN calls[j] ELSE calls[j + 1]
  BY <1>1, Removed
<1>3. Turn' = 1..(Len(calls) - 1) /\ Turn = 1..Len(calls)
  BY <1>2 DEF Turn
<1> DEFINE at(j) == IF j < i THEN j ELSE j + 1
<1>4. \A j \in Turn' : at(j) \in Turn /\ at(j) # i /\ calls'[j] = calls[at(j)]
  BY <1>1, <1>2, <1>3
<1>5. \A j, k \in Turn' : at(j) = at(k) => j = k
  BY <1>1, <1>3
<1>6. \A k \in Turn : k # i => \E j \in Turn' : at(j) = k
  <2>1. ASSUME NEW k \in Turn, k # i PROVE \E j \in Turn' : at(j) = k
    <3>1. CASE k < i
      <4>1. k \in Turn' /\ at(k) = k
        BY <1>1, <1>3, <3>1
      <4> QED BY <4>1
    <3>2. CASE k > i
      <4>1. k - 1 \in Turn' /\ at(k - 1) = k
        BY <1>1, <1>3, <3>2
      <4> QED BY <4>1
    <3> QED BY <1>1, <1>3, <2>1, <3>1, <3>2
  <2> QED BY <2>1
<1>7. \A j \in Turn' : \/ j \in Turn /\ j # i /\ calls'[j] = calls[j]
                       \/ j + 1 \in Turn /\ j + 1 # 1 /\ calls'[j] = calls[j + 1]
  BY <1>1, <1>2, <1>3
<1>8. i # 1 => 1 \in Turn' /\ calls'[1] = calls[1]
  BY <1>1, <1>2, <1>3
<1> HIDE DEF at
<1>9. ASSUME NEW j \in Turn' PROVE CallOK(calls'[j], log')
  <2>1. PICK y : y = calls'[j] /\ CallOK(y, log)
    BY <1>4 DEF CallsInv
  <2>2. CallOK(y, log')
    BY <2>1, CallStays
  <2> QED BY <2>1, <2>2
<1>10. \A j, k \in Turn' : calls'[j].kind = "submit" /\ calls'[k].kind = "submit" => j = k
  BY <1>4, <1>5 DEF CallsInv
<1>11. loading' <=> \E j \in Turn' : calls'[j].kind = "submit"
  <2>1. CASE calls[i].kind # "submit" /\ loading' = loading
    BY <1>4, <1>6, <2>1 DEF CallsInv
  <2>2. CASE calls[i].kind = "submit" /\ loading' = FALSE
    BY <1>4, <2>2 DEF CallsInv
  <2> QED BY <2>1, <2>2
<1>12. Len(calls') <= MaxCalls
  BY <1>1, <1>2, FormAssumption DEF CallsInv
<1> QED BY <1>2, <1>7, <1>8, <1>9, <1>10, <1>11, <1>12 DEF CallsInv
-----------------------------------------------------------------------------
(* The form's steps *)

LEMMA SubmitStep ==
  ASSUME ServerInv, FormInv, NEW d \in Device \cup {None}, Submit(d)
  PROVE  ServerInv' /\ FormInv'
<1> DEFINE r == [kind |-> "submit", device |-> d, entry |-> None, answer |-> None]
<1>1. /\ ~loading /\ loading' = TRUE /\ calls' = Append(calls, r) /\ Len(calls) < MaxCalls
      /\ shown' = None
      /\ UNCHANGED <<server, request, slack, overlap, polling, watched, told>>
  BY DEF Submit
<1>2. ServerInv' /\ Grows
  BY <1>1, FormStep
<1>3. CallOK(r, log') /\ r.kind = "submit" /\ r.answer = None
  BY DEF CallOK, Call
<1> HIDE DEF r
<1>4. loading = FALSE
  BY <1>1 DEF FormInv, ShownTypes
<1>5. /\ CallsInv' /\ Turn' = 1..(Len(calls) + 1) /\ calls'[Len(calls) + 1] = r
      /\ \A i \in Turn : i \in Turn' /\ calls'[i] = calls[i]
  BY <1>1, <1>2, <1>3, <1>4, AddCall DEF FormInv
<1>6. /\ Turn = 1..Len(calls) /\ Len(calls) \in Nat
      /\ \A i \in Turn' : i \in Turn \/ i = Len(calls) + 1
  BY <1>5 DEF Turn, FormInv, CallsInv
<1>7. ShownTypes'
  BY <1>1 DEF FormInv, ShownTypes
<1>8. ToldInv'
  BY <1>1, <1>2, ToldStays DEF FormInv
<1>9. NewInv'
  BY <1>1, <1>3, <1>5, <1>6 DEF FormInv, NewInv
<1>10. OrderInv'
  BY <1>1, <1>3, <1>5, <1>6 DEF FormInv, OrderInv
<1> QED BY <1>2, <1>5, <1>7, <1>8, <1>9, <1>10 DEF FormInv

LEMMA PollStep ==
  ASSUME ServerInv, FormInv, Poll
  PROVE  ServerInv' /\ FormInv'
<1> DEFINE e == shown.entry
           r == [kind |-> "status", device |-> None, entry |-> e, answer |-> None]
<1>1. /\ shown # None /\ calls' = Append(calls, r) /\ Len(calls) < MaxCalls
      /\ UNCHANGED <<server, request, slack, overlap, shown, polling, loading, watched, told>>
  BY DEF Poll
<1>2. ServerInv' /\ Grows
  BY <1>1, FormStep
<1>3. e \in Entry /\ log[e] # "absent" /\ log' = log
  BY <1>1 DEF FormInv, ShownTypes, Queued, server
<1>4. /\ CallOK(r, log') /\ r.kind = "status" /\ r.answer = None /\ r.entry = e
      /\ ~Answered(r)
  BY <1>3 DEF CallOK, Call, Answered
<1> HIDE DEF r
<1>5. /\ CallsInv' /\ Turn' = 1..(Len(calls) + 1) /\ calls'[Len(calls) + 1] = r
      /\ \A i \in Turn : i \in Turn' /\ calls'[i] = calls[i]
  BY <1>1, <1>2, <1>4, AddCall DEF FormInv
<1>6. /\ Turn = 1..Len(calls) /\ Len(calls) \in Nat
      /\ \A i \in Turn' : i \in Turn \/ i = Len(calls) + 1
  BY <1>5 DEF Turn, FormInv, CallsInv
<1>7. ShownTypes' /\ ToldInv'
  BY <1>1, <1>2, ShownStay, ToldStays DEF FormInv, ShownTypes
<1>8. NewInv'
  BY <1>1, <1>4, <1>5, <1>6 DEF FormInv, NewInv
<1>9. OrderInv'
  BY <1>1, <1>4, <1>5, <1>6 DEF FormInv, OrderInv
<1> QED BY <1>2, <1>5, <1>7, <1>8, <1>9 DEF FormInv

(* A call fails, in its turn, or when the answer to a submission is lost.  *)
LEMMA FailedStep ==
  ASSUME ServerInv, FormInv, ServerInv', Grows, NEW i \in Turn, Failed(i),
         UNCHANGED <<shown, polling, loading, watched, told>>,
         request'.pc = "queued" => request' = request,
         ~overlap => i = 1 /\ request'.pc = "idle"
  PROVE  FormInv'
<1>1. Answer(i, "failed") /\ overlap' \in {overlap, TRUE} /\ overlap \in BOOLEAN
  BY DEF Failed, FormInv, ShownTypes
<1>2. /\ CallsInv' /\ Turn' = Turn
      /\ calls'[i] = [calls[i] EXCEPT !.answer = "failed"] /\ calls[i] \in Call
      /\ \A j \in Turn : j # i => calls'[j] = calls[j]
  BY <1>1, AnswerCall DEF FormInv
<1>3. /\ calls'[i].answer = "failed" /\ calls'[i].kind = calls[i].kind
      /\ calls'[i].entry = calls[i].entry /\ ~Answered(calls'[i])
  BY <1>2 DEF Call, Answered
<1>4. overlap' \in BOOLEAN
  BY <1>1
<1>5. ShownTypes' /\ ToldInv'
  <2>1. UNCHANGED <<shown, watched, told>> /\ polling' \in BOOLEAN /\ loading' \in BOOLEAN
    BY DEF FormInv, ShownTypes
  <2> QED BY <1>4, <2>1, ShownStay, ToldStays DEF FormInv
<1>6. NewInv'
  BY <1>2, <1>3 DEF FormInv, NewInv
<1>7. OrderInv'
  <2>1. CASE overlap'
    BY <2>1 DEF OrderInv
  <2>2. CASE ~overlap'
    <3>1. ~overlap
      BY <1>1, <2>2
    <3>2. i = 1 /\ request'.pc = "idle" /\ \A j \in Turn : calls[j].answer # None => j = 1
      BY <3>1 DEF FormInv, OrderInv
    <3>3. \A j \in Turn' : calls'[j].answer # None => j = 1
      BY <1>2, <3>2
    <3>4. ~Answered(calls'[1])
      BY <1>3, <3>2
    <3>5. ~Answered(calls[1])'
      BY <3>4 DEF Answered
    <3> QED BY <3>2, <3>3, <3>5 DEF OrderInv
  <2> QED BY <2>1, <2>2
<1> QED BY <1>2, <1>5, <1>6, <1>7 DEF FormInv

LEMMA GetStatusStep ==
  ASSUME ServerInv, FormInv, NEW i \in Turn, GetStatus(i)
  PROVE  ServerInv' /\ FormInv'
<1>1. /\ HasTurn(i) /\ calls[i].kind = "status" /\ calls[i].answer = None
      /\ UNCHANGED <<server, request, slack, shown, polling, loading, watched, told>>
  BY DEF GetStatus
<1>2. ServerInv' /\ Grows /\ log' = log
  BY <1>1, FormStep DEF server
<1>3. ~overlap => i = 1 /\ request.pc = "idle"
  <2>1. SUFFICES ASSUME ~overlap PROVE i = 1 /\ request.pc = "idle"
    OBVIOUS
  <2>2. i = 1
    BY <1>1, <2>1 DEF HasTurn
  <2> QED BY <1>1, <2>1, <2>2 DEF FormInv, OrderInv
<1>4. CASE Failed(i)
  BY <1>1, <1>2, <1>3, <1>4, FailedStep
<1> DEFINE e == calls[i].entry
           v == log[e]
<1>5. CASE Answer(i, v) /\ UNCHANGED overlap
  <2>1. e \in Entry /\ v # "absent" /\ v \in Log!LogValue
    BY <1>1 DEF FormInv, CallsInv, CallOK, ServerInv, LogTypes
  <2>2. v # "absent" /\ Reachable(v, log'[e])
    BY <1>2, <2>1, Reaching
  <2> HIDE DEF v
  <2>3. /\ CallsInv' /\ Turn' = Turn
        /\ calls'[i] = [calls[i] EXCEPT !.answer = v] /\ calls[i] \in Call
        /\ \A j \in Turn : j # i => calls'[j] = calls[j]
    BY <1>1, <1>2, <1>5, <2>1, <2>2, AnswerCall DEF FormInv
  <2>4. /\ calls'[i].answer = v /\ calls'[i].kind = calls[i].kind
        /\ calls'[i].entry = calls[i].entry
    BY <2>3 DEF Call
  <2>5. ShownTypes' /\ ToldInv'
    <3>1. /\ UNCHANGED <<shown, watched, told>> /\ polling' \in BOOLEAN
          /\ loading' \in BOOLEAN /\ overlap' \in BOOLEAN
      BY <1>1, <1>5 DEF FormInv, ShownTypes
    <3> QED BY <1>2, <3>1, ShownStay, ToldStays DEF FormInv
  <2>6. NewInv'
    <3>1. \A j \in Turn : calls'[j].kind = calls[j].kind /\ calls'[j].entry = calls[j].entry
      BY <2>3, <2>4
    <3>2. UNCHANGED <<request, told, shown, watched>> /\ Turn' = Turn
      BY <1>1, <2>3
    <3> QED BY <3>1, <3>2 DEF FormInv, NewInv
  <2>7. OrderInv'
    <3>1. SUFFICES ASSUME ~overlap PROVE OrderInv'
      BY <1>5 DEF OrderInv
    <3>2. i = 1 /\ request'.pc = "idle" /\ \A j \in Turn : calls[j].answer # None => j = 1
      BY <1>1, <1>3, <3>1 DEF FormInv, OrderInv
    <3>3. \A j \in Turn' : calls'[j].answer # None => j = 1
      BY <2>3, <3>2
    <3>4. calls'[1].entry = watched => Reachable(told, calls'[1].answer)
      BY <2>4, <3>2 DEF FormInv, ToldInv, v
    <3> QED BY <1>1, <3>2, <3>3, <3>4 DEF OrderInv
  <2> QED BY <1>2, <2>3, <2>5, <2>6, <2>7 DEF FormInv
<1> QED BY <1>4, <1>5 DEF GetStatus

LEMMA SendStep ==
  ASSUME ServerInv, FormInv, NEW i \in Turn, Send(i)
  PROVE  ServerInv' /\ FormInv'
<1>1. /\ HasTurn(i) /\ calls[i].kind = "submit" /\ calls[i].answer = None
      /\ UNCHANGED <<shown, polling, loading, watched, told>>
  BY DEF Send
<1>2. ~overlap => i = 1
  BY <1>1 DEF HasTurn
<1>3. CASE BeginExecute(calls[i].device) /\ UNCHANGED <<calls, overlap>>
  <2>1. calls[i] \in Call
    BY DEF FormInv, CallsInv, CallOK
  <2> DEFINE d == calls[i].device
  <2>2. d \in Device \cup {None} /\ BeginExecute(d)
    BY <1>3, <2>1 DEF Call
  <2> HIDE DEF d
  <2>3. UNCHANGED server /\ request'.pc # "queued"
    BY <2>2 DEF BeginExecute, Idle
  <2>4. ServerInv' /\ Grows /\ log' = log
    BY <2>2, <2>3, FormStep DEF server
  <2>5. CallsInv'
    <3>1. Turn' = Turn
      BY <1>3 DEF Turn
    <3> QED BY <1>1, <1>3, <2>4, <3>1 DEF FormInv, CallsInv
  <2>6. ShownTypes' /\ ToldInv'
    <3>1. /\ UNCHANGED <<shown, watched, told>> /\ polling' \in BOOLEAN
          /\ loading' \in BOOLEAN /\ overlap' \in BOOLEAN
      BY <1>1, <1>3 DEF FormInv, ShownTypes
    <3> QED BY <2>4, <3>1, ShownStay, ToldStays DEF FormInv
  <2>7. NewInv'
    BY <2>3 DEF NewInv
  <2>8. OrderInv'
    <3>1. SUFFICES ASSUME ~overlap PROVE OrderInv'
      BY <1>3 DEF OrderInv
    <3>2. /\ \A j \in Turn : calls[j].answer # None => j = 1
          /\ 1 \in Turn /\ calls[1].kind = "submit" /\ calls[1].answer = None
      BY <1>1, <1>2, <3>1 DEF FormInv, OrderInv
    <3>3. Turn' = Turn /\ calls' = calls
      BY <1>3 DEF Turn
    <3> QED BY <3>2, <3>3 DEF OrderInv
  <2> QED BY <2>4, <2>5, <2>6, <2>7, <2>8 DEF FormInv
<1>4. CASE Serving("idle") /\ Failed(i) /\ UNCHANGED <<server, request, slack>>
  <2>1. ServerInv' /\ Grows /\ request'.pc = "idle"
    BY <1>4, FormStep DEF Serving
  <2> QED BY <1>1, <1>2, <1>4, <2>1, FailedStep
<1> QED BY <1>3, <1>4 DEF Send

(* What a call leaves behind when it has returned: the order of the others *)
(* and, when they keep it, nothing that could be shown before what was.    *)
LEMMA ReturnedOrder ==
  ASSUME FormInv, NEW i \in Turn, overlap' = overlap, watched' = watched,
         \A j \in Turn' : \/ j \in Turn /\ j # i /\ calls'[j] = calls[j]
                          \/ j + 1 \in Turn /\ j + 1 # 1 /\ calls'[j] = calls[j + 1],
         i # 1 => 1 \in Turn' /\ calls'[1] = calls[1],
         request' = request \/ request'.pc = "idle",
         ~overlap /\ i = 1 => request'.pc = "idle",
         \/ told' = told
         \/ ~overlap => i = 1
         \/ \A j \in Turn' : calls'[j].kind = "status" => calls'[j].entry # watched
  PROVE  OrderInv'
<1>1. SUFFICES ASSUME ~overlap PROVE OrderInv'
  BY DEF OrderInv
<1>2. /\ \A j \in Turn : calls[j].answer # None => j = 1
      /\ request.pc # "idle" => 1 \in Turn /\ calls[1].kind = "submit" /\ calls[1].answer = None
      /\ 1 \in Turn /\ calls[1].kind = "status" /\ calls[1].entry = watched /\ Answered(calls[1])
           => Reachable(told, calls[1].answer)
  BY <1>1 DEF FormInv, OrderInv
<1>3. Turn \subseteq Nat /\ Turn' \subseteq Nat
  BY DEF Turn
<1>4. \A j \in Turn' : calls'[j].answer # None => j = 1 /\ i # 1
  <2>1. ASSUME NEW j \in Turn', calls'[j].answer # None PROVE j = 1 /\ i # 1
    <3>1. ~(j + 1 \in Turn /\ j + 1 # 1 /\ calls'[j] = calls[j + 1])
      BY <1>2, <2>1
    <3> QED BY <1>2, <2>1, <3>1
  <2> QED BY <2>1
<1>5. request'.pc # "idle" => 1 \in Turn' /\ calls'[1].kind = "submit" /\ calls'[1].answer = None
  <2>1. SUFFICES ASSUME request'.pc # "idle"
                 PROVE  1 \in Turn' /\ calls'[1].kind = "submit" /\ calls'[1].answer = None
    OBVIOUS
  <2>2. request' = request /\ i # 1
    BY <1>1, <2>1
  <2> QED BY <1>2, <2>1, <2>2
<1>6. ASSUME 1 \in Turn', calls'[1].kind = "status", calls'[1].entry = watched,
             Answered(calls'[1])
      PROVE  Reachable(told', calls'[1].answer)
  <2>1. calls'[1].answer # None
    BY <1>6 DEF Answered
  <2>2. i # 1 /\ calls'[1] = calls[1]
    BY <1>4, <1>6, <2>1
  <2>3. 1 \in Turn
    BY <2>2 DEF Turn
  <2>4. told' = told
    BY <1>1, <1>6, <2>2
  <2> QED BY <1>2, <1>6, <2>2, <2>3, <2>4
<1>7. \A j \in Turn' : calls'[j].answer # None => j = 1
  BY <1>4
<1>8. 1 \in Turn' /\ calls'[1].kind = "status" /\ calls'[1].entry = watched'
        /\ Answered(calls[1])' => Reachable(told', calls'[1].answer)
  BY <1>6 DEF Answered
<1>9. 1 \in Turn' /\ (calls[1].kind = "status")' /\ (calls[1].entry = watched)'
        /\ Answered(calls[1])' => Reachable(told, calls[1].answer)'
  BY <1>8 DEF Reachable
<1> QED BY <1>5, <1>7, <1>9 DEF OrderInv

LEMMA ReturnedNew ==
  ASSUME FormInv, NEW i \in Turn, watched' = watched,
         \A j \in Turn' : \/ j \in Turn /\ j # i /\ calls'[j] = calls[j]
                          \/ j + 1 \in Turn /\ j + 1 # 1 /\ calls'[j] = calls[j + 1],
         request' = request \/ request'.pc = "idle",
         \/ UNCHANGED <<shown, told>>
         \/ request'.pc = "idle"
         \/ /\ calls[i].kind = "status" /\ shown'.entry = calls[i].entry
            /\ calls[i].entry # watched => told' = told
  PROVE  NewInv'
<1>1. SUFFICES ASSUME request'.pc = "queued", request'.entry = watched PROVE NewInv'
  BY DEF NewInv
<1>2. /\ told = "absent" /\ (shown # None => shown.entry # watched)
      /\ \A j \in Turn : calls[j].kind = "status" => calls[j].entry # watched
      /\ request' = request
  BY <1>1 DEF FormInv, NewInv
<1>3. told' = "absent" /\ (shown' # None => shown'.entry # watched)
  BY <1>1, <1>2
<1>4. \A j \in Turn' : calls'[j].kind = "status" => calls'[j].entry # watched
  BY <1>2
<1> QED BY <1>3, <1>4 DEF NewInv

(* The entry that a submission returns is shown as queued.                 *)
LEMMA SubmitAnsweredStep ==
  ASSUME ServerInv, FormInv, NEW i \in Turn, SubmitAnswered(i)
  PROVE  /\ ServerInv' /\ FormInv'
         /\ told' # told => told = "absent"
<1>1. /\ calls[i].kind = "submit" /\ calls[i].answer = None
      /\ request.pc \in {"queued", "failed"} /\ request' = Idle /\ request'.pc = "idle"
      /\ UNCHANGED <<server, slack, watched>>
  BY DEF SubmitAnswered, Idle
<1>2. ServerInv' /\ Grows /\ log' = log
  BY <1>1, FormStep DEF server
<1>3. ~overlap => i = 1
  <2>1. SUFFICES ASSUME ~overlap PROVE i = 1
    OBVIOUS
  <2>2. 1 \in Turn /\ calls[1].kind = "submit"
    BY <1>1, <2>1 DEF FormInv, OrderInv
  <2> QED BY <1>1, <2>2 DEF FormInv, CallsInv
<1>4. CASE Failed(i) /\ UNCHANGED <<shown, polling, loading, told>>
  BY <1>1, <1>2, <1>3, <1>4, FailedStep
<1> DEFINE e == request.entry
<1>5. CASE /\ request.pc = "queued" /\ calls' = RemoveAt(calls, i)
           /\ Show(e, "queued") /\ polling' = TRUE /\ loading' = FALSE /\ UNCHANGED overlap
  <2>1. /\ CallsInv'
        /\ \A j \in Turn' : \/ j \in Turn /\ j # i /\ calls'[j] = calls[j]
                            \/ j + 1 \in Turn /\ j + 1 # 1 /\ calls'[j] = calls[j + 1]
        /\ i # 1 => 1 \in Turn' /\ calls'[1] = calls[1]
    BY <1>1, <1>2, <1>5, RemoveCall DEF FormInv
  <2>2. e \in Entry /\ log[e] # "absent" /\ e \in Queued'
    BY <1>2, <1>5, QueuedStay DEF ServerInv, RequestInv, Queued
  <2>3. /\ shown' = [entry |-> e, status |-> "queued"]
        /\ told' = IF e = watched THEN "queued" ELSE told
    BY <1>5 DEF Show
  <2>4. e = watched => /\ told = "absent"
                       /\ \A j \in Turn : calls[j].kind = "status" => calls[j].entry # watched
    BY <1>5 DEF FormInv, NewInv
  <2>5. ShownTypes'
    <3>1. "queued" \in Log!LogValue \ {"absent"}
      BY DEF Log!LogValue
    <3>2. shown' \in [entry : Queued', status : Log!LogValue \ {"absent"}]
      BY <2>2, <2>3, <3>1
    <3>3. told' \in Log!LogValue /\ watched' \in Entry
      BY <1>1, <2>3, <3>1 DEF FormInv, ShownTypes
    <3>4. polling' \in BOOLEAN /\ loading' \in BOOLEAN /\ overlap' \in BOOLEAN
      BY <1>5 DEF FormInv, ShownTypes
    <3> QED BY <3>2, <3>3, <3>4 DEF ShownTypes
  <2>6. ToldInv'
    BY <1>1, <1>2, <2>2, <2>3 DEF FormInv, ToldInv, Reachable
  <2>7. NewInv'
    BY <1>1 DEF NewInv
  <2>8. OrderInv'
    <3>1. \/ told' = told
          \/ \A j \in Turn' : calls'[j].kind = "status" => calls'[j].entry # watched
      BY <2>1, <2>3, <2>4
    <3> QED BY <1>1, <1>5, <2>1, <3>1, ReturnedOrder
  <2> QED BY <1>2, <2>1, <2>3, <2>4, <2>5, <2>6, <2>7, <2>8 DEF FormInv
<1> QED BY <1>1, <1>4, <1>5 DEF SubmitAnswered, ResponseOk

LEMMA SubmitFailedStep ==
  ASSUME ServerInv, FormInv, NEW i \in Turn, SubmitFailed(i)
  PROVE  ServerInv' /\ FormInv'
<1>1. /\ calls[i].kind = "submit" /\ calls[i].answer = "failed" /\ calls' = RemoveAt(calls, i)
      /\ loading' = FALSE
      /\ UNCHANGED <<server, request, slack, overlap, shown, polling, watched, told>>
  BY DEF SubmitFailed
<1>2. ServerInv' /\ Grows
  BY <1>1, FormStep
<1>3. /\ CallsInv'
      /\ \A j \in Turn' : \/ j \in Turn /\ j # i /\ calls'[j] = calls[j]
                          \/ j + 1 \in Turn /\ j + 1 # 1 /\ calls'[j] = calls[j + 1]
      /\ i # 1 => 1 \in Turn' /\ calls'[1] = calls[1]
  BY <1>1, <1>2, RemoveCall DEF FormInv
<1>4. ~overlap /\ i = 1 => request'.pc = "idle"
  BY <1>1, FormAssumption DEF FormInv, OrderInv
<1>5. ShownTypes' /\ ToldInv'
  <2>1. /\ UNCHANGED <<shown, watched, told>> /\ polling' \in BOOLEAN
        /\ loading' \in BOOLEAN /\ overlap' \in BOOLEAN
    BY <1>1 DEF FormInv, ShownTypes
  <2> QED BY <1>2, <2>1, ShownStay, ToldStays DEF FormInv
<1>6. NewInv'
  BY <1>1, <1>3, ReturnedNew
<1>7. OrderInv'
  BY <1>1, <1>3, <1>4, ReturnedOrder
<1> QED BY <1>2, <1>3, <1>5, <1>6, <1>7 DEF FormInv

(* An answer is shown.                                                     *)
LEMMA StatusAnsweredStep ==
  ASSUME ServerInv, FormInv, NEW i \in Turn, StatusAnswered(i)
  PROVE  /\ ServerInv' /\ FormInv'
         /\ overlap \/ Reachable(told, told')
<1> DEFINE a == calls[i]
<1>1. /\ a.kind = "status" /\ a.answer # None /\ calls' = RemoveAt(calls, i)
      /\ UNCHANGED <<server, request, slack, overlap, loading, watched>>
  BY DEF StatusAnswered
<1>2. ServerInv' /\ Grows /\ log' = log
  BY <1>1, FormStep DEF server
<1>3. /\ CallsInv'
      /\ \A j \in Turn' : \/ j \in Turn /\ j # i /\ calls'[j] = calls[j]
                          \/ j + 1 \in Turn /\ j + 1 # 1 /\ calls'[j] = calls[j + 1]
      /\ i # 1 => 1 \in Turn' /\ calls'[1] = calls[1]
  BY <1>1, <1>2, RemoveCall DEF FormInv
<1>4. ~overlap => i = 1 /\ request.pc = "idle"
  <2>1. SUFFICES ASSUME ~overlap PROVE i = 1 /\ request.pc = "idle"
    OBVIOUS
  <2>2. i = 1
    BY <1>1, <2>1 DEF FormInv, OrderInv
  <2> QED BY <1>1, <2>1, <2>2 DEF FormInv, OrderInv
<1>5. a \in Call /\ a.entry \in Entry /\ log[a.entry] # "absent"
  BY <1>1 DEF FormInv, CallsInv, CallOK
<1>6. CASE a.answer = "failed" /\ UNCHANGED <<shown, polling, told>>
  <2>1. ShownTypes' /\ ToldInv'
    <3>1. /\ UNCHANGED <<shown, watched, told>> /\ polling' \in BOOLEAN
          /\ loading' \in BOOLEAN /\ overlap' \in BOOLEAN
      BY <1>1, <1>6 DEF FormInv, ShownTypes
    <3> QED BY <1>2, <3>1, ShownStay, ToldStays DEF FormInv
  <2>2. NewInv'
    BY <1>1, <1>3, <1>6, ReturnedNew
  <2>3. OrderInv'
    BY <1>1, <1>3, <1>4, <1>6, ReturnedOrder
  <2> QED BY <1>2, <1>3, <1>6, <2>1, <2>2, <2>3, Reaching DEF FormInv
<1>7. CASE /\ a.answer # "failed" /\ Show(a.entry, a.answer)
           /\ polling' = (polling /\ ~Settled(a.answer))
  <2>1. /\ Answered(a) /\ a.answer \in Log!LogValue \ {"absent"}
        /\ Reachable(a.answer, log[a.entry])
    BY <1>1, <1>5, <1>7 DEF FormInv, CallsInv, CallOK, Answered, Call
  <2>2. /\ shown' = [entry |-> a.entry, status |-> a.answer]
        /\ told' = IF a.entry = watched THEN a.answer ELSE told
        /\ shown'.entry = a.entry
    BY <1>7 DEF Show
  <2>3. ShownTypes'
    <3>1. a.entry \in Queued'
      BY <1>2, <1>5 DEF Queued
    <3>2. shown' \in [entry : Queued', status : Log!LogValue \ {"absent"}]
      BY <2>1, <2>2, <3>1
    <3>3. told' \in Log!LogValue /\ watched' \in Entry
      BY <1>1, <2>1, <2>2 DEF FormInv, ShownTypes
    <3>4. polling' \in BOOLEAN /\ loading' \in BOOLEAN /\ overlap' \in BOOLEAN
      BY <1>1, <1>7 DEF FormInv, ShownTypes
    <3> QED BY <3>2, <3>3, <3>4 DEF ShownTypes
  <2>4. ToldInv'
    BY <1>1, <1>2, <2>1, <2>2 DEF FormInv, ToldInv, Reachable
  <2>5. NewInv'
    BY <1>1, <1>3, <2>2, ReturnedNew
  <2>6. OrderInv'
    BY <1>1, <1>3, <1>4, ReturnedOrder
  <2>7. overlap \/ Reachable(told, told')
    <3>1. CASE overlap \/ a.entry # watched
      BY <2>2, <3>1, Reaching
    <3>2. CASE ~overlap /\ a.entry = watched
      BY <1>1, <1>4, <2>1, <2>2, <3>2 DEF FormInv, OrderInv
    <3> QED BY <3>1, <3>2
  <2> QED BY <1>2, <1>3, <2>3, <2>4, <2>5, <2>6, <2>7 DEF FormInv
<1> QED BY <1>6, <1>7 DEF StatusAnswered

(* The server goes on: a new entry is one nobody has asked about.          *)
LEMMA ServerGoesOn ==
  ASSUME ServerInv, FormInv, ServerNext, UNCHANGED form
  PROVE  ServerInv' /\ FormInv'
<1>1. /\ ServerInv' /\ Grows
      /\ request'.pc # "idle" => request.pc # "idle"
      /\ request'.pc = "queued" => \/ request' = request
                                   \/ log[request'.entry] = "absent"
  BY ServerStep
<1>2. UNCHANGED <<calls, overlap, shown, polling, loading, watched, told>> /\ Turn' = Turn
  BY DEF form, Turn
<1>3. CallsInv'
  <2>1. ASSUME NEW j \in Turn PROVE CallOK(calls[j], log')
    <3>1. PICK y : y = calls[j] /\ CallOK(y, log)
      BY DEF FormInv, CallsInv
    <3> QED BY <1>1, <3>1, CallStays
  <2> QED BY <1>2, <2>1 DEF FormInv, CallsInv
<1>4. ShownTypes' /\ ToldInv'
  <2>1. /\ UNCHANGED <<shown, watched, told>> /\ polling' \in BOOLEAN
        /\ loading' \in BOOLEAN /\ overlap' \in BOOLEAN
    BY <1>2 DEF FormInv, ShownTypes
  <2> QED BY <1>1, <2>1, ShownStay, ToldStays DEF FormInv
<1>5. NewInv'
  <2>1. SUFFICES ASSUME request'.pc = "queued", request'.entry = watched PROVE NewInv'
    BY <1>2 DEF NewInv
  <2>2. CASE request' = request
    BY <1>2, <2>1, <2>2 DEF FormInv, NewInv
  <2>3. CASE log[watched] = "absent"
    <3>1. told = "absent"
      BY <2>3, Reaching DEF FormInv, ToldInv
    <3>2. shown # None => shown.entry # watched
      BY <2>3 DEF FormInv, ShownTypes, Queued
    <3>3. \A j \in Turn : calls[j].kind = "status" => calls[j].entry # watched
      BY <2>3 DEF FormInv, CallsInv, CallOK
    <3> QED BY <1>2, <3>1, <3>2, <3>3 DEF NewInv
  <2> QED BY <1>1, <2>1, <2>2, <2>3
<1>6. OrderInv'
  BY <1>1, <1>2 DEF FormInv, OrderInv, Answered, Reachable
<1> QED BY <1>1, <1>3, <1>4, <1>5, <1>6 DEF FormInv

-----------------------------------------------------------------------------
LEMMA Start == Init => ServerInv /\ FormInv
<1> SUFFICES ASSUME Init PROVE ServerInv /\ FormInv
  OBVIOUS
<1>1. /\ ServerInit /\ calls = <<>> /\ overlap \in BOOLEAN /\ shown = None
      /\ polling = FALSE /\ loading = FALSE /\ watched \in Entry /\ told = "absent"
  BY DEF Init
<1>2. ServerInv /\ request.pc = "idle"
  BY <1>1, ServerStart DEF ServerInit, Idle
<1>3. calls \in Seq(Call) /\ Len(calls) = 0 /\ Turn = {}
  BY <1>1 DEF Turn
<1>4. CallsInv
  BY <1>1, <1>3, FormAssumption DEF CallsInv
<1>5. "absent" \in Log!LogValue
  BY DEF Log!LogValue
<1>6. ShownTypes /\ ToldInv
  <2>1. polling \in BOOLEAN /\ loading \in BOOLEAN
    BY <1>1
  <2> QED BY <1>1, <1>5, <2>1, Reaching DEF ShownTypes, ToldInv
<1>7. NewInv /\ OrderInv
  BY <1>2, <1>3 DEF NewInv, OrderInv
<1> QED BY <1>2, <1>4, <1>6, <1>7 DEF FormInv

LEMMA StepAndShow ==
  ASSUME ServerInv, FormInv, Next
  PROVE  ServerInv' /\ FormInv' /\ (overlap \/ Reachable(told, told'))
<1>1. ASSUME NEW d \in Device \cup {None}, Submit(d)
      PROVE  ServerInv' /\ FormInv' /\ told' = told
  BY <1>1, SubmitStep DEF Submit
<1>2. ASSUME Poll PROVE ServerInv' /\ FormInv' /\ told' = told
  BY <1>2, PollStep DEF Poll
<1>3. ASSUME NEW i \in Turn, GetStatus(i) \/ Send(i) \/ SubmitFailed(i)
      PROVE  ServerInv' /\ FormInv' /\ told' = told
  BY <1>3, GetStatusStep, SendStep, SubmitFailedStep DEF GetStatus, Send, SubmitFailed
<1>4. ASSUME NEW i \in Turn, SubmitAnswered(i)
      PROVE  ServerInv' /\ FormInv' /\ Reachable(told, told')
  BY <1>4, SubmitAnsweredStep DEF Reachable
<1>5. ASSUME NEW i \in Turn, StatusAnswered(i)
      PROVE  ServerInv' /\ FormInv' /\ (overlap \/ Reachable(told, told'))
  BY <1>5, StatusAnsweredStep
<1>6. ASSUME ServerNext, UNCHANGED form PROVE ServerInv' /\ FormInv' /\ told' = told
  BY <1>6, ServerGoesOn DEF form
<1>7. Reachable(told, told)
  BY Reaching
<1> QED BY <1>1, <1>2, <1>3, <1>4, <1>5, <1>6, <1>7 DEF Next, Turn

LEMMA Step == ServerInv /\ FormInv /\ [Next]_vars => (ServerInv /\ FormInv)'
<1> SUFFICES ASSUME ServerInv, FormInv, [Next]_vars PROVE ServerInv' /\ FormInv'
  OBVIOUS
<1>1. CASE UNCHANGED vars
  <2>1. UNCHANGED <<server, request, slack>> /\ UNCHANGED form
    BY <1>1 DEF vars
  <2>2. ServerInv' /\ log' = log
    BY <2>1, FormStep DEF server
  <2>3. Turn' = Turn /\ Queued' = Queued
    BY <2>1, <2>2 DEF form, Turn, Queued
  <2>4. CallsInv' /\ ShownTypes'
    BY <2>1, <2>2, <2>3 DEF form, FormInv, CallsInv, ShownTypes
  <2>5. ToldInv' /\ NewInv' /\ OrderInv'
    BY <2>1, <2>2, <2>3 DEF form, FormInv, ToldInv, NewInv, OrderInv, Answered, Reachable
  <2> QED BY <2>2, <2>4, <2>5 DEF FormInv
<1> QED BY <1>1, StepAndShow

LEMMA Invariance == Spec => [](ServerInv /\ FormInv)
<1> QED BY Start, Step, PTL DEF Spec

(* The form asks only about entries that are there, shows only what the    *)
(* log has said, and is loading exactly while a submission is under way;   *)
(* the backend's lists show no more than their limit                       *)
(* (command-execution-form.tsx:96-199, commands.py:131-213).               *)
THEOREM FormTypesHold == Spec => []TypeOK
<1>1. ServerInv /\ FormInv => TypeOK
  <2> SUFFICES ASSUME ServerInv, FormInv PROVE TypeOK
    OBVIOUS
  <2>1. ServerTypeOK
    BY ServerSafe
  <2>2. \A i \in 1..Len(calls) : calls[i].kind = "status" => calls[i].entry \in Queued
    BY DEF FormInv, CallsInv, CallOK, Queued, Turn
  <2>3. /\ calls \in Seq(Call) /\ Len(calls) <= MaxCalls
        /\ loading <=> \E i \in 1..Len(calls) : calls[i].kind = "submit"
    BY DEF FormInv, CallsInv, Turn
  <2> QED BY <2>1, <2>2, <2>3 DEF TypeOK, FormInv, ShownTypes
<1> QED BY <1>1, Invariance, PTL

(* execute/any chooses a device that no other it asked has less to do      *)
(* than, but for what others did meanwhile and what the lists left out     *)
(* (backend/app/routers/commands.py:188-213).                              *)
THEOREM ChosenLeastLoadedHolds == Spec => []ChosenLeastLoaded
<1>1. ServerInv /\ FormInv => ChosenLeastLoaded
  BY ServerSafe
<1> QED BY <1>1, Invariance, PTL

(* While the calls of the form keep their order, what it shows of an entry *)
(* never goes back, however many polls are under way                       *)
(* (command-execution-form.tsx:145-153).                                   *)
THEOREM ShownGrowsHolds == Spec => ShownGrows
<1>1. ServerInv /\ FormInv /\ [Next]_vars => [overlap \/ Reachable(told, told')]_vars
  BY StepAndShow
<1> QED BY <1>1, Invariance, PTL DEF Spec, ShownGrows
=============================================================================
