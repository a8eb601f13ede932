# A TLA+ model of SICC

SICC queues commands for small devices (Raspberry Pis) and shows what became of
them. A browser talks to a backend, the backend to an IoT server, and an agent
on each device polls the IoT server, runs what it is given and reports back. In
secure mode all three links carry encrypted envelopes inside HTTP.

This directory models the parts of SICC where requests, threads and processes
meet: what the tables of the IoT server go through, what an agent does with a
task, how sessions of the encrypted transport live and die, what their handshake
proves to either end, who is let past the rate limits, and what the dashboard
shows of a command. TLC checks the models on small instances; TLAPS proves every
safety property and every refinement that TLC checks, for all instances; what is
left to TLC alone is liveness.
Paths below are relative to the repository's root.

    tlc -config CommandQueue_safety.cfg MCCommandQueue
    tlapm CommandQueue_proofs.tla

`PROJECT.json` says which lines each definition models, which runs there are,
which mistakes (operators ending in `Mutant`) each property is tried against,
and which hazards the properties are for.

## 1. The system

| Component | State | Operations | Interacts with |
|---|---|---|---|
| IoT server: command queue (`server-iot/app/routers/agent.py`, `execute.py`, `devices.py`, `db/init/02_schema.sql`) | tables `command_queue`, `command_executions`, `command_results`, `devices` | execute, register, poll, callback, cancel; read-only lists | agents, backend, PostgreSQL |
| IoT server: device monitor (`server-iot/app/main.py`) | `devices.status`, `last_seen` | one pass each interval | the tables |
| Agent (`agents/main.py`) | `current_task`, `task_event`, `device_id` | register, heartbeat loop, worker loop | IoT server |
| Agent and backend secure transport (`agents/main.py`, `backend/app/secure_transport.py`, `server-iot/app/routers/secure.py`, `security/`) | session stores, sequence numbers, pending handshakes | handshake start and finish, request, discard, retry | threads of one client, IoT server |
| Browser secure transport (`frontend/app/lib/secure/secure-fetch.ts`, `backend/app/routers/secure.py`) | `session`, `handshakePromise`, `configPromise`, `requestQueue` | `secureFetch`, clear, logout | pages, backend |
| Enrollment (`server-iot/app/enrollment.py`, `agent.py`, `scripts/agents.py`) | registered key, used tokens in Valkey | issue, register, rotate, restore | launcher, agents, Valkey |
| Rate limits (`backend/app/rate_limit.py`) | counters in Valkey | count and refuse | backend routes, Valkey |
| Command routes (`backend/app/routers/commands.py`) | none | forward; choose a device for `execute_any` | IoT server |
| Service handshake (`security/service_handshake.py`, `crypto.py`, `encoding.py`) | none; keys of the session it makes | start, serve, complete, verify; seal and open an envelope | both secure transports, enrollment |
| Accounts (`backend/app/auth.py`, `routers/auth.py`) | table `users` | sign up, log in, who am I | database |
| Dashboard (`frontend/app/components`, `routes`) | React state | polling of devices, queue, logs and results | browser transport |
| Primitives (`security/crypto.py`, `encoding.py`, `sanitization.py`, `settings.py`) | none | pure functions | everybody |

What is hard about it:

- **Handlers interleave between their queries.** FastAPI serves each plain `def`
  handler in a thread of its own, with a database session at READ COMMITTED and
  autoflush off. A handler acts on what it read some queries ago. Correctness
  rests on primary keys and on what SQLAlchemy's UPDATE leaves out.
- **Answers get lost.** A poll commits "started" before its answer is sent. An
  agent may time out, crash, or report twice. Redelivery is what repairs it, and
  redelivery is what makes duplicates.
- **Sequence numbers must not slip.** A receiver accepts the exact next number
  and nothing else. A timeout or an exception between two increments puts the
  ends out of step, and the client's repair is to throw the session away.
- **Sessions live in memory.** A restart of a server forgets them, and the
  client finds out by a 404 in the middle of a request.
- **Two threads, or two promise chains, share a session.** They must not get one
  number twice, and must not be left waiting.
- **Two commands to Valkey are not one.** The limiter increments a counter, then
  gives it an expiry, then asks for its time to live, and other requests, the
  clock and a failure come in between.
- **What was read is no longer so.** `execute_any` compares the queues of devices
  it asked one after the other; the execution form shows the answer that came
  last, whichever request it belongs to.

What makes each component correct is stated in section 3, property by property.

## 2. The modules

    CommandLog          what may be seen of a queue entry (abstract specification)
      ^ implemented by (refinement mapping, checked and proved)
    CommandQueue        the IoT server's tables, handlers and monitor, in the
      ^ steps of        weakest environment it has
    AgentSystem         CommandQueue with the real agents in place of that environment

    RequestChannel      what callers of the encrypted transport may count on
      ^ implemented by (refinement mapping, checked and proved)
    SecureSession       the encrypted transport of backend and agents
    SecureFetch         the encrypted transport of the browser
    Enrollment          tokens, keys and registration in secure mode
    Handshake           what the ends of these three compute and accept (no state)

    Accounts            sign-up, login, tokens, behind the rate limiter
    Dispatch            the backend's routes that submit a command; the queue it
      ^ composed with   submits to does what CommandLog promises
    ExecutionForm       the dashboard's form, submitting and polling

    *_proofs            TLAPS proofs about CommandQueue, AgentSystem, SecureSession,
                        SecureFetch, Enrollment, Handshake, Accounts and (with
                        Dispatch) ExecutionForm
    MC*                 the modules TLC runs, with model values

### CommandQueue

The state is the tables (`rows`, `execution`, `result`, `registered`, `status`,
`seen`, the `deleted` flags) and the request each server thread is serving
(`req`). A handler is a sequence of actions: one for each query whose answer the
rest depends on, and a last one that is its commit; a handler that raises leaves
no trace, since nothing was flushed.

| Code | Actions |
|---|---|
| `register_agent` (agent.py:114-203) | `RegisterLoad`, then `RestoreDevice` or `InsertDevice` |
| `poll_commands` (agent.py:206-296) | `PollLoadDevice`, `PollSelect`, then `PollEmpty`, `PollDispatch` or `PollConflict`; then `Deliver` or `Lose` |
| `receive_callback` (agent.py:299-338) | `ReceiveCallback`, `CallbackCommit` |
| `execute_command` (execute.py:15-76) | `ExecuteBegin`, `ExecuteCommit` |
| `cancel_queue_task` (devices.py:63-84) | `CancelRead`, `CancelCommit` |
| `_sync_monitor_db_worker` (main.py:19-47) | `MonitorRead`, `MonitorCommit` |
| process, clock, operator | `Restart`, `Age`, `DeleteCommand`, `DeleteDevice` |

Abstractions. Entries are numbered by `queued_at`, which is the start of the
inserting transaction, so `ExecuteBegin` takes the number and `ExecuteCommit`
makes the row visible. `last_seen` is `null`, `fresh` or `stale`, which is all
the monitor's comparison can tell. The poll's reading of the command row is part
of its last action; parameters and outputs are left out. `Flushed` is
SQLAlchemy's net change: a column set to the value that was loaded is not
written. Handlers of users other than these change nothing.

### AgentSystem

Adds to CommandQueue the two threads of each agent: the heartbeat thread
(`hb`), the worker thread (`worker`) and what they share (`current`, `event`).
`Register`, `Poll` and `Report` are the client's and the server's half of one
HTTP call; `Timeout`, `ReportTimeout`, `LateOffer` and `LoseReport` are its
failures. The wait for the event and its clearing are one action, `WakeUp`,
since nobody else waits for it; the reading of the task is another. What a
command computes is left out: it returns, raises an `Exception` (both are
reported), or raises a `BaseException` and ends the worker thread (`WorkerDies`).

### SecureSession

One client process (a backend or an agent) and the IoT server. Each thread of
the client makes calls one after the other; `call[c]` says where the call
stands. A session is a number, with the client's two counters (`sends`,
`recvs`), the server's two (`expects`, `replies`) and the lock (`holder`).
`wire` holds what has been sent and not yet read; a caller that times out leaves
its request there, so the server may execute it late. The constants tell the two
clients apart: `RetryDiscards` (only the backend drops the sessions after a
failed second attempt, secure_transport.py:156-158 against agents/main.py:214),
and `Diagnostic` (only the backend has the endpoint that makes a session without
the creation lock). Signatures, key agreement and decryption succeed or are
refused (`Refuse`).

`RequestChannel` leaves all of that out: a caller issues requests one after the
other, each is executed at most once, and ends with an answer after it was
executed, or with an error, which says nothing. In particular a request may be
executed after its caller was told that it failed, and after later ones of the
same caller, if a timeout has left it on the wire. The mapping is `issued <- [c \in Caller |-> call[c].k]`; executions
and outcomes are those of SecureSession.

### SecureFetch

The browser runs one task at a time and drains its microtasks in between:
actions of events are disabled while a call is `Ready`. Promises that the module
keeps are named by whoever made them. `config` is the call whose fetch gave
`configPromise`, and `body` says what became of each `response.json()`: the
promise is kept when the backend has answered (`ConfigAnswered`), while the body
is read, or found to be cut off or no JSON, by a later event (`ConfigRead`,
`ConfigCut`). `handshake` names the session that `handshakePromise` will give,
including one whose promise has failed, since the code keeps that too. `tail` is
the call whose promise is `requestQueue`. `after` is the call waited for: the one
that fetched the configuration, and then the one before it in the chain. `clears`
and `overlapped` are history, for the properties only.

### Enrollment

One device name, several key pairs. A token is named by its key, as the launcher
generates them together. The clock counts half seconds, so that the code's
`int(time.time())` truncates. `used[k]` is the moment at which Valkey forgets
the token's use. The row of the device starts absent, or without a key (from
plaintext mode). The clocks of the two servers and of the launcher are taken to
agree.

### Handshake

No state: the functions of `security/encoding.py`, `crypto.py` and
`service_handshake.py`, and how the IoT server extends the trusted keys by the
one in a device's row. The other modules say when the messages travel and take
"it is accepted" for one condition; this one says what an end knows when it
accepts. Bytes are kept where the code concatenates them, since whether two
different transcripts, nonces or associated data could come out as the same
bytes is a question about lengths. The primitives are ideal: a signature is a
record of key and bytes, a ciphertext one of key, nonce, associated data and
body. `MCHandshake` gives the constants small values (bits for bytes, widths of
a few) and evaluates each theorem's statement over all small inputs as an
assumption.

### Accounts

| Code | Actions |
|---|---|
| `register`, `login`, `read_current_user` (routers/auth.py:23-57) | `Begin`, `Work`, `Insert` |
| `get_current_user` (auth.py:107-167) | `CheckToken` |
| `enforce_rate_limit` (rate_limit.py:37-68) | `ComputeKey`, `Increment`, `Expire`, `Refuse`, `Unavailable` |
| clock and Valkey's expiry, backend process | `Advance`, `Restart` |

Each thread serves a request, bucket after bucket (`todo`). The clock counts
`Tick` parts of a second and the code whole seconds; the clocks of Valkey and of
the backend are taken to agree. A failure of Valkey may or may not have done what
was asked. `arrivals` and `admitted` are history and count what arrived in a
window and was let past before the window ended. The loser of two concurrent
sign-ups runs into the UNIQUE column and gets a 500, which the code does not
handle. The constants leave the numbers open, because code and documentation
differ on them: sign-up allows 20 and 10 by default in rate_limit.py:78-79
against 10 and 5 in README.md:79-80. In secure mode requests come to the inner
application from one address, which is `Ip` with one element.

### Dispatch and ExecutionForm

`Dispatch` has the requests of `execute_any` to the IoT server one by one
(`ListDevices`, `ReadQueue`, `Execute`); in between others submit, agents work
and devices change status (`Others`, `StatusChanges`). The log is
CommandLog's, so the environment is what CommandQueue is shown to implement.
`slack` is history: by how much the loads that were read may be off, from others'
changes since the first and from active entries below the 50 that are listed
(`Limit`). Nothing is tried twice.

`ExecutionForm` adds the browser's side: `calls` is the queue of `secureFetch`,
oldest first; `overlap` says that calls may overtake each other, which they may
with secure mode off, and once a failure has replaced the queue (SecureFetch
models why). `watched` and `told` follow one entry, any, for the property.

## 3. The runs

| Run | Checks | Bounds |
|---|---|---|
| `queue_safety` | `TypeOK`, `CancelledNeverOffered`, `DispatchInOrder`, `IInv`, `ImplementsCommandLog` | 2 entries, 2 threads, 1 restart, deletable device and command |
| `queue_progress` | `FairAgentsSettle`, `PollingAgentComesBack`, `StaleGoesOffline` | 1 entry, 2 threads, 1 restart |
| `queue_skipped` | finds `DeletedCommandIsSkipped` violated | 2 entries, one command deleted |
| `device_silent` | finds `SilentGoesOffline` violated | no entry |
| `agent_runtime` | `AgentTypeOK`, `WorkerOwnsTask`, `NoLostWakeUp`, `RunsOnlyStarted`, `AgentHonoursServer`, `LivingWorkersSettle`, `TaskIsReleased` | 2 entries, 1 thread, a crash or the end of a worker, a restart |
| `session_backend` | `TypeOK`, `DispatchedOnce`, `NoSeqReuse`, `StoredInStep`, `FailuresBounded` | 2 threads with 2 calls each, 4 sessions, a fault, a restart |
| `session_agent` | `ImplementsChannel`, `EveryCallReturns` | 2 threads with 2 calls each, 5 sessions, a fault, a restart |
| `browser_page` | `TypeOK`, `NoSeqReuse`, `HandshakesBounded`, `CallsTakeTurns`, `FailuresBounded`, `EveryCallSettles` | 3 calls, a logout, a fault, a restart |
| `browser_order` | finds `ProcessedInSendOrder` violated | 3 calls, a logout |
| `enrollment_tokens` | `TypeOK`, `TokenUsedOnce`, `KeyNeedsToken`, `RegisteredComesBack` | 2 keys, 2 threads, 3 seconds, a fault, a restart; also MCHandshake's assumptions |
| `accounts_signup` | `TypeOK`, `AdmittedInWindow`, `SuccessMeansLogin`, `RefusalJustified`, `RetryAfterHonest` | 2 threads, 3 requests, 1 email, 3 passwords, 2 seconds in halves, a fault |
| `form_dispatch` | `TypeOK`, `ChosenLeastLoaded`, `ShownGrows` | 2 devices that list 1 entry each, 2 entries, 2 waiting calls, a change of status |

**Queue.** `ImplementsCommandLog`: whatever the interleaving, the status column
of `v_command_log` follows absent, queued, running, done or error, or queued,
cancelled; final values stay. `CancelledNeverOffered`: the select of a poll and
the commit of a cancellation may cross, and the primary key of
`command_executions` makes one of them fail. `DispatchInOrder`: entries of a
device start in the order of `queued_at`, each after the one before was settled,
whatever polls overlap because an earlier one timed out. It needs execute
handlers that do not overlap, and they do not: `execute_command` is `async`, has
no `await`, and runs on the one event loop of the server, which secure mode's
in-process client (server-iot/app/routers/secure.py:59) reaches as any other
request does. `StaleGoesOffline` and `PollingAgentComesBack`: the
monitor's stale read does no lasting harm in either direction. Entries of
different devices meet only in the threads they compete for, so one device
suffices; two entries are needed for order and for a task offered to a busy
agent, two threads for every pair of handlers to cross.

**Agent.** `AgentHonoursServer` shows that the agents are among those CommandQueue
assumes, so that all that is checked and proved of it holds of the whole system.
`WorkerOwnsTask` and `NoLostWakeUp` are about the hand-over between heartbeat and
worker. `LivingWorkersSettle` and `TaskIsReleased`: lost answers, a crash while a task is
run and a restart of the server only delay the result. Both name their exception:
a command that raises `SystemExit` ends the worker thread (agents/main.py:656)
while the heartbeat goes on, and the agent then takes one more task that nobody
works off. One thread of the server suffices, as `queue_safety` crosses handlers
and `AgentHonoursServer` carries its results over.

**Sessions.** `DispatchedOnce`: the second attempt never repeats a request that
was executed. `ImplementsChannel` says it of every step, and that calls are
concluded once and in the order they are made. `StoredInStep` and
`FailuresBounded`: what a fault puts out of step is dropped before it fails calls
that come later, even though threads wait for the lock of the same session and a
discard drops newer sessions too. Both are about the backend: an agent keeps the
session that its second attempt has made when it fails on it (agents/main.py:214),
and the call after that fails too. The bound of `FailuresBounded` is one failure
of each thread for each fault and each restart, and once more after a restart for
each thread that serves the diagnostic endpoint: such a thread may have been
answered before the restart and store its session, which the server has
forgotten, after the others have dropped theirs. A bound without that term holds
in this run, whose bounds leave too few calls; with three threads at the endpoint
and two others, one restart fails six calls.
`EveryCallReturns`: the creation lock, the session lock and the discard cannot
block each other. Two threads give every crossing of two calls; a second call
each gives a call after the failure. Four and five sessions are enough that the
bound stops no call in the agent's run; in the backend's run the diagnostic
endpoint uses up what the calls leave.

**Browser.** `CallsTakeTurns`: calls made together all succeed if nothing is
lost. `FailuresBounded`: a fault fails two calls at most of those made one at a
time, unless it leaves a rejected promise behind (`Wedged`). That happens in two
ways: a handshake fails, as `handshakePromise` is reset only by one that succeeds
(secure-fetch.ts:157), or the body of a configuration cannot be read, as
`configPromise` is set before it is (secure-fetch.ts:84). Every later call of the
page then fails at once, until logout or a reload; without the exception the run
finds three calls failed by one fault, in either way. `EveryCallSettles` says so
of all calls at once: each is made once, so if again and again none is under way
then each settles. `HandshakesBounded`: a handshake that ends after a clear does not
make others start. No call makes two handshakes, so 3 sessions never bind.

**Enrollment.** `TokenUsedOnce` covers overlapping retries and the second in which
the token expires. `KeyNeedsToken`: a restoring registration does not undo a
rotation that committed meanwhile. `RegisteredComesBack`: once the key is
committed, the agent needs no further token. A device that was deleted is refused
before any of this (agent.py:136-140), which is left out. The converse is not so:
the token is spent before the commit, and if the commit fails the agent is shut
out until a new token is issued.

**Accounts.** `AdmittedInWindow`: two threads increment and expire one counter in
any order, an expiry is renewed late, and Valkey forgets it; still no window lets
more than its limit past. `RefusalJustified`: a counter left without an expiry by
a failure outlives its window, but as the window's number is part of the key it
refuses nobody later. `RetryAfterHonest`: `Retry-After` is rounded to the nearest
second, so it may fall short by less than half of one, and where there is no
expiry yet it is the whole window. `SuccessMeansLogin` needs two sign-ups with
one email and different passwords, the reason for three requests (two sign-ups
and one more) and two accepted passwords. Limits of 1 and 2 make the first and
the second request over the limit differ. The windows of sign-up are one second
long, and the run sees two of them begin; those of login and of tokens are two, so
that `Retry-After` takes two values. The theorem holds for every window.

**Dispatch and form.** `ChosenLeastLoaded`: the device chosen is least loaded up
to what changed meanwhile; a device with more active entries than are listed is
mistaken by what is not listed, which `Limit` of 1 makes happen with two entries.
`ShownGrows`: of one entry, the form never shows an earlier status after a later
one while the queue of calls is kept. What is not so, and not claimed: where calls may
overtake each other an earlier status can come back; when a new
command is submitted, a late answer about the old entry replaces it on the
screen, and if that answer is final it ends the polling of the new one; a
cancelled entry is polled for ever (`cancelled` is not among the final states of
command-execution-form.tsx); and polls pile up behind a slow call.

`CHECK_DEADLOCK FALSE` is in every configuration but that of `form_dispatch`,
because the bounds on entries, calls, faults and restarts end the behaviours;
where entries are used up, the form can still fail a submission or poll.

### Findings

- `queue_skipped`: an entry whose command was soft-deleted is logged as skipped
  (agent.py:253) but stays the head of the queue, and nothing behind it is ever
  dispatched.
- `device_silent`: a device that registers and never polls keeps `last_seen`
  NULL, which no comparison finds older than the threshold; it stays online.
- `browser_order`: a logout resets `requestQueue` while calls chained on it go on.
  Two chains then use one session at once, against the strict send order that
  `SECURITY.md:117` requires, and one of them is refused.

### Fairness

- `ServerFairSpec`: a thread that has a request goes on with it (uvicorn's
  thread pool), and the monitor loop never ends: it catches what a pass raises
  (main.py:50-72).
- `FairSpec` of CommandQueue adds that agents poll and report, and
  `FairAgentsSettle` states it as a premise.
- `AgentFairSpec`: both loops of an agent run for ever, and it registers again
  after a failure, if need be in a new process (`restart: unless-stopped`,
  docker-compose.agents.yml:31). Its calls compete for threads and can time out,
  hence strong fairness: an agent that asks again and again is served once.
  Users, operators, crashes and restarts are not fair.
- `FairSpec` of SecureSession: threads go on, the server answers what is waited
  for, and a lock is not granted to others for ever (strong fairness; Python's
  locks promise no order, but each thread here makes finitely many calls).
- `FairSpec` of SecureFetch: the event loop runs, messages that are waited for
  are answered, or the fault of their loss is reported. Browsers have no
  timeout of their own; the proxies and the 10 s timeout of the backend's local
  client (backend/app/routers/secure.py:35) are what ends a call.
- `FairSpec` of Enrollment: requests are served, and an agent's registration is
  not for ever the one without a thread. Timeouts are bounded by `MaxFault`.

## 4. The proofs

`CommandQueue_proofs` proves, for any sets of devices, commands and threads, any
number of entries and restarts, from `CommandQueueAssumption` alone:

| Theorem | Statement |
|---|---|
| `TypeCorrect` | `Spec => []TypeOK` |
| `Invariance` | `Spec => []IInv` |
| `CancelledNeverOfferedHolds` | `Spec => []CancelledNeverOffered` |
| `DispatchInOrderHolds` | `Spec => []DispatchInOrder` |
| `Refinement` | `Spec => ImplementsCommandLog` |

None of the three safety properties is inductive: they follow from what a
handler still knows when it commits, some queries after it looked. `IInv` says
just that. `Knows(r)`: a poll that has selected an entry without an execution row
knows that the row is committed and its device's, and that every earlier entry
is settled, but not that it is still without an execution row; a poll that saw
one started knows that it still is; a callback and an answer under way are about
a started entry. `RowsInv` is what the foreign keys give, `OfferedInv` that
agents hold started entries only, `ExecuteInv` that an entry being inserted is in
the hands of one thread. The proof has a lemma for each action that writes the
tables, and one, `FrameInv`, for all that do not. `Refinement` then shows that a
step changes the log of one entry at most and by a move of CommandLog. TLC checks
`IInv` in `queue_safety`.

`AgentSystem_proofs` proves, from the same assumption and for any number of
crashes:

| Theorem | Statement |
|---|---|
| `AgentInvariance` | `AgentSpec => [](TypeOK /\ AgentInv)` |
| `AgentTypeCorrect` | `AgentSpec => []AgentTypeOK` |
| `AgentsHonourServer` | `AgentSpec => AgentHonoursServer` |
| `WorkerOwnsTaskHolds` | `AgentSpec => []WorkerOwnsTask` |
| `NoLostWakeUpHolds` | `AgentSpec => []NoLostWakeUp` |
| `RunsOnlyStartedHolds` | `AgentSpec => []RunsOnlyStarted` |

`AgentsHonourServer` says that every step of server and agents is a step of
CommandQueue or leaves its variables alone; with it, the theorems about the queue
hold of the whole system, and `RunsOnlyStarted` follows from what CommandQueue's
invariant says of an entry that was handed out.

`SecureSession_proofs` proves, from `SecureSessionAssumption`, for any number of
threads, calls, sessions, faults and restarts, of the backend's kind and of the
agent's:

| Theorem | Statement |
|---|---|
| `SessionTypeCorrect` | `Spec => []TypeOK` |
| `NoSeqReuseHolds` | `Spec => []NoSeqReuse` |
| `DispatchedOnceHolds` | `Spec => []DispatchedOnce` |
| `StoredInStepHolds` | `Spec => []StoredInStep` |
| `FailuresBoundedHolds` | `Spec => []FailuresBounded` |
| `ChannelKept` | `Spec => ImplementsChannel` |

The invariants come in layers, each inductive relative to those before it:

- `SeqInv`, with the types, gives the first two: whoever has allocated a number
  holds the session's lock until the number has been advanced, and every request
  under way has a number below the next one of its session.
- `OnceInv` gives the third. A call is `Unserved` before it sends, and again after
  an answer that the server does not have its session; it then has no request
  under way and none was dispatched, and only such a call sends. So of each call
  at most one request is under way, none that was dispatched is, and every other
  failure ends the call, although its request may still be read.
- `BirthInv`: a session that is being made is known to its maker alone, and all
  its numbers are zero.
- `StoredInv`: for the backend, a stored session that the server knows is `InStep`
  (at rest, or with one exchange under way that is at one known place) or `Doomed`:
  a thread has failed on it, or has been given an answer that it will fail on, and
  drops all sessions before it ends. `GoodStep` and `FaultStep` say which steps
  lead from one to the other.
- `Charged`, with `MakerInv` (whoever makes a session under the creation lock is
  alone in it), is a potential: failures so far, plus the calls that are bound to
  fail (`AtRisk`), plus one for every thread for each diagnostic handshake that is
  about to store a dead session (`DeadPending`), stay within the bound. A fault or
  a restart raises the bound by as much as it can add to the rest; every other
  step only moves what has been paid for.
- `ToldInv`: the outcome of a request is open exactly while its call is under way.
  With `OnceInv` it makes each step one of RequestChannel, or none that the
  callers see.

`SecureFetch_proofs` proves, from `SecureFetchAssumption`, for any number of calls,
sessions, logouts, faults and restarts:

| Theorem | Statement |
|---|---|
| `TypesHold` | `Spec => []TypeOK` |
| `NoSeqReuseHolds` | `Spec => []NoSeqReuse` |
| `HandshakesBoundedHolds` | `Spec => []HandshakesBounded` |
| `CallsTakeTurnsHolds` | `Spec => []CallsTakeTurns` |
| `FailuresBoundedHolds` | `Spec => []FailuresBounded` |

`Inv` has the types, the messages and whoever waits for their answers, and counts
handshakes against clears; the first three follow from it. `TurnsInv` is about
pages where nothing went wrong: the chained calls have an order in which they take
turns, so a session is at rest or has one request under way, at one known place.
`ChargeInv` is about calls made one at a time: the configuration that a call
awaits is the one that is kept (`ConfigOne`), so that a call that fails for it
fails in a page that is `Wedged`; every fault pays for two failures, and `Risk`
counts those it has yet to cause, two while an answer is lost and one while the
ends of the session are out of step.

`Handshake_proofs` proves, from `WireAssumption` (fixed-width numbers are
injective, XOR cancels, the two directions differ):

| Theorem | Statement |
|---|---|
| `TranscriptUnambiguous` | transcripts with equal bytes are equal |
| `NonceFollowsNumber` | under one base, different numbers give different nonces |
| `ClientAgrees`, `ServerAgrees` | an end that accepts has the other's transcript and keys |
| `DeviceAgrees` | an agent's session is with the key of the device's row, under its name |
| `EnvelopeKeepsItsPlace` | an envelope opens only in its session, direction and position |

Eleven fields are concatenated and eight of them have a length of their own in
front; the proof takes the bytes apart from the left, one field at a time.
`NonceFollowsNumber` carries what `NoSeqReuse` says of numbers over to nonces:
requests of a session that are on their way at the same time have different ones.
That the primitives are ideal is an assumption the definitions make and
no theorem discharges.

`Accounts_proofs` proves, from `AccountsAssumption`, for any number of threads,
requests and faults and any limits and windows:

| Theorem | Statement |
|---|---|
| `AccountsTypeCorrect` | `Spec => []TypeOK` |
| `AdmittedInWindowHolds` | `Spec => []AdmittedInWindow` |
| `SuccessMeansLoginHolds` | `Spec => []SuccessMeansLogin` |
| `RefusalJustifiedHolds` | `Spec => RefusalJustified` |
| `RetryAfterHonestHolds` | `Spec => RetryAfterHonest` |

`AdmittedInWindow` is not inductive: nothing in it says that a counter is as
large as the number admitted. `WindowInv` does, as long as the key's window
lasts, and adds that an expiry is never before the end of the window: whoever
sets it saw the window begin (`Windows`), and sets it a whole window ahead. The
same lemma shows that after the window nobody new is counted as admitted in it.
The two action properties need the other direction: `ArrivedInv` says that a
counter and those who are about to increment it together never exceed what
arrived in the window, `DeadlineInv` that an expiry lies ahead, by a window at
most.

`Enrollment_proofs` proves, from `EnrollmentAssumption`, for any number of keys,
threads and faults, any lifetime and any time that passes:

| Theorem | Statement |
|---|---|
| `EnrollmentTypeCorrect` | `Spec => []TypeOK` |
| `TokenUsedOnceHolds` | `Spec => []TokenUsedOnce` |
| `KeyNeedsTokenHolds` | `Spec => KeyNeedsToken` |

`UseInv` says that the use of a token is remembered until the token has expired:
the time to live is counted from a second that began before the clock's moment.
`CommitInv` says that a registration about to write another key than it saw has
had its token accepted, and `AgentInv` that only issued keys register.

`ExecutionForm_proofs` proves, from `DispatchAssumption` and `FormAssumption`, for
any devices, entries, lengths of lists, calls and changes by others:

| Theorem | Statement |
|---|---|
| `FormTypesHold` | `Spec => []TypeOK` |
| `ChosenLeastLoadedHolds` | `Spec => []ChosenLeastLoaded` |
| `ShownGrowsHolds` | `Spec => ShownGrows` |

`SlackInv` bounds by `slack` how far a load that was read is from what the device
has now (`Gap`), and how much farther for one device than for another: what others
do to one entry changes the load of one device. For `ShownGrows`, `FormInv` says
that what is shown is a past status of the entry, that every answer under way is
one too, and that while the calls keep their order only the oldest has an answer,
no older than what is shown. `FormAssumption` says that the bound on calls is a
number and that the form's failure message is none of the model's other values.

Only model-checked is liveness, which is out of the prover's reach:
`FairAgentsSettle`, `PollingAgentComesBack`, `StaleGoesOffline`,
`LivingWorkersSettle`, `TaskIsReleased`, `EveryCallReturns`, `EveryCallSettles` and
`RegisteredComesBack`. Their counterparts in safety are proved: that no wake-up is
lost, that agents honour the server, that nobody is refused without cause. That
the three violated properties fail is shown by TLC's counterexamples.

## 5. The plan

What is left, the most important first.

1. An abstract specification that Enrollment implements: a registry that holds at
   most one key of a device and changes it only for a token not used before.
2. Lemmas for liveness that are within reach: for each leads-to property, that the
   helpful actions make progress by a well-founded measure (a step of a call never
   raises it); fairness and `ENABLED` stay with TLC.
3. Sanitization of parameters, if its recursion over values can be stated as a
   function over a bounded set of them.

## 6. Not modelled

- The insides of signatures, key agreement, AEAD, key derivation and password
  hashing: library calls, taken to be ideal. base64 and JSON around them, and the
  browser's copy of the same encoding (`frontend/app/lib/secure/crypto.ts`).
- Contents of commands, parameters and results: data only. Their sanitization
  (`server-iot/app/sanitization.py`) converts single values, well within reach of
  unit tests.
- The Python environment a command runs in (`agents/main.py:443-540`).
- Settings, grants and roles, audit triggers, and launch scripts other than the
  issue of tokens: checks made once at start, or writes nothing reads back.
- The read-only routes of both servers, and the dashboard's pages other than the
  form: they show the answer that came last.
- Growth of the session stores on the servers: nothing is removed from those of
  backends, agents and browsers, for which the code states no bound to check.
  First enrollments have a store of their own, whose old sessions every request
  removes (server-iot/app/routers/secure.py:552).
- More than one process of a server: the repository deploys one of each, and the
  session stores say so (`security/session_store.py:26`).
