# A verification project for Goddess AI (ai-modrator)

TLA+ models of the program under `src/app`, the TLC runs that check them on small instances, and
theorems about them that TLAPS has proved for every value of the constants. Every definition is
translated from the code; `PROJECT.json` maps each one to the lines it stands for.

1. [The system](#1-the-system)
2. [Modules and how they correspond to the code](#2-modules-and-how-they-correspond-to-the-code)
3. [What the runs check](#3-what-the-runs-check)
4. [Fairness](#4-fairness)
5. [What is proved](#5-what-is-proved)
6. [Where the code and its documents disagree](#6-where-the-code-and-its-documents-disagree)
7. [What is not modelled](#7-what-is-not-modelled)
8. [Plan](#8-plan)

## 1. The system

A FastAPI process that joins YouTube live streams, reads their chats, moderates, answers, runs
games and keeps an economy of coins. In the default deployment (`APP_SERVICE_MODE=unified`) one
process does everything on one asyncio event loop; `api` and `worker` split it in two that share
PostgreSQL and Redis. So there are three sources of interleaving: tasks between two awaits,
transactions of the database, and processes on one Redis.

```
 HTTP API, dashboard ──> StreamService ──> WorkerManager ──> StreamWorkerSession (a task per stream)
 channel coordinator ──>      │                                   │ messages
                              │ rows                              v
                              v                            chat orchestrator ──> event bus
                         PostgreSQL <── ledger, store <── intelligence worker <──────┘
                       (and games, commands, reviews)         │ YouTube calls
                                                              v
              YouTubeClient: quota manager (Redis) -> key pool / OAuth -> breaker -> retries
```

| Component (code) | State | Operations | What is hard | What makes it correct | Modelled |
|---|---|---|---|---|---|
| YouTube quota manager (`youtube/quota.py`) | a dictionary of reservations and a lock per process, a Redis counter per day | reserve, consume, release | awaits on Redis under a lock, two processes on a counter, midnight, crashes, failures between mark and charge | the budget is kept; a reservation is charged once or not at all | `Quota` |
| Key pool (`youtube/key_pool.py`) | status, cooldown, errors, usage of a key | take, success, error | late answers for a key whose status has changed | nothing on offer before its cooldown is over; every key comes back | `ApiKeyPool` |
| Breaker, retries (`utils/`) | state, counters, deadline | can_execute, record_* | outcomes of calls admitted in another state | state and counters agree | `CircuitBreaker` |
| YouTube client (`youtube/client.py`) | the request under way | `_request` | a dozen ways to fail between reservation and settlement; cancellation | what succeeds is charged once, what is turned away is free, every request ends | `YouTubeClient` |
| Coalescers (`youtube/coalescer.py`, `ai/coalescer.py`) | futures by key | execute | a cancelled leader or follower cancels a future that is everybody's | everyone who asks is answered | `SingleFlight` |
| Ledger (`economy/`) | accounts, transactions, entries | earn, spend, transfer | READ COMMITTED, a balance written as an absolute value, accounts opened on the fly, deadlocks | no lost update, no double application, no overdraft | `Ledger` |
| Store (`store/`) | items with stock, inventories | purchase_item | payment, stock and grant in several statements | paid if and only if delivered | `Store` |
| Stream workers (`workers/`) | a table of worker objects, each with a state, a task and a stop event | start, stop, restart, stop_all, the loop | `stop()` and the task write the same state, timeouts, swallowed cancellation, replaced objects | no worker is lost, a stop is obeyed, a session can be started again | `Worker` |
| Stream bootstrap and control (`services/stream_service.py`, `api/routes/dashboard.py`) | rows of `stream_sessions`, a Redis lock per video, an asyncio lock per stream | bootstrap, connect, disconnect, restart | three kinds of lock, all given up before the commit | every call returns; rows and workers agree | `Streams` |
| Monitored channels (`services/monitored_channel_coordinator.py`) | rows of channels, a lease in Redis per channel | cycle, check now, edit | a lease with a TTL that is no one's, a list older than the rows, failures in and out of the check | checks hardly overlap, a disabled channel is left alone, no channel is forgotten | `Discovery` |
| WebSub notifications (`api/routes/webhooks.py`, `youtube/websub/`) | marks in Redis, discovery events | receive | marked before it is stored; repeated and concurrent deliveries | what is acknowledged is stored | `WebSub` |
| Chat ingestion (`youtube/chat/`) and event bus (`events/bus.py`) | a bounded queue, ids seen, tasks of handlers, a Redis channel | read a page, enqueue, consume, publish, listen | pages overlap, the queue drops, the id is marked before the message is processed, events come back to the sender | a message is handled once, or lost in a way one can name | `Chat` |
| Intelligence worker, AI router and budget (`workers/intelligence.py`, `moderation/engine.py`, `ai/`) | a task per message, counters in Redis and in memory | the pipeline, the budget | check-then-act over two awaits, a counter that lapses | the budget is passed by no more than what is in flight | `Intelligence` |
| Games and XP (`games/`, `engagement/`) | games, profiles, cooldowns in memory | start, answer, award | two right answers at once; checked before an await and recorded after it | one payment, paced awards | `Engagement` |
| Commands (`commands/`, `api/routes/commands.py`) | custom commands, cooldowns | use, add, edit, permissions, delete | rows loaded before others commit, two ways to write them | no answered change is lost | `Commands` |
| Moderation policy (`moderation/policy.py`, `trust.py`) | – | decide | boundaries of layers | graver never comes off better | `ModerationPolicy` |
| Human review (`moderation/hitl`, `moderation/actions.py`) | tickets, feedback, actions taken | open, approve, deny | decisions read before they are written, an action carried out before the commit | carried out once; approved means set about | `Review`, `ModerationActions` |
| Health and incidents (`services/health_monitor.py`, `services/incidents.py`) | counters of a monitor, incidents | cycle, report, change of status | found without a lock, two processes, the database is one of the patients | one active incident per process and cause; none missing | `Incidents` |
| Discord operations log (`discord/operations.py`) | cooldowns, a bounded queue | send, drain | posts and drains overlap, the queue is full | few alerts are lost, and one can say how many | `OpsLog` |
| Live updates (`api/sse.py`) | history, a bounded queue per client | emit, connect, replay | replay and queue overlap | in order, no repetition, no gap | `LiveUpdates` |
| Schema migrations (`alembic/`, `db/session.py`) | tables, columns, the version | upgrade, create the missing | crashes between two statements, databases with a legacy version, failures that are logged and passed over | who comes up upgraded finds the schema of its models | `Migrations` |
| WebSub subscriptions, OAuth, persona, locks and cache, feature flags, dashboard | mostly none | – | – | – | no (section 7) |

The properties follow the hazards: `PROJECT.json` lists forty, each at the line where it bites,
with the properties that would catch it, or a note where none does yet.

## 2. Modules and how they correspond to the code

A step of a model is what the code does from one suspension to the next: between two awaits that
can really suspend (network, Redis, a database statement, an `asyncio` lock that is taken). What
lies between is one action. Time is the time *left* (cooldowns, the breaker) or not there at all
(a timeout may strike at any moment).

Operators whose comment begins with "Fault" are slips that the code does not make: a guard dropped,
a lock not given back. Nothing uses them. Each is put in the place of the definition that follows
it to see that the property it aims at does fail, so that no property holds for lack of anything
that could break it; `PROJECT.json` ("mutants") says which belongs to which property.

### YouTube access

- **`QuotaUnits`** – the sum of the costs of a set of requests as the cardinality of a set of units,
  which needs no recursion and which the provers can reason about.
- **`Quota`** (`quota.py`) – `reservation[r]` is the entry of the dictionary, `call[r]` the await a
  call is at, `counter` the Redis keys, `seen` what `reserve` has read. `reserve` is `ReserveRead`
  (lock, GET) and `ReserveAccept`/`ReserveReject`; `consume` is `ConsumeMark`, `ConsumeIncrby`,
  `ConsumePop` with Redis between them; `Release` is `release_if_failed_before_request`; `Abort` is
  any exception or cancellation at an await. `Midnight` and `Restart` are the environment. `spent`
  and `billed` are history, never read by a guard.
- **`QuotaBudget`** – what callers may rely on: set aside, charge, give back, within a limit.
- **`ApiKeyPool`** (`key_pool.py`) – each method is one step, as it runs under a lock without an
  await. The callers hold a key over all their attempts, so answers come late. The backoff is
  computed with its real formula; `errors` is counted up to `MaxErrors`, from which on every
  cooldown is at its cap (the `ASSUME` says so).
- **`CircuitBreaker`** (`circuit_breaker.py`) – three methods, three actions, and the clock.
- **`YouTubeClient`** (`client.py`, `retry.py`) – `_request` with the three modules as instances on
  shared variables, so that every step of theirs happens at a place in the request. `pc` is the
  await; the attempts, the settlement in the `except` clauses, the exceptions by kind (a
  `YouTubeAPIError` is charged, any other exception refunded, `CancelledError` neither). `attempt` and `result`
  tell what was sent and what came back of it: `sent` is a request that went out and whose answer was lost.
- **`YouTubeConsumption`** – the client beside YouTube's own account of it.

### Economy

- **`Ledger`** (`ledger.py`, `economy_repo.py`) – the three operations have one shape: look up the
  key, read and lock the payer, read and lock the payee, insert the transaction, write, commit. A
  viewer's row is read `FOR UPDATE`, the row of the mint or sink is not; both are written as
  values computed from what was read. Commits between the read of the mint or the sink and the write
  are lost there, but only in one direction (`NoCoinIsInvented`). Unique violations, deadlocks (the database breaks a cycle) and
  a death at any statement are actions.
- **`AtomicLedger`** – the same operations in one step each; `Ledger` implements it as seen by the
  viewers (`KeepsBooks`).
- **`Store`** (`store/service.py`, `store_repo.py`) – `purchase_item` around the ledger's actions:
  the reads of item and limit, the spend, the grant, the one commit. The ledger's other operations
  run beside the purchases. What an ORM session has already loaded is not read again (`ownedRead`).

### Streams

- **`Worker`** (`manager.py`, `session.py`, `stream_transport.py`) – `table` is `_sessions`; a restart
  puts a new object `w` in the table, and the old one lives on with its task. `state[w]` is written
  by `stop()` *and* by the task; `loop[w]` says where the task is, `told[w]` that the stop event is
  set or the task cancelled, `holder[w]` who is inside `stop()` with the object's lock. Every place
  where the loop assigns a state is an action (`LoopBegin`, `Resolved`, `Fail`, `GiveUpOrPause`,
  `Reconnect`, `Offline`, `Cancelled`, `Close`).
- **`Streams`** (`stream_service.py`, `dashboard.py`, the coordinator's join, the shutdown) – calls
  on the streams of one broadcast. `at[c]` is where a call is; `row` is what is committed, `rowLock`
  the row lock of an UPDATE that is not, `loaded` and `written` the value the ORM read and the value
  it has now: if they are equal there is no UPDATE. The bootstrap lock (a Redis key with a TTL that
  whoever finishes deletes), the control lock and the worker lock are given back where the code
  does so, which is before the commit. `stop_all` is one shutdown call for each session. A call that
  fails (`Abandon`) rolls back and gives up its locks; the database may fail at the end
  (`LoseTransaction`), and the worker that was started stays.
  Rows left by an earlier run of the process are initial states: nothing cleans them up
  (`reconcile_on_startup` is called by nobody).

### Monitored channels, notifications, start-up

- **`Discovery`** (`monitored_channel_coordinator.py`, the channel routes of `dashboard.py`) – a checker
  is the loop of a process or a request to check now; `at[p]` is its await, `todo[p]` what its cycle
  has listed, `lease` the keys in Redis, `queue` the order by the time of the last check. The row is
  read again at the beginning of a check (`Look`); the lease is taken (`TakeLease`), and deleted by
  whoever ends, be it his or not (`Unlock`). Failures inside the `try` give the lease up
  (`FailInside`), those outside end the cycle and leave the lease to its TTL (`FailOutside`). Any
  stream of the *creator* that runs in the process is taken for the one of the channel
  (`LookForActive`; coordinator lines 135–142): with two channels of one creator the second is not joined.
  `worker[c]` is the process in whose table the stream is, with an active row; the worker itself may be over, while
  the object stays in the table and the row ACTIVE, so that a worker that ends need not change it.
- **`WebSub`** (`webhooks.py`, `websub/dedupe.py`) – look-up and mark in Redis are one step (SET NX),
  then the row, the event, the commit. The commit belongs to the dependency that opened the
  session: the answer may leave before it, so an acknowledgement is possible from `PublishEvent` on. `heard` counts
  what was published.
- **`SingleFlight`** (both coalescers) – leader, followers, and the future they share, which anyone of
  them who is cancelled cancels.
- **`Migrations`** (`alembic/versions`, `db/session.py`, `Dockerfile`) – each revision as a list of
  statements, guarded as in the code by what tables there are when it begins; a database is what of
  the schema is there, and the version. SQLite keeps every statement, PostgreSQL all or nothing.
  `init_db_engine` upgrades again (`upgraded`: did that go through?) and makes what is missing, and comes up also when
  it fails to (`CreateFails`): a failure of `create_all` or of the statement of one table, which is tried a second
  time by itself, or of the creator's row is logged. The unique indexes that a
  revision makes only together with their table are lost if a crash falls between the two on
  SQLite, which is why `UpIsCurrent` asks for them, and for the creator, only where nothing failed before. In a database made
  by migrations `uq_feature_flags_key_creator_env` (0005, lines 95–100) stays beside what the models say.

### A message and what comes of it

- **`Delivery`** – what who wrote a message may rely on: it is taken once, and then handled, once, or
  known to be lost; a record in memory may be forgotten as a whole.
- **`Chat`** (`youtube/chat/`, `events/bus.py`) – readers with page tokens, a bounded queue for a
  process, one consumer that marks the id in Redis, publishes, and starts a task for every handler;
  over Redis the event comes to the other processes, and back to its sender, which ignores it. Redis
  is one for all, or a store in each process. `lost` is what was cut off after its mark. With two
  worker processes each has handlers, and each handles each message; the run has one worker process.
- **`Intelligence`** (`workers/intelligence.py`, `moderation/engine.py`, `ai/router.py`, `budget.py`) – a
  slot is a task with one message. The counters of the budget are read one after the other before a
  call of the model, and incremented one after the other after it; each has a second counter in
  memory which is read when Redis has none and which is never reset. A call goes to the models of the tier in turn
  (`Call`) until one gives an answer that can be used: `calls` counts the calls, `answers` what they were answered,
  that is what is paid for. A call without an answer means ALLOW. A message that was punished goes on to commands and points.
- **`Engagement`** (`games/engine.py`, `engagement/`, and the transaction around them) – reads take no
  lock; the UPDATE or INSERT that is flushed holds the row or the key. The cooldowns of points are in
  memory, are looked at before an await and noted after it, and are not rolled back. Two viewers
  who both answer right can both be paid: `MintedOnce` is per game *and* viewer. The points of a prize pass by the
  guard of the points for chatting (`games/engine.py:157`), and `PacedAwards` is of the latter only.
- **`Commands`** (`commands/engine.py`, `commands/admin.py`, `api/routes/commands.py`) – a request loads a row, flushes
  the columns it has changed, and answers after the commit.
- **`LiveUpdates`** (`api/sse.py`) – the history, the queue of a client, and the reader of a connection
  between two yields. The identifier of the greeting is not one of the history, so that a client that
  names it is sent no replay.

### Moderation and operations

- **`ModerationPolicy`** (`policy.py`, `trust.py`) – the layers as a function of two percentages and the
  strictness, and the trust modifier, which no code calls. The ladder is the one of the code, from
  which the documentation differs. FLAG opens no review.
- **`Verdicts`** – the policy as it is asked: one message after the other, of any severity, confidence and
  strictness. It is the state machine that `PolicyIsMonotone` is stated and proved of.
- **`ModerationActions`**, **`Review`** (`actions.py`, `hitl/service.py`, routes and chat command) – an
  approval reads the ticket, flushes its UPDATE (which takes the row lock), looks the action up,
  reserves it, carries it out and commits. The reservation uses `set(..., ttl=)`, which the in-memory
  client takes and the real one refuses with a TypeError (`ReserveRefused`), so that both are initial
  states. Of the actions only the deletion of the message asks YouTube for anything; a timeout and a ban are written
  to the log, and delete the message. Whether YouTube did it (`deleted`) the service does not learn, as `_execute_delete` swallows
  what is raised: `carried` counts actions that were *gone through with*. So a failed deletion never reaches the code
  that would make it possible again. `Fail` is a failure of the database, of Redis or of the caller's connection.
  Two moderators may both read PENDING, and the later UPDATE overwrites the status of the
  first; that the action is not repeated rests on the row lock alone. `expire_stale_reviews` and
  the override are called by nothing; the dashboard's route for resolving imports a module that does not exist.
- **`Incidents`** (`health_monitor.py`, `incidents.py`) – the monitors of several processes with three of
  the checks, the search for an active incident, the note or the new row, and operators who validate
  a status that may be stale when they write it. Two processes can each open an incident for one
  outage; a cycle that times out is CRITICAL and is not reported; without the database no incident is.
- **`OpsLog`** (`discord/operations.py`) – posts, suppression, the bounded queue that drops its oldest
  alert of whatever priority, and drains, which stop at the first that fails: one that was refused is queued again,
  one whose request raised is lost. In the repository only tests send alerts, and nothing drains.

## 3. What the runs check

All bounds are constants in the `.cfg` or in the MC module beside it. Most runs have several
*subjects*: components that share no variable, of which `MCInit` picks one and `MCNext` moves only
that one. A run is then the disjoint union of the state spaces of its subjects, and every property
is checked in the subject it is about (in the others its component rests in its initial state).

| Run | Subjects and bounds | Distinct states | Checks |
|---|---|---|---|
| `background` | *units*: 2 processes, 4 requests (costs 1, 1, 2, 2), limit 3, 2 days | 431 444 | `ProcessCap`: no process goes over the limit by itself; `ChargedAtMostOnce`; `NoChargeAfterRelease` |
| | *keys*: 2 keys, 2 callers, 2 attempts, cap 3 after three doublings | | `AvailableIsRested`; `CoolingKeyReturns` |
| | *channels*: a coordinator and an administrator, 2 channels of one creator, one expiry under a check of each, one failure, one edit | | `OverlapIsBounded`; `DisabledIsLeftAlone`; `EveryChannelIsChecked` |
| | *hub*: 3 deliveries of two notifications (one of an unknown channel), a mark lapses once | | `AckedIsStored` |
| | *schema*: SQLite, PostgreSQL from alembic or not; an empty or a legacy database; 2 restarts, one table at a time that fails to be made | | `UpIsCurrent` |
| `youtube_client` | *requests*: a read (1) and a write (2), limit 2, 2 keys, 3 attempts, a midnight, a breaker of threshold 1 | 165 208 | `AnswerIsCharged`; `TurnedAwayIsFree`; `NothingLeftHeld`; `BreakerAgrees`; `KeepsBudget`: the client's quota manager implements `QuotaBudget`; `EveryRequestEnds` |
| | *answers*: 4 callers, 2 keys of the coalescer | | `EveryCallerIsAnswered` |
| `store` | *purchases*: three purchases (two of one viewer, with one key) and a fee, stock 2, limit 2; *transfers*: a reward, a spend, two opposite transfers, an invalid one, a viewer without an account, a sink that is open, so that two spends read it together | 53 293 | `KeepsBooks`: `Ledger` implements `AtomicLedger`; `NoCoinIsInvented`; `OwnedIfPaid`; `EveryPurchaseEnds` |
| `streams` | 5 scenarios of two or three calls of nine kinds, 3 sessions (one may be left from before), 3 worker objects, error threshold 2, database failures | 140 030 | `NoOrphan`; `ActiveHasLoop`; `EndedIsFinal`; `StopMeansStopped`; `EveryCallReturns` |
| `moderation` | *review*: a ticket, two approvals of the same action (HTTP, chat), one with another, a denial; one restart; either Redis client | 558 813 | `CarriedOutOnce`; `ApprovedIsSetAbout`; `EveryVerdictEnds` |
| | *policy*: messages of every confidence with every strictness, compared over all degrees of severity and with four scores of trust | | `PolicyIsMonotone` |
| | *incidents*: monitors of an api and a worker process, 2 operators, 2 changes, one failure | | `NoSecondByTheSame`; `CriticalIsReported` |
| | *alerts*: 4 alerts of 2 kinds, one of them critical, 2 drains of two alerts each, a queue of 2 | | `LossIsBounded` |
| `messages` | *chat*: 2 messages, a worker and an api process, 2 readers, a queue of 2, one restart | 740 745 | `HandledOnce`; `DeliversOnce`: `Chat` implements `Delivery` |
| | *feed*: 5 events, a history of 3, a buffer of 2, 3 visits | | `FeedHasNoGap` |
| | *commands*: 8 requests on two names | | `NoChangeIsLost` |
| | *handlers*: 2 tasks, 2 messages, 2 models, limits of 1, one lapse | | `BudgetHolds` |
| | *games*: four messages at a time: a command for a game and two right answers of one viewer, beside a right answer of another, a second command, or a look at the level; time to 3 | | `PacedAwards`; `MintedOnce` |
| `exhausted_key`, `consumption`, `free_purchase`, `oversold`, `ended_row`, `upgrade` | as above or smaller | – | the first six disagreements of section 6: TLC finds each property violated |

What the less obvious properties say is written above each of them in its module. `messages` uses the
symmetry of like messages of games, and checks nothing but safety: `DeliversOnce` has no fairness. The type invariants (`TypeOK`, `ChatTypeOK`,
...) document the state of nearly every module; they hold in these runs too (TLC finds no violation
when they are added), and those of most modules with proofs are proved. They take no
place among the properties of the runs.

Some statements have a theorem (section 5) and no place in a run of their own: `MarkedIsHandled` (the half
of `DeliversOnce` that says nothing is forgotten, without the other's hypothesis), `SharedCap` and `DailyCap`,
`OneFlightPerKey` and `FollowersShareTheEnd`, `OverrunIsBounded`. TLC finds no violation of them either when they are
added to the run of their component, but of `DailyCap`: the run of the manager has two processes, which can pass it together.

Why these bounds are enough to be of interest:

- *units*: any two requests of the worker fit and three do not; the other process competes for the
  counter. Two days give one midnight at every await.
- *keys*: three errors take both backoffs through all their values up to the cap, as six do with
  the durations of the code. Two callers are needed for an answer that comes after the status has
  changed.
- *requests* has all three attempts and a midnight.
- *transfers*: two opposite transfers are the smallest ring of locks; the payee without an account
  makes two operations open it at once. *purchases*: two of one viewer (one key), a rival, and a
  payment elsewhere.
- *streams*: a scenario says which calls come in; they arrive and interleave in any order, beside
  the tasks of the workers. All pairs of conflicting kinds occur: a disconnect against a restart,
  two bootstraps with the one that ignores the lock, a shutdown against a restart, a disconnect
  against a reconciliation, two restarts. Three worker objects are as many as the calls of a scenario
  can make.
- *channels*: two channels of one creator are needed for one to be taken for the other, two checkers
  for a lease to be deleted that is another's, and an edit for a list that is older than the row.
- *hub*: the same notification twice, at the same time or after a lapse, and one that is not owned.
- *schema*: two restarts put a crash between any two statements of an upgrade that repeats one. One table that
  fails to be made (`MaxLosses`), or all of them at once, are the extremes; the theorem is of any.
- *review*: two approvals of one action are the race for it, the third and the denial race for the
  status; a restart empties the cache. *policy* is exhaustive.
- *incidents*: a process that opens an incident while another does, and an operator who resolves one
  while another moves it on. *alerts*: as many as the queue holds and two more, so that alerts that come in, one that is
  queued again and one that raises meet in a queue that is full.
- *chat*: a page that repeats a message to the other reader; a full queue takes two. *feed*: more
  events than the history and the buffer hold together with a reconnection at each point.
- *handlers*: two tasks between check and record; what a message needs the model for second sees what they left. With two models (`Models`) a
  call has no answer, the one it needs, or one more.
- *games*: two answers of one viewer in one game, in two games, and before the viewer has a row; right answers of two
  viewers in one game.
- *commands*: each pair of an add, an edit, a change of the role and a deletion, each twice where
  two of a kind conflict.

Deadlock is not checked, since in every run requests, messages, operations and calls are finite in number and the
system really comes to rest when all are over, hence `CHECK_DEADLOCK FALSE`; that nothing stops *before* is what
`EveryRequestEnds`, `EveryCallerIsAnswered`, `EveryPurchaseEnds`, `EveryCallReturns`,
`EveryVerdictEnds`, `EveryChannelIsChecked` and `CriticalIsReported` are for.

## 4. Fairness

Only weak fairness, and only of what the program does by itself:

- a request, a purchase or a call goes on when it can (the event loop runs what is ready; httpx gives
  up after 10 s, Redis after 3 s, `stop()` after 5 s, and PostgreSQL ends a deadlock);
- in the key pool, time passes, requests are answered and callers come back;
- the task of a worker goes on, with one exception: while it receives messages it need not do
  anything, since a chat may be silent, unless it has been told to stop (`Progress` in `Streams`);
- a checker goes on and its timer wakes it; Redis forgets a lease when nobody is under it, which
  it does after 45 s (`DiscoveryFairness`);
- a work in flight ends and who waits for it is woken (`SingleFlightFairness`);
- a verdict on a ticket goes on once it has come in (`ReviewFairness`), and so does an operator's
  change of an incident; the loop of a monitor goes on (`MCFairness` of `MCModeration`).

No fairness is assumed of failures, cancellations, midnights, restarts, edits or arrivals, nor of the expiry of
a lease that is in use. A call that waits for a lock is fair only as the action is: it goes on when
the lock is continuously free. That suffices because the calls of a run are finitely many.

## 5. What is proved

TLAPS has checked the following from the named assumptions on the constants (each an `ASSUME` of
the component's module, evaluated by TLC in the runs) and nothing else.

| Module | Theorem | Says |
|---|---|---|
| `YouTube_proofs` | `QuotaTyping`, `EachProcessCapped`, `NeverChargedTwice`, `ReleasedStaysFree` | `TypeOK`, `ProcessCap`, `ChargedAtMostOnce`, `NoChargeAfterRelease` for any processes, requests, costs and limit |
| | `ManyProcessesShareTheCap` | `SharedCap`: the counter of a day is at most the limit times the number of processes, for any finite set of them |
| | `OneProcessHardCap`, `OneProcessKeepsBudget` | with one process the daily counter stays within the limit, and `Quota` implements `QuotaBudget` |
| | `BreakerCorrect`, `PoolCorrect` | the breaker's state agrees with its counters; `AvailableIsRested`, and no cooldown exceeds the cap, for any thresholds, keys, callers and durations |
| `YouTubeClient_proofs` | `ClientTyping`, `AnswersAreCharged`, `NothingElseIsCharged`, `ExitsSettle`, `ClientBreakerAgrees` | `ClientTypeOK`, `AnswerIsCharged`, `TurnedAwayIsFree`, `NothingLeftHeld`, `BreakerAgrees` for the client with its manager, keys, breaker and retries |
| | `ClientKeepsBudget` | the client, too, implements `QuotaBudget` (`KeepsBudget`) |
| | `RetriesBoundTheBill` | `OverrunIsBounded`: what is left of the hard cap once retries are counted (section 6, 2), for any requests, costs and attempts |
| | `OneDoesTheWork`, `NobodyWaitsInVain` | `OneFlightPerKey`, `FollowersShareTheEnd` of the coalescer, for any callers and keys |
| `Economy_proofs` | `LedgerTyping`, `NeverOverdrawn`, `BooksAreKept` | `LedgerTypeOK`, `NoOverdraft`, and that `Ledger` implements `AtomicLedger` (`KeepsBooks`) |
| | `CoinsAreReal` | `NoCoinIsInvented`: the mint and the sink, read without a lock, count no coin that was not moved |
| | `StoreTyping`, `PaidIsDelivered`, `StoreKeepsBooks`, `StoreCoinsAreReal` | `StoreTypeOK`, `OwnedIfPaid`, and `KeepsBooks`, `NoOverdraft` and `NoCoinIsInvented` of the ledger under the store |
| `Streams_proofs` | `StreamsTyped`, `NoWorkerIsLost`, `RefusalHasAReason`, `EndStaysOnRecord`, `StopIsObeyed` | `StreamTypeOK`, `NoOrphan`, `ActiveHasLoop`, `EndedIsFinal`, `StopMeansStopped` for any sessions, workers, calls and error threshold |
| | `ServicesManageWorkers` | `Streams` implements `WorkerSpec`: the services do nothing with workers that arbitrary callers of the manager could not do |
| `Background_proofs` | `AcknowledgedIsStored` | `AckedIsStored` for any deliveries and lapses |
| | `ChecksSeldomOverlap`, `DisabledStaysAlone` | `OverlapIsBounded`, `DisabledIsLeftAlone` for any checkers, channels, failures, edits and expiries |
| | `ComesUpWithItsSchema` | `UpIsCurrent` for any number of crashes, restarts and failures, those to create tables included, and any width of the version column |
| `Messages_proofs` | `MarkedMessagesAreHandled` | `MarkedIsHandled` for any processes, readers and restarts, if every reader is in a process with handlers |
| | `MessagesAreHandledOnce` | `HandledOnce`, if one process has the handlers, wherever the readers are |
| | `ChatDelivers` | `Chat` implements `Delivery` (`DeliversOnce`), if one process has the handlers and the readers |
| | `FeedIsComplete` | `FeedHasNoGap` for any clients, visits, events and buffer sizes |
| `Handlers_proofs` | `BudgetIsKept` | `BudgetHolds` for any handlers, viewers, models and limits |
| | `AwardsKeepTheirPace`, `WinnersArePaidOnce` | `PacedAwards`, `MintedOnce` for any messages, viewers, durations and limits |
| | `ChangesStand` | `NoChangeIsLost` for any requests, names and texts |
| `Operations_proofs` | `NeverActedTwice`, `ApprovalIsNotIdle` | `CarriedOutOnce`, `ApprovedIsSetAbout` for any calls, actions and number of restarts |
| | `OneIncidentAtATime` | `NoSecondByTheSame` for any processes, operators and failures |
| | `LossesAreFew` | `LossIsBounded` for any alerts, drains and queue sizes |
| | `PolicyNeverCrosses` | `PolicyIsMonotone` of every message, for any scores of trust |
| | `PolicyKeepsItsOrder` | the same of the ladder itself for all numbers, not only percentages |

The arguments:

- **Quota.** `ProcessCap` is not inductive: `reserve` decides on a value it read before an await.
  `QuotaIInv` adds what the lock gives: one call at a time in a process (`OneCall`), what its entry
  is meanwhile (`EntryInCall`), and that what `reserve` has seen is no less than what its own process
  has charged today. For one process `SoleCounter` identifies the counter with what this process has
  charged; then the cap of the process is the cap of the counter, and the refinement follows. For several,
  `CounterIsTally` identifies it with the number of units charged, each of which is one of the process that
  charged it (`UnitsBounded`): a finite union of sets that are each no larger than the limit.
- **Breaker and pool.** `PoolInv` is the type together with the two properties; each method keeps it
  since the new status and cooldown come from the answer alone.
- **Client.** The theorems about the quota manager and the breaker are not proved again:
  `YouTubeClient_proofs` instantiates `YouTube_proofs` on the variables of the client, shows that a step
  of the client is a step of the manager or leaves it alone (`SameManager`, `QuotaMoves`), and cites them.
  What is left is to relate the place of a request to its reservation: `Reserved` says at
  which places the entry is held, consumed or popped, `Charged` what has been billed at each and for which outcome,
  and `AttemptsLeft` that a retry is due only while there are attempts. For the account of YouTube `Accounted` adds that no attempt
  is answered twice. It has no lower bound but for a success: a missing key or token is charged without an attempt,
  and a request whose last attempt is lost is refunded whatever was answered before.
- **Coalescer.** Who is on record for a key does the work for it, and nobody else does (`Recorded`); a future is
  awaited only while its owner works or once he has settled it (`Ridden`, `SettledByOwner`), so that who follows
  gets what the owner got, also if the owner is cancelled.
- **Ledger.** The row lock is everything: `ReadsHold` says that from the read to the end of the
  transaction the balance of a *viewer* is the one that was read; `KeysHold`, that whoever writes
  under a key is alone with it; `UnopenedEmpty` and `OpensOnlyMint`, that an account that is opened
  begins at nothing. A commit is then the atomic `Apply`, every other step a stutter. `NoOverdraft` is part of
  the invariant and follows from `KeepsBooks`, so no run checks it by itself. The mint and the sink have no lock;
  `CoinInv` says that what an operation *read* there is bounded by the coins moved until now, however many commits it
  has missed, and the sets of coins (`CoinsMoved`) only grow.
- **Store.** A purchase is one of the operations of the ledger, so `LedgerInv` carries over; `PaymentInStep`
  ties the stage of a purchase to that of its payment, and `SkippedIsPaid` says that a spend which found
  its key was paid under it.
- **Streams.** `NoOrphan` needs to know why replacing an object is safe: a worker in a state that
  `start_session` does not refuse has left its loop or been told to. `UntoldIsActive` and
  `QuietHasLeft` say that, `TableIsSound` and `MadeOnce` that an object belongs to one session, and
  `BelowThreshold` bounds the errors. The calls are then shown to do nothing but actions of
  `WorkerNext` (which is why the invariants of the workers hold under any services), and
  `HasTarget`/`HasWorker` say that a call in the middle knows its session and its worker.
- **Review.** The ticket's row lock again, here for what is not in the database: from the flushed
  UPDATE to the end a call is alone with the action (`ActsLocked`), so that what it has found
  unreserved still is when it reserves it (`ReservesFresh`, `ExecutesReserved`). In the other
  direction, what is reserved has been carried out or was cut off, unless a call is about to
  (`ReservedIsDone`), and the one that could be is the one that looks. `ApprovedIsSetAbout` is about the row and about every answer: a later
  UPDATE may write over an approval that a moderator was told of (`ApprovalsApprove`).
- **Notifications.** An acknowledgement is given on the word of the mark in Redis, so that
  `AckedIsStored` becomes inductive when it is stated of what is acknowledged *or* marked.
- **Channels.** `DisabledIsLeftAlone` has to include the step between the reading of the row and the
  lease (`BarredIsKnown`). `OverlapIsBounded` is inductive as it stands: who enters takes the lease
  that was not there, who leaves takes with him one that may be another's, and an expiry is counted.
- **Schema.** What the proof needs of the lists of statements is little and is computed from their parts
  (`ScriptsAreOrdered`): a table that has a unique index is made in the branch for new tables, and its index after
  it. So on the first start an index that is missing is still to come (`Coming`). A database that has the latest revision has
  all tables that the revisions before it make (`Sound`), because each made or found its own, and keeps
  them, so that an application whose own upgrade went through finds them, whatever failed to be created. The column
  of the flags stays because nothing makes their table once the latest revision has looked (`Flagged`),
  and there is one head of the chain (`HeadsAt`). Of an application that has not upgraded, where something failed, the
  theorem has nothing to say: it may lack tables (`SchemaIsGuaranteed`, section 6).
- **Chat.** A message has one way to the handlers: `OneWay` says that the hands, the wires and the tasks
  it is in exclude each other, and that whatever is under way is on record. A second way would have to
  be opened by a consumer that finds it unrecorded, and there is none with one record, or with one
  process that handles. That is the hypothesis `OneHandler`, which no model of several workers could do
  without: each would handle the message. `MarkedIsHandled` needs no exclusion but `HomesHandle`: an event
  that another process has published can be lost with the connection to Redis, after its mark. Both are true
  in the default deployment, and wherever streams are read by one worker process.
- **Chat as a delivery.** The refinement mapping calls a message under way while it is in the hand of a consumer
  that will dispatch it or in a task (`OnItsWay`), over when it is on record with the handler and not under way, new
  otherwise. It needs `OneWay` (a task is not also in a hand, so that its end is the end of the way;
  `UnderWayIsKnown`) and, beyond it, `OnlyHandlersConsume` and `WireFromHandlers`: what the listeners hear changes
  nothing. A restart is then `Lose` of all that is under way where the record is in Redis, and `Forget` where it
  was in memory; the reservation of an id is `Take`, the end of a handler `Finish`.
- **Live updates.** A buffer holds the latest events in their order (`UpToNow`), the replay follows what was
  sent last (`ReplayFollows`), and the replay and the queue meet or overlap (`QueueReachesBack`), unless a buffer
  was too small.
- **Budget of the AI.** For each counter, what is spent is recorded, owed or lost (`SpentIsKnown`), and the
  handlers that have found room (`Ahead`) exceed the limit by no more than the number of the others
  (`RoomForAll`). The order in which the counters are read matters, hence `ReadsInOrder`. That each call
  has at most an answer of each model (`AnswersOfCalls`) makes of the bound on calls one on what is paid for.
- **Games and points.** The row of a game is held from the completion of the game to the payment (`WinnersHold`), and the winner that
  is on record is the one who was paid with it, as nobody is paid for a game that is not there yet (`GamesAreNew`).
  The counter of a viewer that is flushed before the award keeps the viewer's other messages from finding room
  in between (`AwardsHold`, `RoomForAward`), and the running total of the day is no less than the awards of that
  day (`DailyCounts`).
- **Commands.** A request that has flushed holds the row or the name (`WritersHold`). What a request has
  loaded of the column it is to change is still what the row says, or the row says what another request
  was answered (`CopyIsAccounted`): so the request that finds its column unchanged, and writes nothing, is right too.
- **Incidents.** An incident that never left the active ones is active (`UnresolvedIsActive`), so that the look of its process
  finds it; who is about to open one has none (`OpensTheFirst`), and nobody else makes one for it.
- **Alerts.** Every alert that was let through is with Discord, queued, in the hand of a drain, or was given up (`AllKept`), and it is in
  one of these places only (`OnePlace`), so that one that was given up is not so twice. A drain has one alert in its hand or
  none (`OneInHand`) and loses one at most, as it is over then (`DropsOne`). And the queue is full of *others* when it
  gives one up: what it ever gave up and what it holds are together no more than was sent (`Surplus`).

Leaves that take a prover more than about two seconds name it with a limit of a minute (`SMTT(60)`, `ZenonT(60)`), so
that a slower machine proves them too.

Hypotheses that are not assumptions on constants appear only in six theorems: one process (`OneProcessHardCap`,
`OneProcessKeepsBudget`; two processes can pass the limit together, which is why the run checks `ProcessCap`), or
finitely many (`ManyProcessesShareTheCap`), and those of the chat (`MessagesAreHandledOnce`, `MarkedMessagesAreHandled`,
`ChatDelivers`). The instance of the manager in the client has one process, so that
`ClientKeepsBudget` has none.

Only model-checked: the liveness properties (`CoolingKeyReturns`, `EveryChannelIsChecked`,
`EveryRequestEnds`, `EveryCallerIsAnswered`, `EveryPurchaseEnds`, `EveryCallReturns`, `EveryVerdictEnds`,
`CriticalIsReported`), since fairness and ENABLED are beyond this prover.

## 6. Where the code and its documents disagree

The first six have a run each, which shows the behaviour; `PROJECT.json` ("findings") quotes both sides:

1. `exhausted_key` – a key that YouTube declared exhausted is not refreshed when its time is over
   (the documents say: until midnight UTC).
2. `consumption` – the hard cap is kept by the counter, but retries consume up to three times what
   they are charged.
3. `free_purchase` – the second purchase of the same item by the same viewer repeats the idempotency
   key, is taken for paid and delivered for nothing.
4. `oversold` – two concurrent purchases of the last piece both succeed, as the stock is read without
   a lock.
5. `ended_row` – the control endpoint gives up its lock before the commit. A restart that follows a
   disconnect reads the old row, starts the worker and, because the status it sets is the one it
   read, writes nothing: the row says ENDED and the worker reads on.
6. `upgrade` – two of the revision identifiers are longer than the 32 characters that alembic's table
   of versions has for them. SQLite, on which the tests run, does not mind; PostgreSQL refuses, and
   `alembic upgrade head` fails on every clean database.

The others are stated in the modules under "What the documents say and the code does not". They are no property of
a run; TLC refutes each of them, within seconds, when it is put in the place of the invariants of the
configuration that is named. Beside each stands what the code does give, which a passing run checks and a theorem
proves:

| Statement | Configuration | What is promised, and what happens | What holds |
|---|---|---|---|
| `UndispatchedIsFree` | `MCYouTubeClient` | `quota.py:166` and `docs/youtube/architecture.md:47`: what was not dispatched is released. A request that finds no key (`key_pool.py:101`) or no token (`client.py:88`) fails with a `YouTubeAPIError`, which `client.py:201` takes for an answer: it is charged | `TurnedAwayIsFree`: what the budget or the breaker turned away is free |
| `DispatchedIsCharged` | `MCYouTubeClient` | `quota.py:167` and `docs/youtube/architecture.md:48`: a timeout after dispatch is charged conservatively. It is no `YouTubeAPIError`, and `client.py:208` refunds it | `AnswerIsCharged`: a success is charged once, an error status at the last attempt too |
| `ToldIsProcessed` | `MCBackground` | `websub/dedupe.py:11`: processed exactly once. The mark stays when the delivery fails that has set it, and its repetition is acknowledged as a duplicate | `AckedIsStored`: all else that is acknowledged is stored |
| `SchemaIsGuaranteed` | `MCBackground` | `db/session.py:101`, `:113`: "Schema guarantee: Ensure all Base.metadata tables exist". What fails is logged, and the application comes up without them | `UpIsCurrent`: after an upgrade that went through they exist |
| `OneVerdict` | `MCModeration` | `docs/moderation/policy_and_hitl.md:63`: the second of two simultaneous decisions gets `REVIEW_ALREADY_RESOLVED`; `review_repo.py:66`: "Atomically". Both have read PENDING, and the second writes its verdict over the first | `CarriedOutOnce`: the action is executed once |
| `FailedIsRetriable` | `MCModeration` | `actions.py:88`: "Revert idempotency key on failure so retry is possible". A failed deletion is swallowed before it gets there (`actions.py:98`): the action stays recorded as executed for a day, and the review is approved | `ApprovedIsSetAbout`: the action of an approval was gone through with, and no more |
| `OneIncidentAnOutage` | `MCModeration` | `docs/CHAOS_MATRIX.md:19` (CHAOS-09): no duplicate records; `incidents.py:51`: "preventing race conditions". The lock is one of a process: the supervisors of two processes each open an incident | `NoSecondByTheSame`: one process does not |
| `CriticalIsKept` | `MCModeration` | `discord/operations.py:339`: "dropping oldest non-critical message". The oldest is dropped, a critical one too (`operations.py:341`) | `LossIsBounded`: how many are lost |
| `CeilingIsEnforced` | `MCMessages` | `docs/ai/architecture.md:36-41`: request ceilings are enforced against runaway spend. Concurrent messages pass the check together, and a call may be answered, and billed, by every model of its tier and counts once (`openrouter.py:187-194`) | `BudgetHolds`: by how much they are passed |
| `FirstAnswerWins` | `MCMessages` | `docs/games/mini_games.md:15,20,25` and `games/engine.py:83`: the first correct answer wins. Two viewers whose right answers arrive together are both paid, as the result of `complete_game` is not looked at (`engine.py:151`) | `MintedOnce`: no viewer is paid twice for one game |

The queue of alerts, besides: the runbook of a Discord outage (lines 8 and 25) and CHAOS-10 (`docs/CHAOS_MATRIX.md:20`) say that
it is drained when Discord is back, and nothing calls `drain_retry_queue`. The drains of the model are what would
happen if something did: one that meets a refusal puts the alert back, as its comment says ("Re-enqueue if
temporary failure"), but one whose request raises, as a timeout does, loses it.

A timeout and a ban never reach YouTube: `_execute_timeout` and `_execute_ban`
(`actions.py:101-117`) write to the log, while their docstrings say "Call YouTube liveChatBans.insert" and
`docs/youtube/quota-model.md:25` counts units for it. In the models they delete the message and do nothing else. The matrix
of the moderation policy in the documents differs from the ladder in the code too; `PolicyIsMonotone` is of the code.

Some behaviours of the models are known and break no promise in checkable words: two bootstraps of
one broadcast can end in two workers (the coordinator ignores the lock it did not get, deletes it
all the same, and `connect_stream` takes none); a cancelled request keeps its reservation until the
process ends; the balances of the mint and the sink lose updates (they hide coins and invent none,
`NoCoinIsInvented`); and those named with the modules in
section 2. Where one is a hazard without a property, `PROJECT.json` says why.

## 7. What is not modelled

- *Text and classification*: spam and language rules, persona and prompts, parsing of URLs, pages and
  feeds, formatting of answers and alerts. They are functions of data; their results enter the
  control of the program as one of a few outcomes.
- *Never called*: `reconcile_on_startup`, `expire_stale_reviews`, `integrity.execute_and_report`, the
  trust service (of which the modifier is modelled), `DistributedLock`; the scheduler for WebSub
  subscriptions, which nothing starts; feature flags, which nothing reads.
- *Output and wiring*: the HTML pages, queries, configuration, the dashboard, one OAuth refresh.
- *Inside the models*: the greeting, heartbeats and telemetry of workers; polling intervals; two
  creators at a time (accounts, keys and items are per creator); Redis losing its data; the
  administration of store items, the toggles and the aliases of commands; leaderboards and levels;
  signatures of notifications; downgrades, plain indexes, and two processes that upgrade at the same
  time. The streams are those of one video in one process. Whether YouTube counted a request whose answer was lost
  no model can tell; `ConsumptionCapped` counts what it has answered.
- *Without a property*: a message that a full queue of the chat drops is lost before it is on record. `Chat` has the
  drop; `HandledOnce` and `DeliversOnce` are about what was taken and say nothing of it. It is what the bound is for, it is counted,
  and no document promises otherwise.

## 8. Plan

Done, in this order: the quota manager, the key pool and the breaker, the client that composes
them; the ledger and the store; the stream workers and the calls on them; monitored channels and
notifications; messages from the chat to games and commands; moderation, reviews and incidents; the
migrations. Then the proofs: every safety property of the passing runs is now a theorem, and the manager, the client, the ledger,
the stream services and the chat are proved to implement their abstract specifications. What is left:

1. **Refinements.** An abstract specification of the incidents (one outage, at most one open incident of each
   process), with `Incidents` shown to implement it.
2. **Two workers of one broadcast**, as a statement of what the code gives instead of what it does not.
