# A TLA+ model of taskbus

taskbus is a Go library for background jobs, distributed cron tasks and an
event bus over one message queue, Redis Streams or RabbitMQ. This directory
models it, checks the models with TLC on small instances and proves the most
important safety properties with TLAPS for every instance.

The models are written from the code at the repository root. Comments and docs
are used only where a property says what they promise.

## The system

| Component | Code | State | Operations |
|---|---|---|---|
| Redis adapter | `redis_adapter.go` | one stream per component and namespace, its groups and pending lists; per consumer a context, a semaphore, an XAUTOCLAIM cursor | `Publish`, `PublishDelay`, `Consume` (loop, dispatch, handler goroutines), `stop`, `Close` |
| Delay scheduler | `redis_adapter.go:103-129` | the sorted set `tq:delay`, shared by all instances | every 200 ms: scan, XADD, ZREM |
| RabbitMQ adapter | `rabbitmq_adapter.go` | a connection that is dialled again when it is found closed; per consumer a channel that is not; queues and bindings in the broker | the same interface |
| Distributed cron | `cron_dist.go` | registered tasks, the leader's context, the current scheduler, a lock in Redis or RabbitMQ | `Add`, `Remove`, `Start`, `Stop`, leader loop, renewal goroutine, executor |
| Jobs | `jobs_impl.go`, `job_context.go` | registered jobs | `Register`, `Enqueue`, `StartWorkers` |
| EventBus | `eventbus_impl.go` | none | `Publish`, `Subscribe` with a filter |
| Idempotency | `middleware_idempotency.go`, `kv_redis.go` | keys with a TTL | SETNX, then run or skip |
| Client | `client.go`, `stream_manager.go` | configuration with its namespace, one MQ, one MQ per stream | `New`, `Close`, `GetStream` |
| Wiring | `client.go`, `wrap_defaults.go` | the default idempotency middleware | `New` |
| Topics | `util.go`, `redis_adapter.go:76-101`, `rabbitmq_adapter.go:351-371` | none | build, match, map to a stream or a queue |

How they interact: Jobs, EventBus and the cron executor build a handler (filter,
default idempotency middleware, caller's middlewares, job or subscriber) and
give it to `Consume` under a topic pattern and a group. Jobs, EventBus and the
cron scheduler publish. The adapter calls the handler in a goroutine and, after
an error, publishes a copy with the next `x-retry-count` through the delay set
(or the delayed exchange) before it acknowledges. Instances of one namespace
share nothing but the server: streams and the delay set, or queues and
exchanges; the leader lock, a key or an exclusive queue; the idempotency keys.

What is hard in it:

* a message moves between stream, pending list, delay set and the memory of
  three kinds of goroutines, in two-command steps any of which may fail, lose its
  reply or be cut off by a crash; all instances scan one delay set; slow
  handlers have their entries claimed by others;
* a RabbitMQ channel, a connection or the broker breaks under deliveries,
  retries and acknowledgements, and a publish is never confirmed;
* `stop` and `Close` meet loops, handlers and the scheduler anywhere;
* the lease of a leader runs out in parallel with its work, its release, its
  renewal and `Stop`; the broker answers the declaration of the leader queue
  after the instance has made itself leader; `Remove` gives up the mutex half-way;
* the idempotency key is set before the handler runs, and is shared by jobs,
  events, groups and retries.

What makes each component correct: either adapter loses no accepted message
and keeps the contract of the MQ interface, executes once when nothing goes
wrong, and shuts down; cron has one leader,
which schedules every task, and finds a new one; idempotency runs a key once a
window and drops nothing else; a start opens the consumers or adapters meant or
none, and a stop leaves none;
topics keep namespaces apart and reach their readers. `PROJECT.json` lists the
hazards, each at its line and with the properties that cover it.

## Modules

| Module | Models | Theorems |
|---|---|---|
| `AtLeastOnce` | the contract of the MQ interface | `AtLeastOnce_proofs` |
| `RedisMQ` | Redis adapter and delay scheduler; implements `AtLeastOnce` | `RedisMQ_proofs`, `RedisExecution_proofs` |
| `RabbitMQ` | RabbitMQ adapter; implements `AtLeastOnce` | `RabbitMQ_proofs` |
| `Lease` | what the leader election promises over a lock that can run out | |
| `CronDist` | distributed cron over the Redis lock or the RabbitMQ queue; over Redis implements `Lease` | `CronDist_proofs` |
| `HandlerChain` | Jobs, EventBus, cron executor, idempotency and their wiring; implements `AtLeastOnce` | `HandlerChain_proofs` |
| `Workers` | `StartWorkers`, `Subscribe`, and `New`/`Close` of the client with its streams: opening, undoing, stopping | `Workers_proofs` |
| `TopicNames` | namespaces, topics, streams, queues and the meaning of patterns | `TopicNames_proofs` |
| `Topics` | `TopicNames` with the code's matching | |
| `MCRedisMQ`, `MCRabbitMQ`, `MCCronDist`, `MCHandlerChain` | topologies and symmetry sets for TLC | |

### AtLeastOnce

What users of `MQ` (`mq.go`) rely on whichever adapter is configured. A group
has `owed` messages, `pending` attempts of them and `settled` ones. `Enqueue`
begins attempts: the first of a message, or the one after an attempt some group
has had; `Complete` ends them: an attempt goes only when its group is through
with the message or has a later attempt of it pending. Neither may invent an
attempt, lose the last one, or count retries beyond `MaxRetries`. Three modules
instantiate it (`Contract`) with a mapping: for `RedisMQ` an attempt is pending
for a group when its entry is undelivered or unacknowledged, or it is in the
delay set, of the messages every consumer of the group subscribes to; for `RabbitMQ` when it is in the queue, unacknowledged on an open
channel, or held by a delayed exchange the queue is bound to. `settled` includes
what the adapter drops over an error it discards (`swallowed` and `lost`), which
have counterexamples of their own below. For `HandlerChain` the pending attempts
are those in a group's queue, owed is what the filter of the group accepts, and a
skipped message is settled.

### RedisMQ

One stream with its groups, as the adapter uses them. `stream` is the sequence
of entries and an index is an ID; `delivered`, `pel` and `idle` are a group's
last-delivered ID, pending IDs and those idle for `redisClaimMinIdle`; `zset`
and `due` are the delay set and its due members. A member is the JSON of a
message, so it is the message's identity with its retry count, and equal ones
merge. Per instance: the scheduler (`schedUp`, `taken`, `removing`) and `life`.
Per consumer: the loop (`cpc`, `cancelled`, `autoClaim`, `claimStart`,
`fetched`) and one record per semaphore token (`slot`).

Each Redis command is one step, and `Call` says how it ends for its caller:
with its effect, with its effect and an error, with an error only; over a
cancelled context or a closed client always the last. The code's treatment of
the error is in the action: discarded for XGROUP, ZREM, XACK and the
scheduler's XADD, decisive for the retry's ZADD.

Actions and code: `Publish`, `PublishDelay` (131-140); `SchedScan`,
`SchedPublish`, `SchedRemove`, `SchedExit` (103-129); `Consume`, `AutoClaim`,
`AutoClaimUnknown`, `ReadGroup`, `Dispatch`, `LoopExit`, `LoopDone` (142-263);
`HandlerOk`, `HandlerErr`, `Retry`, `Ack` (178-210); `Stop` (265-274); `Close`,
`CloseDone`, `CloseTimeout` (277-288); `Crash`, `Restart`; `BecomeDue` and
`BecomeIdle` for time.

Abstractions: time has no numbers, so the backoff only says "later". `Consume`
is called on an open instance; `Publish` also while it closes. go-redis' own
retries of a command, which can repeat an XADD, are left out. A consumer's
pattern is the set of messages it matches; `Topics` has the matching.

### RabbitMQ

`sent` is the sequence of publishings the broker took; an index stands for one
everywhere. In the broker: `bound` and `delayBound` queues, `ready`
messages of each, `delayed` ones. Per instance: `conn` as `IsClosed` tells it
and `life`. Per consumer: its channel (`chan`, with what `closeChan` will yield in
`closeNote` and the client library's `buffer`), its loop (`cpc`, `hand`) and
one record per token of the semaphore (`slot`). The model has no set of
unacknowledged deliveries: they are those in an open channel's buffer, hand
and handlers (`Unacked`).

A publish ends in one of three ways (`Send`): taken, refused after the fact by
closing the channel, or failed for its caller. `PublishReturns` and `AfterRetry` say
what the caller makes of it: once a message is sent, `Publish` waits 100 ms for
its return or a close of the channel, which may come later or not, so it may
return nil or an error whatever the broker does. A channel breaks on the broker's side first, which
takes its deliveries back, and is noticed later (`Notice`); acknowledgements
in between have no effect. `ensureConnection` dials again for whoever publishes
next; consumers keep their channel. `stop` is the call of the stop function: it
closes the channel and waits, until the loop is done (`StopReturn`) or its context
ends (`StopExpires`); over a channel that is broken and not noticed yet, closing
fails and it returns the error at once ("failed").

Actions and code: `Publish`, `PublishDelay` (92-190); `Consume`, `Bind`,
`Subscribe`, `ConsumeFails` (192-231); `SelectDone`, `SelectClosed`, `SelectMsg`,
`Token`, `LoopDone`, `Panic` (240-298); `Handle`, `Retry`, `Answer` (265-295);
`Stop`, `StopReturn`, `StopExpires` (300-312); `Close` (315-322); `Restart` (28-50); the rest is the broker,
the client library and the process.

Abstractions: the mandatory flag and the 100 ms are the choice of
`PublishReturns`. The delay has no length. `Qos` is the constant
`Prefetch`, which is positive after `applyDefaultConfig`. Exchanges exist, as the
constructor declares them, and queues last. The map iteration order of headers
and the conversions of header values are left out: `x-retry-count` is sent as a
string and read back as one.

### CronDist

A term is one attempt that made its instance leader; its number stands for the
`leaderID`, for the `leaderCtx` made with it and for its RabbitMQ connection.
`lock` is the term that holds the key or the exclusive queue; `renewing` are the
terms whose renewal or watcher goroutine runs. Over RabbitMQ (`provider`) `open`
are the terms with a connection and `declaring` those whose `queue.declare` is
under way: `Declare` makes its instance leader, `BrokerDeclare` is when the broker
gets to it, and a refusal closes only a channel nobody watches. Per instance: `pc` and
`term` of the leader loop, `stopped`, `ctxDone`, and the fields `leaderCancel`,
`leaderCtx`, `reg`, `cron`. `scheds` are all schedulers ever created, because
one that no field refers to goes on running. A critical section of `mu` is one
step. `Remove` is two (`Remove`, `Rebuild`), since `rebuildSchedulerLocked`
unlocks between them; `rebuild` is the bag of the Removes in between, each of
which starts a scheduler. A registered task (`reg`) has a name and is valid when
`AddFunc` takes its spec. `startScheduler` discards the error of an invalid one,
which stays registered and is never scheduled (`Entries`); `Add` returns it on a
leader and does not look at the spec elsewhere. The executor is a consumer of `RedisMQ`. A scheduler's publish
is not a step: `Publishes` says who would publish.

`Expire` lets a lease run out that nothing renews, and up to `MaxLate` times one
whose renewal is late: TTL/3 is a timer, not a guarantee. With `MaxLate` 0
renewals are always in time.

`Lease` is the election without instances, goroutines and commands: terms are
`granted` one after the other over a free lock, `leading` ones end and do not
begin again, and the lock goes from a leader only when its lease runs out, which
marks the term (`ousted`). `CronDist` implements it over Redis; over RabbitMQ the
mapping (`OverRedis`) shows nothing, since there leaders do not hold the queue.

### HandlerChain

What happens to one delivery, between an abstract at-least-once queue below and
the handler above. `stages` is what is left of the chain: filter, idempotency,
execute, in the order that `buildEventHandler`, `buildHandler` and
`wrap_defaults.go` give it. `keys` is the store, `runs` counts the calls of
handlers per key and `expiries` the windows that ended. A message is a job, an
event or a cron trigger; a trigger goes straight to `execHandle`, in a process
whose `Add` and `Remove` (`Register`, `Unregister`) may have come before or after. `Retry` and `Ack` are the
adapter's end of a delivery: the next attempt goes to every group of the topic,
and only when it is stored is this one acknowledged, in a step of its own.
Only the KeyFunc that `New` installs is modelled; an event without a subject has
no key.

### Workers

One call of `StartWorkers` or `Subscribe`, or the life of one client from `New`
to `Close`. `Normalize` takes the names of the map in any order, `Open` and
`OpenFails` are the calls of `Consume`, or the making of adapters,
`CancelNext` and `WaitNext` the walk over the stop functions in an undo or a
stop, or over the adapters in `Close`, against consumers that end on their own
time (`Finish`) and contexts that are cancelled or expire. Over RabbitMQ
(`OnChannels`) a channel may break before (`Break`), or be broken when its stop
function comes to close it: that one returns `ch.Close`'s error without waiting,
and the walk discards it and goes on (`CloseFails`; the consumer is "cut"). The
panic that a stop may cause there is in `RabbitMQ`. Closing a Redis
adapter waits for the consumers on it, which only the application can stop
(`Use`, `Leave`); closing a RabbitMQ adapter does not wait (`Waits`).

### TopicNames and Topics

A topic is the sequence of its words, under the namespace that `New` gives the
client: the configured one, or "default" when that is not valid (`Namespace`). `MatchTokens` is the code's recursion,
`Denotes` the meaning of a pattern it is checked against. `MatchTokens` is a
RECURSIVE operator, so `Topics`, which has it, is for TLC only; everything else is
in `TopicNames`, where `Denotes` goes by the places of the words a `#` stands for
instead. `QueueName` is what
`sanitizeQueueName` leaves of a topic: the wildcards go.

## Runs

Runs that pass (`tlc -config <cfg> <module>`):

| cfg | States | Shows |
|---|---|---|
| `RedisFaults` | 3.0 M | `TypeOK`, `NoLoss`: two instances whose schedulers race, one consumer, one message, each command may fail once, stop, Close with a deadline, slow handlers |
| `RedisLiveness` | 0.23 M | `ImplementsContract`, `EventuallySettled` with a failing command and a crash |
| `RedisShutdown` | 0.13 M | `SingleExecution`, `CloseIsQuiet`, `StopReturns`, `CloseReturns`: two consumers of one instance, one of them on a server without XAUTOCLAIM |
| `RabbitFaults` | 0.73 M | `TypeOK`, `NoLoss`, `ImplementsContract`: one connection, a consumer in each of two groups, one message and its retries, every kind of fault at any moment, Close, the standard delay mode |
| `RabbitLiveness` | 0.18 M | `NoLoss`, `StopIsQuiet`, `EventuallySettled`, `StopReturns`: two instances serve one queue in the aliyun delay mode, a channel breaks, a dial fails or a stop panics, one consumer is stopped, by a stop that waits, fails or expires, or cancelled |
| `CronElection` | 0.17 M | `TypeOK`, `LeaderHoldsLock`, `LeaderRenews`, `ImplementsLease`, `LeaderElected`, `CancelTakesEffect`, `StaleLeaderStepsDown`: two instances over either provider, one that is stopped and one that is cancelled, a failure, lost connection or crash, a late renewal |
| `CronSchedules` | 4.0 M | `TypeOK`, `LeaderSchedules`: one instance over either provider, two tasks with valid and invalid specs, Adds and overlapping Removes at any moment of two terms, Stop |
| `ChainSafety` | 6.5 M | `TypeOK`, `OncePerWindow`, `NoneForgotten`, `RejectedTakesNoKey`: a worker and a subscriber; messages with and without key, accepted and rejected; a failure, a crash, an expiry |
| `ChainLiveness` | 0.18 M | `EventuallyLeaves`, `ImplementsContract`: a job, a cron trigger or an event that one of the groups rejects, two groups that feed each other retries, a task that may be removed |
| `Workers` | 76 k | `OrderFree`, `NothingLeftRunning`, `StoppedIsQuiet`, `StopReturns`: every map of three names and sizes, consumers over RabbitMQ whose channels break, every set of three streams, two over Redis |
| `Topics` | 0.17 M | `MatchIsMeaning`, `MatchedIsRead`, `Isolated`: every pattern and topic of up to three words, three namespaces of which one is invalid |

One run that TLC finds violated states what the repository says and the code does
not keep (the quotation is under `findings`):

| cfg | Property | What happens |
|---|---|---|
| `ChainRetrySkipped` | `SkippedWasProcessed` | the retry of a failed message is skipped |

### Further counterexamples

These configurations are not in `PROJECT.json`, which lists the runs that answer
the main questions. Each checks one property that TLC finds violated, and the
property says what a line of the repository promises:

| cfg | Property | Promise | What happens |
|---|---|---|---|
| `RedisLost` | `NoLossAtAll` | `redis_adapter.go:205`, a failing publish does not lose a message | the delay scheduler removes a member whose XADD failed (`redis_adapter.go:122`) |
| `RedisPatterns` | `PatternServed` | `event.go:49`, patterns select events | a consumer acknowledges an event that only another pattern of its group matches (`redis_adapter.go:182`) |
| `RedisDelayMerge` | `EveryEnqueueKept` | `job.go:58`, a delayed task is consumed after the delay | two equal delayed enqueues are one member (`redis_adapter.go:139`) |
| `RedisStopAck` | `StopAcknowledges` | `mq.go:46`, stop is graceful | XACK is sent over the cancelled context (`redis_adapter.go:186`) |
| `RedisCloseHangs` | `CloseAlwaysReturns` | `client.go:21`, Close waits for tasks in flight | it waits for consumers nobody stops (`redis_adapter.go:280`) |
| `RedisGroupMissing` | `GroupEnsured` | `redis_adapter.go:148`, the group exists | the error of XGROUP CREATE is discarded (`redis_adapter.go:149`) |
| `RabbitRetryLost` | `RetryNeverLost` | `rabbitmq_adapter.go:269`, publish before confirming, Nack when that fails | the broker refuses the retry after `PublishDelay` returned nil, and the delivery is acknowledged (`rabbitmq_adapter.go:282`) |
| `RabbitUnroutable` | `AcceptedIsRouted` | `rabbitmq_adapter.go:128`, what shows neither a return nor a close in 100 ms is published | the return comes later, when Publish has returned nil (`rabbitmq_adapter.go:127`) |
| `RabbitStopFails` | `StopWaits` | `mq.go:46`, stop is graceful | over a channel that has just broken stop returns with handlers running (`rabbitmq_adapter.go:302`) |
| `RabbitStopPanics` | `StopIsGraceful` | `mq.go:46`, stop is graceful | closing the channel makes closeChan yield nil, and `err.Error()` panics (`rabbitmq_adapter.go:255`) |
| `RabbitCloseEarly` | `CloseIsQuiet` | `client.go:21`, Close waits for tasks in flight | it closes the connection under running handlers (`rabbitmq_adapter.go:319`) |
| `CronTwoLeaders` | `OnlyLeaderSchedules` | `cron_dist.go:18`, only the leader schedules; 192, the exclusive queue is the lock | nobody waits for the broker's answer: every instance leads (`cron_dist.go:194`) |
| `CronLateRenewal` | `OnlyLeaderSchedules` | the same | over Redis, a late renewal: two instances publish (`cron_dist.go:266`) |
| `CronStopRace` | `StopTakesEffect` | `cron_dist.go:105`, Stop stops the service | Stop during an acquisition is lost: the instance leads on (`cron_dist.go:111`) |
| `CronRebuild` | `ExitedIsQuiet` | `cron_dist.go:341`, the lock is held | Remove starts a scheduler after the loop has ended (`cron_dist.go:351`) |
| `CronInvalidSpec` | `RegisteredIsScheduled` | `cron_dist.go:18`, the scheduler triggers the registered tasks | a spec that does not parse is registered, and nobody is told but a caller on a leader (`cron_dist.go:326`) |
| `CronReAdd` | `OneEntryPerName` | `cron_dist.go:23`, a name is one task | a name added again fires twice (`cron_dist.go:71`) |
| `ChainSamePayload` | `SkippedForSameJob` | `middleware_idempotency.go:71`, key of job name and payload | equal payloads of different jobs share a key (`client.go:100`) |
| `ChainSameSubject` | `AcceptedIsHandled` | `event.go:51`, only filtered events are skipped | the second event about a subject is dropped (`wrap_defaults.go:39`) |
| `TopicsNamespace` | `NamespacesApart` | `doc.go:61`, services coexist | namespace "event" meets the global bus (`client.go:171`) |
| `TopicsFallback` | `NamespacesApart` | the same | two services whose namespaces are invalid are both "default" (`client.go:45`) |
| `TopicsQueue` | `QueueServesPattern` | `event.go:49`, patterns select events | patterns that differ in wildcards share a RabbitMQ queue in one group (`rabbitmq_adapter.go:204`) |
| `WorkersNewLeaks` | `NewUndone` | a call that fails leaves nothing, as in `jobs_impl.go:53-56` | New drops the adapters made before the one that fails (`client.go:111`) |
| `WorkersCutOff` | `StopIsGraceful` | `job.go:42`, `event.go:52`, stop is graceful | a channel cannot be closed: stop discards that error and returns nil with handlers running (`jobs_impl.go:64`, `eventbus_impl.go:74`) |

### Bounds

Each bound is a constant in the guards of the actions it limits. `MaxStream`
bounds XADD, `MaxCopies` what the broker takes (RabbitMQ), `MaxPublish` the
publishes of a message and `MaxPublished` how many messages are published, `MaxFaults` and
`MaxCrashes` failures and crashes (`MaxFailures` both together in `CronDist`),
`MaxLate` the leases that run out under a leader, `MaxTerms` and `MaxScheds`
acquisitions and schedulers, `MaxExpiries` the windows of a key. They are set so
that what a property is about happens, and happens again after recovery: a
first attempt and a retry, each delivered and claimed; a term lost and the next
one won; two instances in every pair of positions. The liveness properties are
checked with bounds that their behaviours cannot reach (`MaxStream` 6 for two
attempts, one fault and one crash; `MaxCopies` 5, which no state of
`RabbitLiveness` has; five terms, one more than any state of `CronElection` has),
so no guard ends a behaviour early. `RedisLiveness`
leaves out failures of XADD and XGROUP: `NoLossAtAll` and `GroupEnsured` show
that a message does not arrive then. It also has one consumer and no slow
handlers, and `RedisFaults` two entries and no crash: the theorem `NothingLost`
covers the combinations. `SingleExecution` is about one instance, since the
schedulers of two may both publish a due member, and about handlers that are
not slow, since a slow one is meant to be overtaken. Deadlock checking is off
because an application may stop everything.

`RabbitFaults` has one fault, at any moment of a first attempt and a retry in
two groups that share a connection, one process, and `MaxCopies` 4: the message,
a retry of each group and one retry that a fault makes the adapter repeat; `RabbitLiveness` two
processes, a consumer that is stopped or cancelled and one that goes on.
`EventuallySettled` of `RabbitMQ` is conditional on the queue being served in
the end, since the adapter reopens nothing, and on no channel being stranded
under a cancelled context. `StopIsQuiet` is about a stop that returned nil: one
that failed or expired has not waited (`RabbitStopFails`). `LeaderHoldsLock` is about Redis only: over RabbitMQ
leaders do not hold the queue (`CronTwoLeaders`). `CronElection` has no
tasks, which touch no lock, and `CronSchedules` one instance, since `mu`, the fields
it guards and the schedulers are an instance's own. All that other instances do to it is
to take the lock, so that it loses its term, as it does in that run after a late
renewal; no command fails there. The configuration `CronSafety`, which is not in
`PROJECT.json`, repeats the safety properties of the election with three terms, two
failures and Stop on both instances (3.0 M states, no error). `LeaderSchedules` is about tasks with valid specs.

`Workers` has the client's own adapter over RabbitMQ, where a stop does all it
does over Redis and may besides fail to close a channel; adapters whose Close waits
are among the streams.

Symmetry is used in `CronSafety` and `CronSchedules`, where instances and task
names are interchangeable, and in `RabbitFaults`, where the two groups are, each with its
consumer. They check invariants and step properties only.

### Fairness

Goroutines that can run do (weak fairness of scheduler, loop, handler, renewal
and watcher steps), handlers return, clocks advance, leases nobody renews run
out, the broker delivers and answers, a broken connection is noticed, and a
crashed process is started again and consumes again. XAUTOCLAIM has strong
fairness: the loop alternates between it and a blocking read, and
`redisClaimInterval` (2 s) is no longer than that read blocks, so the loop tries
it again and again. Nothing is assumed of Publish, Stop, Close, Add, Remove or
failures.

## Proofs

All theorems hold for every value of the constants that satisfies
`ConstantsAssumption` of the module: arbitrary sets of instances, groups,
consumers, messages and keys, and arbitrary bounds. (`HandlerChain` needs finitely
many workers, since it counts them.)

* **`ContractDelivers`**, `AtLeastOnce`: the contract implies that a group is
  through with every message it is owed or has an attempt of it pending, so what
  the runs check as `ImplementsContract` is a promise and not only a shape.
* **`TypeCorrect`**, one each for `RedisMQ`, `RabbitMQ`, `CronDist` and
  `HandlerChain`: `TypeOK`. Beyond the types it says that no stored copy has a
  retry count above `MaxRetries`, for which it has to say that a goroutine about
  to publish a retry may do so. For `RabbitMQ` it needs the order of the calls in
  `Consume`: bindings come before the subscription, and only a subscribed loop
  holds deliveries (`SetupInv`).

`RedisMQ`:

* **`NothingLost`**: `NoLoss`. Alone it is not inductive: the step
  that acknowledges an entry, or removes a delayed member, must know that
  something later is stored. `AckSafe` says so of every entry about to be
  acknowledged (settled, or an attempt with a higher count is stored) and
  `RemoveSafe` of every member about to be removed (in the stream, or a higher
  attempt is stored). The order of attempts is what makes the argument
  well-founded: two instances that hold the same message cannot both rely on
  the copy the other is about to remove. Lemma `QuietStep` does the steps
  after which everything stored is still stored; the rest are XACK, ZREM, the
  scheduler's XADD and the crash.
* **`ContractImplemented`**: `ImplementsContract`. A
  step begins attempts (`Enqueues`), ends some (`Completes`), or is nothing the
  contract sees, and each kind refines its action of `AtLeastOnce`. `FullInv`
  adds to the invariant above that everything in the stream or in a scheduler's
  hands is safe (`StreamSafe`, `TakenSafe`): a member that another instance has
  already removed may be put in the stream again, and the contract allows that
  only for an attempt it has seen.
* **`ClosedQuietly`** (`RedisExecution_proofs`): `CloseIsQuiet`, when no deadline
  cuts Close short. `CloseDone` looks at the scheduler and at the loops, not at
  goroutines or at what the scheduler holds; `SchedOver` and `LoopOver` say that
  nothing of these is left when they are over.
* **`HeldByOne`**, **`ExecutedOnce`** (`RedisExecution_proofs`): `HeldOnce` for any
  instances and groups, and `SingleExecution` for one instance, one group and
  messages published once; in both no handler outlives `redisClaimMinIdle`.
  `HoldInv` says that what can be claimed is in nobody's hand and what is new was
  never pending. That an attempt enters the stream once depends on three
  kinds of goroutines: a retry is stored by the one goroutine that holds its
  entry and is not stored before (`NotYetRetried`), a later attempt is only
  there after the one before it (`Derived`), and the delay set and the stream
  share at most the member the scheduler is removing (`Handover`). These hold as
  long as nothing fails and the client is open (`Live`); after a Close that ran
  into its deadline the stream no longer changes (`ClosedStream`).

`RabbitMQ`:

* **`NothingLost`**: `NoLoss`. `LossInv` adds `HeldSafe`, since a consumer may
  hold a delivery over a channel the broker has already closed and given to
  somebody else, `AckSafe` as above, `Arrived`, and `RetryOwned`: a retry in the
  delayed exchange is ahead of the group that asked for it, which is where the
  order of the bindings matters (`BoundFirst`).
* **`ContractImplemented`**: `ImplementsContract`, by the same two kinds of steps.
* **`StoppedQuietly`**: `StopIsQuiet`. That stop returned nil says only that the
  loop is done. `QuietAt` adds that a stop which waits has a closed channel behind
  it, whoever closed it, that a closed channel holds nothing and is never opened
  again, and that a loop that is done has left no handler. A loop may have ended
  before over a cancelled context, with its channel open and filling.

`CronDist`:

* **`LeaderHasLock`**, **`LeaderIsRenewed`**: by the invariant
  `LockInv` of both and the types they need. The lock of a live term can
  be freed only by its own release, which follows the end of its context, or by
  expiry, which without lateness needs that nothing renews it; `LeaderRenews`
  excludes that. Over RabbitMQ a live term has its watcher, and nothing is said
  of the queue.
* **`LeaseImplemented`**: `ImplementsLease`, with `LockInv`. A step grants a term,
  ends some, frees the key of an ended one or lets a lease run out (`LeaseStep`).
  `LeaderRenews` is what makes an expiry of a lease nobody renews one of an ended
  term, and that a crash takes all contexts of its process with it keeps old terms
  dead when the new process starts with a context that is not cancelled.
* **`LatestTermLeads`**: what `Lease` implies, an instance whose term is not the
  latest leads only when its lease ran out.
* **`LeaderSchedulesAll`**: `LeaderSchedules`. `Remove` gives up the mutex between
  taking the scheduler away and putting another back, perhaps after its instance
  has lost and won the leadership, and builds the new one for the context it
  read before. `Scheduling` says what is then left to a leader: a
  rebuild under its own context still ahead, or schedulers that run under this
  context, or under none, and have every registered task with a valid spec. The
  pending rebuilds are a bag, so that one Remove's rebuild leaves the others'.

`HandlerChain`:

* **`RunsOncePerWindow`**: `KeyBudget` counts, for each key, the
  calls made and the workers that are past SETNX and about to call, against the
  expiries and the key in the store.
* **`ContractImplemented`**: `ImplementsContract`, with `ContractInv`. The queue of a
  group is an MQ that keeps its contract for what the group wants. A worker may
  hold an entry that another worker has acknowledged meanwhile, so `HeldSafe` says
  that the message of a held entry is settled or has an attempt no earlier than
  that one, and, once the retry is published, a later one: the acknowledgement
  rests on it. `FilteredFirst` keeps what the group rejects from being retried,
  skipped or used up there. `ResultBacked` says that a worker that is about to
  acknowledge without a retry has the reason on record.
* **`NoMessageForgotten`**: `NoneForgotten`, from `OwedSafe` and `SkippedKeyed` of the
  same invariant.
* **`RejectedSetNoKey`**: `RejectedTakesNoKey`, by `FilteredFirst`: a worker comes to
  the middleware only with what its filter accepts.

`Workers`, for any maps and sets of streams:

* **`OrderDoesNotShow`**: `OrderFree`. `ResolvedInv` relates the map made so far to
  the names already visited: each group has the size of one of them, and the
  largest. `CountedInv` says that what is open is what the map says.
* **`NothingRunsOn`**, **`StoppedInTime`**: `NothingLeftRunning`, `StoppedIsQuiet`, by
  `WalkedInv`: every consumer that the walk has passed was told to end, and has
  ended unless a context did or its channel could not be closed.

`TopicNames`, for any namespaces, words and patterns:

* **`BuiltInvariant`**: every topic subscribed to or published is `BuildTopic` of a
  namespace, a component and a name. The rest follows from the words of such a
  topic (`TopicShape`).
* **`MatchedIsReadHolds`**: `MatchedIsRead`. Before its first `#` a pattern fixes the
  words of a topic at their places (`EndBeforeHash`, `PrefixKept`), and what
  `StreamForTopic` looks at is there.
* **`IsolatedHolds`**: `Isolated`. The second word tells whether a topic is global and
  with the third one names its owner, as long as no namespace is named after a
  component; streams and queues keep both words.

TLC finds each inductive invariant true on the constants of its component's run (a
module that extends the MC module and the `_proofs` module lets it check them).
Hypotheses of theorems are about the environment: how
long handlers take, whether Close has a deadline,
how many instances there are, and whether a message is published twice.

Only model-checked: the liveness properties, since TLAPS has no rules for
fairness here, and `MatchIsMeaning`. The code's matching is recursive, so it is a
RECURSIVE operator in `Topics`, which the SMT backend does not accept; as a
recursive function it would need induction over sequences, which the installed
provers cannot do. So that the code's recursion computes `Denotes`, of which
`TopicNames_proofs` has its theorems for names of any length, is checked up to
three words.

## Not modelled

* Defaults other than the namespace's (`applyDefaultConfig`): they are the
  ranges of the models' constants. The adapters of streams get an empty
  `RetryConfig` (`stream_manager.go:34`), which is `MaxRetries` 0.
* The local cron, which `New` cannot select (`client.go:227`).
* The backoff arithmetic, in floating point, since time has no numbers here;
  `ExponentialBackoff` of `mq.go`, which nothing calls.
* The executor and the scheduler of cron publish and consume through an adapter;
  that composition is by contract (`AtLeastOnce`), not one state space.
* The no-op MQ, logging and the examples.

Reasons are under `components`.

## Plan

1. done: `RedisMQ`, `CronDist` over both providers, `HandlerChain` with the cron
   executor, `Workers` with the client, `TopicNames` and `Topics`, `RabbitMQ`, and
   the abstract `AtLeastOnce` and `Lease`.
2. done: every invariant the runs check but `MatchIsMeaning`, and all four
   refinements, as theorems.
3. open: liveness and the recursion of `matchTopic` by proof, when a prover for
   fairness and induction over data is at hand; the code's repairs for what the
   counterexamples show would each be a small change of an action, to be checked
   against the same properties.
