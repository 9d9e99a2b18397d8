------------------------------ MODULE Workers ------------------------------
(***************************************************************************)
(* How StartWorkers of Jobs (jobs_impl.go) and Subscribe of EventBus       *)
(* (eventbus_impl.go) open their consumers, undo a start that fails, and   *)
(* stop them; and how New and Close of Client (client.go) do the same with *)
(* the adapters of the client and of its streams (stream_manager.go).  One *)
(* call is followed from its beginning to the return of the stop function  *)
(* it gave, or of Close.                                                   *)
(*                                                                         *)
(* A group is its name without the namespace prefix, which resolveGroup    *)
(* puts before every name alike.  Go ranges over a map in any order.       *)
(***************************************************************************)
EXTENDS Integers, Sequences, FiniteSetsExt

CONSTANTS
    Names,         \* group names a caller may give
    EmptyName,     \* the empty string
    DefaultGroup,  \* Config.Job.DefaultGroup, after defaults
    Sizes,         \* sizes and concurrencies a caller may give
    Main,          \* the client's own MQ adapter
    Streams,       \* names in Config.Stream
    RedisAdapters, \* the adapters over Redis; the others are over RabbitMQ
    MayFail,       \* Consume, or the making of an adapter, may return an error
    MayCancel,     \* the context given to StartWorkers may be cancelled
    MayExpire      \* the context given to stop may expire

ASSUME ConstantsAssumption ==
    /\ DefaultGroup # EmptyName
    /\ Sizes \subseteq Int
    /\ Main \notin Streams
    /\ RedisAdapters \subseteq Streams \cup {Main}
    /\ MayFail \in BOOLEAN
    /\ MayCancel \in BOOLEAN
    /\ MayExpire \in BOOLEAN

VARIABLES
    call,       \* which call it is
    phase,      \* where it is
    given,      \* the groups argument of StartWorkers; no group for the others
    todo,       \* names normalizeGroups has not looked at
    resolved,   \* consumers to open in each group; one for each adapter
    consumers,  \* those opened, in order: a group and a state
    used,       \* the adapters on which the application has consumers running
    walker,     \* the one the undo or the stop function has come to
    waiting,    \* it waits for that one to end
    ctxDone,    \* the context given to StartWorkers is cancelled
    expired     \* the context given to stop, or to Close, has expired

callVars == <<call, phase, given, todo, resolved, used>>
stopVars == <<walker, waiting>>
vars == <<callVars, consumers, stopVars, ctxDone, expired>>

(* Maps of the code: the empty one, and r with r[g] set to s.              *)
NoGroups == [g \in {} |-> 0]
With(r, g, s) == [h \in DOMAIN r \cup {g} |-> IF h = g THEN s ELSE r[h]]

Init ==
    /\ call = "none"
    /\ phase = "idle"
    /\ given = NoGroups
    /\ todo = {}
    /\ resolved = NoGroups
    /\ consumers = <<>>
    /\ used = {}
    /\ walker = 1
    /\ waiting = FALSE
    /\ ctxDone = FALSE
    /\ expired = FALSE

-----------------------------------------------------------------------------
(* Which consumers to open.                                                *)

ResolveGroup(n) == IF n = EmptyName THEN DefaultGroup ELSE n

(* A size that is not positive counts as 1.                                *)
Size(s) == IF s <= 0 THEN 1 ELSE s

(* Two names may stand for one group: the larger size is kept.  The faulty *)
(* form keeps the last.                                                    *)
Merged_Last(r, g, s) == With(r, g, s)
Merged(r, g, s) == IF g \in DOMAIN r /\ s <= r[g] THEN r ELSE With(r, g, s)

(* No groups means one worker of the default group.                        *)
StartWorkers(groups) ==
    /\ phase = "idle"
    /\ call' = "workers"
    /\ phase' = "normalize"
    /\ given' = IF DOMAIN groups = {} THEN With(groups, EmptyName, 1) ELSE groups
    /\ todo' = DOMAIN given'
    /\ UNCHANGED <<resolved, consumers, used, stopVars, ctxDone, expired>>

Normalize(n) ==
    /\ phase = "normalize"
    /\ n \in todo
    /\ resolved' = Merged(resolved, ResolveGroup(n), Size(given[n]))
    /\ todo' = todo \ {n}
    /\ phase' = IF todo' = {} THEN "open" ELSE "normalize"
    /\ UNCHANGED <<call, given, consumers, used, stopVars, ctxDone, expired>>

(* Subscribe opens SubscriberConcurrency consumers of the one group.       *)
Subscribe(g, concurrency) ==
    /\ phase = "idle"
    /\ call' = "subscribe"
    /\ phase' = "open"
    /\ resolved' = With(NoGroups, g, Size(concurrency))
    /\ UNCHANGED <<given, todo, consumers, used, stopVars, ctxDone, expired>>

(* newStreamManager makes one adapter for each stream.                     *)
StreamAdapters(streams) == [a \in streams |-> 1]

(* New makes the client's own adapter and then the stream manager.         *)
New(streams) ==
    /\ phase = "idle"
    /\ call' = "client"
    /\ phase' = "open"
    /\ resolved' = With(StreamAdapters(streams), Main, 1)
    /\ UNCHANGED <<given, todo, consumers, used, stopVars, ctxDone, expired>>

-----------------------------------------------------------------------------
(* Opening them.                                                           *)

Opened(g) == Cardinality({k \in DOMAIN consumers : consumers[k].group = g})

(* The next to open is one for g: a group that was begun is finished       *)
(* before the next, and the client's own adapter comes before the streams. *)
Turn(g) ==
    /\ phase = "open"
    /\ g \in DOMAIN resolved /\ Opened(g) < resolved[g]
    /\ \A h \in DOMAIN resolved \ {g} : Opened(h) \in {0, resolved[h]}
    /\ call = "client" /\ g # Main => Opened(Main) = 1

(* A consumer whose parent context is done ends by itself.                 *)
Open(g) ==
    /\ Turn(g)
    /\ consumers' = Append(consumers,
          [group |-> g, state |-> IF ctxDone THEN "cancelled" ELSE "running"])
    /\ UNCHANGED <<callVars, stopVars, ctxDone, expired>>

(* Consume fails: those opened are stopped, and the error is returned.     *)
(* New returns the error at once.  The faulty form of the undo misses the  *)
(* first.                                                                  *)
FirstUndone_Second == 2
FirstUndone == 1

OpenFails(g) ==
    /\ MayFail
    /\ Turn(g)
    /\ phase' = IF call = "client" THEN "failed" ELSE "undo"
    /\ walker' = FirstUndone
    /\ UNCHANGED <<call, given, todo, resolved, consumers, used, waiting, ctxDone, expired>>

(* All are open, the stop function, or the client, is returned.            *)
Ready ==
    /\ phase = "open"
    /\ \A g \in DOMAIN resolved : Opened(g) = resolved[g]
    /\ phase' = "ready"
    /\ UNCHANGED <<call, given, todo, resolved, consumers, used, stopVars, ctxDone, expired>>

-----------------------------------------------------------------------------
(* Stopping them, one after the other.                                     *)

Stop ==
    /\ phase = "ready" /\ call # "client"
    /\ phase' = "stopping"
    /\ walker' = 1
    /\ UNCHANGED <<call, given, todo, resolved, consumers, used, waiting, ctxDone, expired>>

(* The stream manager closes its adapters in the order its map gives them, *)
(* after the client's own.                                                 *)
CloseOrders ==
    {order \in Bijection(DOMAIN consumers, DOMAIN consumers) : order[1] = 1}

Close ==
    /\ phase = "ready" /\ call = "client"
    /\ phase' = "stopping"
    /\ walker' = 1
    /\ \E order \in CloseOrders :
          consumers' = [k \in DOMAIN consumers |-> consumers[order[k]]]
    /\ UNCHANGED <<call, given, todo, resolved, used, waiting, ctxDone, expired>>

Cancelled(s) == IF s = "running" THEN "cancelled" ELSE s

(* The stop function of a consumer cancels it and then waits, and so does  *)
(* Close of an adapter; the faulty form only waits.                        *)
AfterCancel_Same(cs, k) == cs
AfterCancel(cs, k) == [cs EXCEPT ![k].state = Cancelled(@)]

CancelNext ==
    /\ phase \in {"undo", "stopping"}
    /\ ~waiting /\ walker \in DOMAIN consumers
    /\ consumers' = AfterCancel(consumers, walker)
    /\ waiting' = TRUE
    /\ UNCHANGED <<callVars, walker, ctxDone, expired>>

(* The consumers of StartWorkers and Subscribe have channels of RabbitMQ.  *)
OnChannels == call # "client" /\ Main \notin RedisAdapters

(* The channel is broken and nobody has noticed: ch.Close fails, which ends*)
(* the consumer all the same, and its stop function returns that error     *)
(* without waiting.  The walk discards it and goes on.                     *)
CutOff(s) == IF s = "done" THEN s ELSE "cut"

CloseFails ==
    /\ phase \in {"undo", "stopping"}
    /\ OnChannels
    /\ ~waiting /\ walker \in DOMAIN consumers
    /\ consumers' = [consumers EXCEPT ![walker].state = CutOff(@)]
    /\ walker' = walker + 1
    /\ UNCHANGED <<callVars, waiting, ctxDone, expired>>

(* A channel breaks and the loop notices.                                  *)
Break(k) ==
    /\ OnChannels
    /\ consumers[k].state = "running"
    /\ consumers' = [consumers EXCEPT ![k].state = "cancelled"]
    /\ UNCHANGED <<callVars, stopVars, ctxDone, expired>>

(* The context the stop functions are called with is done: that of         *)
(* StartWorkers in its undo, Background in that of Subscribe.              *)
DeadlinePassed == IF phase = "undo" THEN ctxDone ELSE expired

(* Close of a RabbitMQ adapter closes the connection and does not wait.    *)
Waits(c) == call = "client" => c.group \in RedisAdapters

(* The consumer has ended, or there is no more time; the faulty form does  *)
(* not wait.                                                               *)
WaitOver_Now == TRUE
WaitOver ==
    \/ consumers[walker].state = "done"
    \/ ~Waits(consumers[walker])
    \/ DeadlinePassed

WaitNext ==
    /\ waiting
    /\ WaitOver
    /\ waiting' = FALSE
    /\ walker' = walker + 1
    /\ UNCHANGED <<callVars, consumers, ctxDone, expired>>

AllStopped ==
    /\ phase \in {"undo", "stopping"}
    /\ ~waiting /\ walker \notin DOMAIN consumers
    /\ phase' = IF phase = "undo" THEN "failed" ELSE "stopped"
    /\ UNCHANGED <<call, given, todo, resolved, consumers, used, stopVars, ctxDone, expired>>

(* A cancelled consumer ends once its handlers have returned, a closed     *)
(* adapter once the consumers on it have ended (RedisMQ, RabbitMQ).        *)
Finish(k) ==
    /\ consumers[k].state \in {"cancelled", "cut"} /\ consumers[k].group \notin used
    /\ consumers' = [consumers EXCEPT ![k].state = "done"]
    /\ UNCHANGED <<callVars, stopVars, ctxDone, expired>>

(* The consumers of StartWorkers live under its context, those of          *)
(* Subscribe under Background.                                             *)
CancelCtx ==
    /\ MayCancel
    /\ DOMAIN given # {} /\ ~ctxDone
    /\ ctxDone' = TRUE
    /\ consumers' = [k \in DOMAIN consumers |->
                        [consumers[k] EXCEPT !.state = Cancelled(@)]]
    /\ UNCHANGED <<callVars, stopVars, expired>>

(* The application opens consumers on an adapter (with MQ, GetStream or    *)
(* the components of the client) and stops them.                           *)
Use(a) ==
    /\ phase = "ready" /\ call = "client"
    /\ a \in DOMAIN resolved \ used
    /\ used' = used \cup {a}
    /\ UNCHANGED <<call, phase, given, todo, resolved, consumers, stopVars, ctxDone, expired>>

Leave(a) ==
    /\ a \in used
    /\ used' = used \ {a}
    /\ UNCHANGED <<call, phase, given, todo, resolved, consumers, stopVars, ctxDone, expired>>

Expire ==
    /\ MayExpire
    /\ phase = "stopping" /\ ~expired
    /\ expired' = TRUE
    /\ UNCHANGED <<callVars, consumers, stopVars, ctxDone>>

-----------------------------------------------------------------------------
CallStep ==
    \/ \E n \in todo : Normalize(n)
    \/ \E g \in DOMAIN resolved : Open(g) \/ OpenFails(g)
    \/ Ready
    \/ CancelNext
    \/ CloseFails
    \/ WaitNext
    \/ AllStopped

Next ==
    \/ \E ns \in SUBSET Names : \E groups \in [ns -> Sizes] : StartWorkers(groups)
    \/ \E g \in Names, c \in Sizes : Subscribe(g, c)
    \/ \E streams \in SUBSET Streams : New(streams)
    \/ CallStep
    \/ Stop \/ Close
    \/ \E a \in Streams \cup {Main} : Use(a) \/ Leave(a)
    \/ \E k \in DOMAIN consumers : Finish(k) \/ Break(k)
    \/ CancelCtx
    \/ Expire

Spec == Init /\ [][Next]_vars

(* The calling goroutine runs, and cancelled consumers end.                *)
Fairness == WF_vars(CallStep) /\ WF_vars(\E k \in DOMAIN consumers : Finish(k))

FairSpec == Spec /\ Fairness

-----------------------------------------------------------------------------
(* What the map given to StartWorkers means, whatever order Go ranges over *)
(* it: each group has as many workers as the largest size given for it.    *)
Meant ==
    [g \in {ResolveGroup(n) : n \in DOMAIN given} |->
        Max({Size(given[n]) : n \in {m \in DOMAIN given : ResolveGroup(m) = g}})]

(* The order of the map's keys does not show: a call that gave its caller  *)
(* the stop function has opened the consumers the map means, no more and   *)
(* no less (normalizeGroups and the loops of StartWorkers).                *)
OrderFree ==
    phase \in {"ready", "stopping", "stopped"} /\ DOMAIN given # {} =>
        /\ {c.group : c \in {consumers[k] : k \in DOMAIN consumers}} = DOMAIN Meant
        /\ \A g \in DOMAIN Meant : Opened(g) = Meant[g]

(* All or nothing: a call that has failed leaves no consumer running, nor  *)
(* does the stop function, nor Close an adapter, also when its context     *)
(* expired half-way.  A New that fails is the exception (NewUndone).       *)
NothingLeftRunning ==
    phase = "stopped" \/ (phase = "failed" /\ call # "client") =>
        \A k \in DOMAIN consumers : consumers[k].state # "running"

(* Within their contexts they wait for every consumer, also for those after*)
(* one they did not wait for (jobs_impl.go:63): afterwards its handlers    *)
(* have returned.                                                          *)
(* The exceptions are over RabbitMQ, where Close of an adapter waits for   *)
(* nothing and a stop function does not when it cannot close the channel.  *)
StoppedIsQuiet ==
    phase = "stopped" \/ (phase = "failed" /\ call # "client") =>
        \/ ctxDone \/ expired
        \/ \A k \in DOMAIN consumers :
              Waits(consumers[k]) => consumers[k].state \in {"done", "cut"}

(* The undo, the stop function and Close return, Close unless it meets     *)
(* consumers that the application never stops and has no deadline.         *)
StopReturns ==
    \/ []<>(used # {} /\ ~expired)
    \/ phase \in {"undo", "stopping"} ~> phase \in {"failed", "stopped"}

-----------------------------------------------------------------------------
(* A New that returns an error closes the adapters it has made: the code   *)
(* drops them (client.go:111, stream_manager.go:41), with their scheduler  *)
(* goroutines and connections.                                             *)
NewUndone ==
    phase = "failed" => \A k \in DOMAIN consumers : consumers[k].state # "running"

(* stop ends the workers and the subscription gracefully (job.go:42,       *)
(* event.go:52): over RabbitMQ it returns nil over handlers that still run *)
(* when a channel was broken (jobs_impl.go:64, eventbus_impl.go:74).       *)
StopIsGraceful ==
    phase = "stopped" /\ call # "client" =>
        \/ ctxDone \/ expired
        \/ \A k \in DOMAIN consumers : consumers[k].state = "done"
=============================================================================
