------------------------------ MODULE CronDist ------------------------------
(***************************************************************************)
(* Distributed Cron of taskbus (cron_dist.go): Add, Remove, Start and Stop *)
(* of each instance, its leader loop over the Redis lock or the RabbitMQ   *)
(* leader queue, the goroutine that watches over every term of a leader,   *)
(* and the schedulers it creates.                                          *)
(*                                                                         *)
(* One attempt that made its instance leader is a term; a term's number    *)
(* stands for its leaderID, its leaderCtx and, over RabbitMQ, its          *)
(* connection.  A critical section of mu is one step; SETNX, the release   *)
(* script and the renewal's GET are each one step.  Time is abstract: the  *)
(* lease of a term may run out once nothing renews it and, MaxLate times,  *)
(* before a renewal that comes late.                                       *)
(***************************************************************************)
EXTENDS Naturals, Sequences, FiniteSets, Bags, BagsExt

CONSTANTS
    Instances,     \* processes that run the Cron of one namespace
    Names,         \* task names
    Providers,     \* the values of MQ.Provider: "redis", "rabbitmq"
    MayStop,       \* instances on which the application may call Stop
    MayCancel,     \* those whose context given to Start it may cancel
    MayEdit,       \* the application may call Add and Remove once started
    MayMistype,    \* it may give Add a spec that does not parse
    MaxLate,       \* how many leases may run out before a renewal comes
    MaxTerms, MaxScheds,   \* bounds of the model
    MaxFailures            \* failed commands and crashes together

ASSUME ConstantsAssumption ==
    /\ Providers \subseteq {"redis", "rabbitmq"}
    /\ MayStop \subseteq Instances
    /\ MayCancel \subseteq Instances
    /\ MayEdit \in BOOLEAN
    /\ MayMistype \in BOOLEAN
    /\ MaxLate \in Nat
    /\ MaxTerms \in Nat
    /\ MaxScheds \in Nat
    /\ MaxFailures \in Nat

VARIABLES
    provider,      \* MQ.Provider of the deployment
    lock,          \* the term that holds the Redis key or the exclusive queue,
                   \* 0 when it is free
    owner,         \* the instance that acquired each term
    cancelled,     \* terms whose leaderCtx was cancelled or never made
    renewing,      \* terms whose renewal or connection watcher goroutine runs
    late,          \* history: terms whose lease ran out under their leader
    declaring,     \* terms whose queue.declare is on its way to the broker
    open,          \* terms whose connection to the broker is open
    pc,            \* where the leader loop of each instance is
    term,          \* the term its loop has acquired last
    stopped,       \* stopCh is closed
    ctxDone,       \* the context given to Start is cancelled
    leaderCancel,  \* the field of that name, as a term; 0 is nil
    leaderCtx,     \* the field of that name, as a term; 0 is nil
    reg,           \* registered tasks, one of a name
    cron,          \* the field of that name, as an index of scheds; 0 is nil
    rebuild,       \* contexts of the Removes that have unlocked mu, a bag
    scheds,        \* the schedulers created so far
    failures       \* the counter behind MaxFailures

lockVars == <<provider, lock, owner, cancelled, renewing, late, declaring, open>>
brokerVars == <<provider, declaring, open>>
loopVars == <<pc, term, stopped, ctxDone>>
fieldVars == <<leaderCancel, leaderCtx, reg, cron, rebuild, scheds>>
vars == <<lockVars, loopVars, fieldVars, failures>>

Terms == DOMAIN owner

(* A registered task; valid says that AddFunc accepts its spec.            *)
Task == [name: Names, valid: BOOLEAN]

(* A scheduler entry publishes under the context it captured; 0 stands for *)
(* context.Background.                                                     *)
SchedEntry == [name: Names, ctx: Nat]
Scheduler == [owner: Instances, running: BOOLEAN, entries: SUBSET SchedEntry]

Init ==
    /\ provider \in Providers
    /\ lock = 0
    /\ owner = <<>>
    /\ cancelled = {}
    /\ renewing = {}
    /\ late = {}
    /\ declaring = {}
    /\ open = {}
    /\ pc = [i \in Instances |-> "off"]
    /\ term = [i \in Instances |-> 0]
    /\ stopped = [i \in Instances |-> FALSE]
    /\ ctxDone = [i \in Instances |-> FALSE]
    /\ leaderCancel = [i \in Instances |-> 0]
    /\ leaderCtx = [i \in Instances |-> 0]
    /\ reg = [i \in Instances |-> {}]
    /\ cron = [i \in Instances |-> 0]
    /\ rebuild = [i \in Instances |-> EmptyBag]
    /\ scheds = <<>>
    /\ failures = 0

(* leaderCtx of a term is not done: neither it nor its parent is cancelled.*)
CtxLive(t) == t \in Terms \ cancelled /\ ~ctxDone[owner[t]]

Failure == failures < MaxFailures /\ failures' = failures + 1

-----------------------------------------------------------------------------
(* Schedulers.                                                             *)

(* AddFunc for each of the tasks: one with an invalid spec gets no entry.  *)
Entries(tasks, ctx) ==
    {[name |-> t.name, ctx |-> ctx] : t \in {u \in tasks : u.valid}}

(* startScheduler(ctx): a new scheduler with the registered tasks, the     *)
(* errors of AddFunc discarded.  The field is overwritten whatever it held.*)
(* The faulty form leaves the tasks out.                                   *)
StartSched_Empty(i, ctx) ==
    /\ Len(scheds) < MaxScheds
    /\ scheds' = Append(scheds, [owner |-> i, running |-> TRUE, entries |-> {}])
    /\ cron' = [cron EXCEPT ![i] = Len(scheds) + 1]

StartSched(i, ctx) ==
    /\ Len(scheds) < MaxScheds
    /\ scheds' = Append(scheds, [owner |-> i, running |-> TRUE,
                                 entries |-> Entries(reg[i], ctx)])
    /\ cron' = [cron EXCEPT ![i] = Len(scheds) + 1]

(* cd.cron.Stop and cd.cron = nil, when there is a scheduler.  The faulty  *)
(* form forgets the second.                                                *)
StopSched_Keep(i) ==
    /\ scheds' = IF cron[i] = 0 THEN scheds
                 ELSE [scheds EXCEPT ![cron[i]].running = FALSE]
    /\ UNCHANGED cron

StopSched(i) ==
    /\ scheds' = IF cron[i] = 0 THEN scheds
                 ELSE [scheds EXCEPT ![cron[i]].running = FALSE]
    /\ cron' = [cron EXCEPT ![i] = 0]

(* delete(cd.reg, name).                                                   *)
Without(tasks, n) == {t \in tasks : t.name # n}

(* Add: register in place of the task of that name, and schedule at once on*)
(* a leader, under Background.  An invalid spec stays registered, with an  *)
(* error on a leader and with nil elsewhere.                               *)
Add(i, t) ==
    /\ pc[i] = "off" \/ MayEdit
    /\ t.valid \/ MayMistype
    /\ reg' = [reg EXCEPT ![i] = Without(@, t.name) \cup {t}]
    /\ scheds' = IF cron[i] = 0 THEN scheds
                 ELSE [scheds EXCEPT ![cron[i]].entries = @ \cup Entries({t}, 0)]
    /\ UNCHANGED <<lockVars, loopVars, leaderCancel, leaderCtx, cron, rebuild,
                   failures>>

(* Remove up to the Unlock in rebuildSchedulerLocked: on a leader the      *)
(* scheduler is gone and the context for the next one is chosen.           *)
Remove(i, n) ==
    /\ MayEdit
    /\ reg' = [reg EXCEPT ![i] = Without(@, n)]
    /\ StopSched(i)
    /\ rebuild' = IF cron[i] = 0 THEN rebuild
                  ELSE [rebuild EXCEPT ![i] = BagAdd(@, leaderCtx[i])]
    /\ UNCHANGED <<lockVars, loopVars, leaderCancel, leaderCtx, failures>>

(* The rest of it: startScheduler takes mu again.                          *)
Rebuild(i) ==
    /\ \E ctx \in DOMAIN rebuild[i] :
          /\ StartSched(i, ctx)
          /\ rebuild' = [rebuild EXCEPT ![i] = BagRemove(@, ctx)]
    /\ UNCHANGED <<lockVars, loopVars, leaderCancel, leaderCtx, reg, failures>>

-----------------------------------------------------------------------------
(* Start, Stop and the leader loop.                                        *)

(* Start: the executor's Consume (see RedisMQ), then go leaderLoop.        *)
Start(i) ==
    /\ pc[i] = "off"
    /\ pc' = [pc EXCEPT ![i] = "top"]
    /\ UNCHANGED <<lockVars, term, stopped, ctxDone, fieldVars, failures>>

(* Stop: close stopCh, and cancel what leaderCancel holds at this moment.  *)
Stop(i) ==
    /\ i \in MayStop
    /\ pc[i] # "off"
    /\ stopped' = [stopped EXCEPT ![i] = TRUE]
    /\ cancelled' = cancelled \cup ({leaderCancel[i]} \ {0})
    /\ UNCHANGED <<brokerVars, lock, owner, renewing, late, pc, term, ctxDone, fieldVars,
                   failures>>

(* The application cancels the context it gave to Start.                   *)
CancelCtx(i) ==
    /\ i \in MayCancel
    /\ pc[i] # "off"
    /\ ctxDone' = [ctxDone EXCEPT ![i] = TRUE]
    /\ UNCHANGED <<lockVars, pc, term, stopped, fieldVars, failures>>

(* The loop's two selects on stopCh and ctx.Done; the faulty form has only *)
(* the first channel.                                                      *)
Quit_StopOnly(i) == stopped[i]
Quit(i) == stopped[i] \/ ctxDone[i]

LoopTop(i) ==
    /\ pc[i] = "top"
    /\ pc' = [pc EXCEPT ![i] = IF Quit(i) THEN "exited" ELSE "try"]
    /\ UNCHANGED <<lockVars, term, stopped, ctxDone, fieldVars, failures>>

(* The ticker after an attempt or a term; the faulty form ends the loop    *)
(* instead of trying again.                                                *)
Wait_Once(i) ==
    /\ pc[i] = "wait"
    /\ pc' = [pc EXCEPT ![i] = "exited"]
    /\ UNCHANGED <<lockVars, term, stopped, ctxDone, fieldVars, failures>>

Wait(i) ==
    /\ pc[i] = "wait"
    /\ pc' = [pc EXCEPT ![i] = IF Quit(i) THEN "exited" ELSE "top"]
    /\ UNCHANGED <<lockVars, term, stopped, ctxDone, fieldVars, failures>>

(* SETNX took the key.  When its reply is lost the loop does not know, and *)
(* the term has no leader.                                                 *)
Acquire(i, known) ==
    LET t == Len(owner) + 1
    IN
    /\ provider = "redis"
    /\ pc[i] = "try" /\ ~ctxDone[i]
    /\ lock = 0
    /\ t <= MaxTerms
    /\ lock' = t
    /\ owner' = Append(owner, i)
    /\ IF known
       THEN /\ pc' = [pc EXCEPT ![i] = "won"]
            /\ term' = [term EXCEPT ![i] = t]
            /\ UNCHANGED <<cancelled, failures>>
       ELSE /\ Failure
            /\ pc' = [pc EXCEPT ![i] = "wait"]
            /\ cancelled' = cancelled \cup {t}
            /\ UNCHANGED term
    /\ UNCHANGED <<brokerVars, renewing, late, stopped, ctxDone, fieldVars>>

(* SETNX answered that the key exists, or failed.                          *)
Refused(i) ==
    /\ provider = "redis"
    /\ pc[i] = "try"
    /\ \/ lock # 0 /\ UNCHANGED failures
       \/ ctxDone[i] /\ UNCHANGED failures
       \/ Failure
    /\ pc' = [pc EXCEPT ![i] = "wait"]
    /\ UNCHANGED <<lockVars, term, stopped, ctxDone, fieldVars>>

(* tryLeaderWithRabbit: dial, open a channel and declare the exclusive     *)
(* queue with noWait, which returns before the broker has seen it.  ctx is *)
(* not consulted.                                                          *)
Declare(i) ==
    LET t == Len(owner) + 1
    IN
    /\ provider = "rabbitmq"
    /\ pc[i] = "try"
    /\ t <= MaxTerms
    /\ owner' = Append(owner, i)
    /\ open' = open \cup {t}
    /\ declaring' = declaring \cup {t}
    /\ pc' = [pc EXCEPT ![i] = "won"]
    /\ term' = [term EXCEPT ![i] = t]
    /\ UNCHANGED <<provider, lock, cancelled, renewing, late, stopped, ctxDone, fieldVars,
                   failures>>

(* Dial, Channel or sending the declaration fails; the connection, if there*)
(* is one, is closed.                                                      *)
DialFails(i) ==
    /\ provider = "rabbitmq"
    /\ pc[i] = "try"
    /\ Failure
    /\ pc' = [pc EXCEPT ![i] = "wait"]
    /\ UNCHANGED <<lockVars, term, stopped, ctxDone, fieldVars>>

(* Make leaderCtx, set leaderCancel under mu, start the goroutine of the   *)
(* term.                                                                   *)
SetCancel(i) ==
    /\ pc[i] = "won"
    /\ leaderCancel' = [leaderCancel EXCEPT ![i] = term[i]]
    /\ renewing' = renewing \cup {term[i]}
    /\ pc' = [pc EXCEPT ![i] = "elected"]
    /\ UNCHANGED <<brokerVars, lock, owner, cancelled, late, term, stopped, ctxDone, leaderCtx,
                   reg, cron, rebuild, scheds, failures>>

SetCtx(i) ==
    /\ pc[i] = "elected"
    /\ leaderCtx' = [leaderCtx EXCEPT ![i] = term[i]]
    /\ pc' = [pc EXCEPT ![i] = "starting"]
    /\ UNCHANGED <<lockVars, term, stopped, ctxDone, leaderCancel, reg, cron, rebuild, scheds,
                   failures>>

StartScheduler(i) ==
    /\ pc[i] = "starting"
    /\ StartSched(i, term[i])
    /\ pc' = [pc EXCEPT ![i] = "leading"]
    /\ UNCHANGED <<lockVars, term, stopped, ctxDone, leaderCancel, leaderCtx, reg, rebuild,
                   failures>>

(* leaderCtx.Done: stopScheduler, then the cleanup of a RabbitMQ term, then*)
(* wait before the next attempt.                                           *)
StopScheduler(i) ==
    /\ pc[i] = "leading"
    /\ ~CtxLive(term[i])
    /\ StopSched(i)
    /\ pc' = [pc EXCEPT ![i] = IF provider = "redis" THEN "wait" ELSE "cleanup"]
    /\ UNCHANGED <<lockVars, term, stopped, ctxDone, leaderCancel, leaderCtx, reg, rebuild,
                   failures>>

(* cleanup: close the connection, with which its exclusive queue goes.     *)
Closed(t) ==
    /\ open' = open \ {t}
    /\ lock' = IF lock = t THEN 0 ELSE lock

Cleanup(i) ==
    /\ pc[i] = "cleanup"
    /\ Closed(term[i])
    /\ declaring' = declaring \ {term[i]}
    /\ pc' = [pc EXCEPT ![i] = "wait"]
    /\ UNCHANGED <<provider, owner, cancelled, renewing, late, term, stopped, ctxDone, fieldVars,
                   failures>>

-----------------------------------------------------------------------------
(* The goroutine of a term: renewal over Redis, watcher over RabbitMQ.     *)

(* The release script deletes the key only when it still holds leaderID;   *)
(* the faulty form deletes it anyway.                                      *)
AfterRelease_Any(t) == 0
AfterRelease(t) == IF lock = t THEN 0 ELSE lock

(* leaderCtx.Done: release and end.  An error leaves the key to its TTL.   *)
Release(t) ==
    /\ provider = "redis"
    /\ t \in renewing /\ ~CtxLive(t)
    /\ \/ lock' = AfterRelease(t) /\ UNCHANGED failures
       \/ Failure /\ UNCHANGED lock
    /\ renewing' = renewing \ {t}
    /\ UNCHANGED <<brokerVars, owner, cancelled, late, loopVars, fieldVars>>

(* cancel(); the faulty form only ends the goroutine.                      *)
StepDown_Silent(t) == UNCHANGED cancelled
StepDown(t) == cancelled' = cancelled \cup {t}

(* A tick whose GET fails or finds another leaderID.  One that finds its   *)
(* own renews the lease, which changes nothing here.                       *)
RenewFails(t) ==
    /\ provider = "redis"
    /\ t \in renewing
    /\ \/ lock # t /\ UNCHANGED failures
       \/ Failure
    /\ StepDown(t)
    /\ renewing' = renewing \ {t}
    /\ UNCHANGED <<brokerVars, lock, owner, late, loopVars, fieldVars>>

(* The watcher: it ends with leaderCtx, or cancels it when the connection  *)
(* closes.  That the channel was closed it does not see.                   *)
WatchEnds(t) ==
    /\ provider = "rabbitmq"
    /\ t \in renewing
    /\ \/ ~CtxLive(t) /\ UNCHANGED cancelled
       \/ t \notin open /\ StepDown(t)
    /\ renewing' = renewing \ {t}
    /\ UNCHANGED <<brokerVars, lock, owner, late, loopVars, fieldVars, failures>>

(* The process of the term's leader looks after the term: its goroutine    *)
(* runs, or is about to be started.                                        *)
Held(t) == t \in renewing \/ (pc[owner[t]] = "won" /\ term[owner[t]] = t)

(* The lease runs out.                                                     *)
Expire ==
    /\ provider = "redis"
    /\ lock # 0
    /\ Held(lock) => Cardinality(late) < MaxLate
    /\ lock' = 0
    /\ late' = IF Held(lock) THEN late \cup {lock} ELSE late
    /\ UNCHANGED <<brokerVars, owner, cancelled, renewing, loopVars, fieldVars, failures>>

(* The broker gets a queue.declare: the queue is the connection's when no  *)
(* other one has it, otherwise the broker closes the channel, which nobody *)
(* watches.                                                                *)
BrokerDeclare(t) ==
    /\ t \in declaring
    /\ lock' = IF lock = 0 THEN t ELSE lock
    /\ declaring' = declaring \ {t}
    /\ UNCHANGED <<provider, owner, cancelled, renewing, late, open, loopVars, fieldVars, failures>>

ConnLost(t) ==
    /\ t \in open
    /\ Failure
    /\ open' = open \ {t}
    /\ UNCHANGED <<provider, lock, owner, cancelled, renewing, late, declaring, loopVars, fieldVars>>

(* The broker notices that the connection of its owner is gone, and deletes*)
(* the exclusive queue.                                                    *)
BrokerDrop ==
    /\ provider = "rabbitmq"
    /\ lock # 0 /\ lock \notin open
    /\ lock' = 0
    /\ UNCHANGED <<brokerVars, owner, cancelled, renewing, late, loopVars, fieldVars, failures>>

(* A process dies; a new one has registered nothing yet.                   *)
Crash(i) ==
    LET mine == {t \in Terms : owner[t] = i}
    IN
    /\ Failure
    /\ pc[i] # "off"
    /\ cancelled' = cancelled \cup mine
    /\ renewing' = renewing \ mine
    /\ scheds' = [s \in DOMAIN scheds |->
                     IF scheds[s].owner = i THEN [scheds[s] EXCEPT !.running = FALSE]
                                            ELSE scheds[s]]
    /\ pc' = [pc EXCEPT ![i] = "off"]
    /\ term' = [term EXCEPT ![i] = 0]
    /\ stopped' = [stopped EXCEPT ![i] = FALSE]
    /\ ctxDone' = [ctxDone EXCEPT ![i] = FALSE]
    /\ leaderCancel' = [leaderCancel EXCEPT ![i] = 0]
    /\ leaderCtx' = [leaderCtx EXCEPT ![i] = 0]
    /\ reg' = [reg EXCEPT ![i] = {}]
    /\ cron' = [cron EXCEPT ![i] = 0]
    /\ rebuild' = [rebuild EXCEPT ![i] = EmptyBag]
    /\ open' = open \ mine
    /\ UNCHANGED <<provider, lock, owner, late, declaring>>

-----------------------------------------------------------------------------
LoopStep(i) ==
    \/ LoopTop(i)
    \/ \E known \in BOOLEAN : Acquire(i, known)
    \/ Refused(i)
    \/ Declare(i)
    \/ DialFails(i)
    \/ SetCancel(i)
    \/ SetCtx(i)
    \/ StartScheduler(i)
    \/ StopScheduler(i)
    \/ Cleanup(i)
    \/ Wait(i)

TermStep(t) == Release(t) \/ RenewFails(t) \/ WatchEnds(t)

Next ==
    \/ \E i \in Instances, t \in Task : Add(i, t)
    \/ \E i \in Instances, n \in Names : Remove(i, n)
    \/ \E i \in Instances : Rebuild(i) \/ Start(i) \/ Stop(i) \/ CancelCtx(i) \/ Crash(i)
    \/ \E i \in Instances : LoopStep(i)
    \/ \E t \in renewing : TermStep(t)
    \/ \E t \in declaring : BrokerDeclare(t)
    \/ \E t \in open : ConnLost(t)
    \/ Expire \/ BrokerDrop

Spec == Init /\ [][Next]_vars

(* Goroutines run, tickers tick, leases nobody renews run out, the broker  *)
(* answers.  Nothing is assumed of what the application does.              *)
Fairness ==
    /\ \A i \in Instances : WF_vars(LoopStep(i)) /\ WF_vars(Rebuild(i))
    /\ \A t \in 1..MaxTerms : WF_vars(TermStep(t)) /\ WF_vars(BrokerDeclare(t))
    /\ WF_vars(Expire /\ ~Held(lock))
    /\ WF_vars(BrokerDrop)

FairSpec == Spec /\ Fairness

-----------------------------------------------------------------------------
(* Type invariant; the scheduler in the field cron is the instance's own   *)
(* and runs.                                                               *)
TypeOK ==
    /\ provider \in Providers
    /\ owner \in Seq(Instances)
    /\ lock \in {0} \cup Terms
    /\ cancelled \subseteq Terms
    /\ renewing \subseteq Terms
    /\ late \subseteq Terms
    /\ declaring \subseteq Terms
    /\ open \subseteq Terms
    /\ pc \in [Instances -> {"off", "top", "try", "won", "elected", "starting",
                             "leading", "cleanup", "wait", "exited"}]
    /\ term \in [Instances -> {0} \cup Terms]
    /\ stopped \in [Instances -> BOOLEAN]
    /\ ctxDone \in [Instances -> BOOLEAN]
    /\ leaderCancel \in [Instances -> {0} \cup Terms]
    /\ leaderCtx \in [Instances -> {0} \cup Terms]
    /\ reg \in [Instances -> SUBSET Task]
    /\ \A i \in Instances : \A t, u \in reg[i] : t.name = u.name => t = u
    /\ scheds \in Seq(Scheduler)
    /\ cron \in [Instances -> {0} \cup DOMAIN scheds]
    /\ \A i \in Instances : cron[i] # 0 =>
          scheds[cron[i]].owner = i /\ scheds[cron[i]].running
    /\ DOMAIN rebuild = Instances
    /\ \A i \in Instances : DOMAIN rebuild[i] \subseteq {0} \cup Terms
    /\ failures \in Nat

(* Over Redis, a term whose leaderCtx is live holds the lock, unless its   *)
(* lease ran out under it: no release, no failed renewal, no lost reply, no*)
(* crash and no Stop ever leaves an instance leading without the lock.     *)
LeaderHoldsLock ==
    provider = "redis" => \A t \in Terms : CtxLive(t) => lock = t \/ t \in late

(* What LeaderHoldsLock rests on: something renews the lease, or watches   *)
(* the connection, of a live term, and only the loop of its owner is about *)
(* to start that.                                                          *)
LeaderRenews == \A t \in Terms : CtxLive(t) => Held(t)

(* Over Redis the leaders, the key and its lease behave as a lease should: *)
(* terms are granted one after the other over a free lock, none leads again*)
(* once it has ended, and nothing but time takes the lock from a leader.   *)
OverRedis(x, otherwise) == IF provider = "redis" THEN x ELSE otherwise

Election == INSTANCE Lease
    WITH granted <- OverRedis(Len(owner), 0),
         holder <- OverRedis(lock, 0),
         leading <- OverRedis({t \in Terms : CtxLive(t)}, {}),
         ousted <- OverRedis(late, {})

ImplementsLease == Election!Spec

(* Instance i publishes the triggers of task n.                            *)
Publishes(i, n) ==
    \E s \in DOMAIN scheds :
        /\ scheds[s].owner = i /\ scheds[s].running
        /\ \E e \in scheds[s].entries : e.name = n /\ (e.ctx = 0 \/ CtxLive(e.ctx))

(* Once a leader has started its scheduler it triggers every task with a   *)
(* valid spec registered on it, whatever Add, Remove and re-election did in*)
(* which order (cron_dist.go:351), except within a Remove that has taken   *)
(* its scheduler away.                                                     *)
LeaderSchedules ==
    \A i \in Instances :
        pc[i] = "leading" /\ CtxLive(term[i]) /\ term[i] \notin DOMAIN rebuild[i] =>
            \A t \in reg[i] : t.valid => Publishes(i, t.name)

(* An instance that wants to lead does not wait for ever while nobody does:*)
(* the lock of a crashed or failed leader becomes free and is taken.       *)
LeaderElected ==
    \A i \in Instances :
        pc[i] # "off" /\ ~Quit(i) ~>
            Quit(i) \/ pc[i] = "off" \/ \E t \in Terms : CtxLive(t)

(* A leader that lost the lock to a late renewal, or its connection, finds *)
(* out and steps down.                                                     *)
Ousted(t) == IF provider = "redis" THEN lock # t ELSE t \notin open

StaleLeaderStepsDown ==
    \A t \in 1..MaxTerms : (t \in Terms /\ CtxLive(t) /\ Ousted(t)) ~> ~CtxLive(t)

(* Cancelling the context given to Start ends the loop and frees the lock, *)
(* the Redis key as well as the exclusive queue.                           *)
CancelTakesEffect ==
    \A i \in Instances : ctxDone[i] ~>
        pc[i] \in {"exited", "off"} /\ (lock = 0 \/ owner[lock] # i \/ pc[i] = "off")

-----------------------------------------------------------------------------
(* What the repository says of Cron and the code does not do.              *)

(* Only the leader runs a scheduler (cron_dist.go:18), the exclusive queue *)
(* is the lock (cron_dist.go:194): over RabbitMQ nobody waits for the      *)
(* broker's answer, so every instance leads; over Redis two do after a late*)
(* renewal.                                                                *)
OnlyLeaderSchedules ==
    \A i, j \in Instances, n \in Names : Publishes(i, n) /\ Publishes(j, n) => i = j

(* The scheduler triggers the registered tasks by their specs              *)
(* (cron_dist.go:18), and Add has an error to return for one it cannot     *)
(* schedule (cron_dist.go:72): where no scheduler runs Add looks at no     *)
(* spec, and startScheduler discards the error (cron_dist.go:326).         *)
RegisteredIsScheduled ==
    \A i \in Instances :
        pc[i] = "leading" /\ CtxLive(term[i]) /\ term[i] \notin DOMAIN rebuild[i] =>
            \A t \in reg[i] : Publishes(i, t.name)

(* Stop stops the Cron service (cron_dist.go:105): a Stop that meets the   *)
(* loop between its look at stopCh and the assignment of leaderCancel does *)
(* not, and the instance leads on.                                         *)
StopTakesEffect ==
    \A i \in Instances : stopped[i] ~> pc[i] \in {"exited", "off"}

(* The caller of rebuildSchedulerLocked holds mu (cron_dist.go:341): it    *)
(* gives mu up before startScheduler, so the loop can stop leading and end *)
(* in between, and the scheduler started then is never stopped.            *)
ExitedIsQuiet ==
    \A s \in DOMAIN scheds : scheds[s].running => pc[scheds[s].owner] # "exited"

(* A name identifies one task (cron_dist.go:23, cron.go:31): adding it     *)
(* again on a leader schedules it twice.                                   *)
OneEntryPerName ==
    \A s \in DOMAIN scheds : scheds[s].running =>
        \A d, e \in scheds[s].entries : d.name = e.name => d = e
=============================================================================
