---------------------------- MODULE HandlerChain ----------------------------
(***************************************************************************)
(* What a worker does with a delivered message when idempotency is         *)
(* configured: the chain of filter, idempotency middleware and handler     *)
(* that Jobs (jobs_impl.go) and EventBus (eventbus_impl.go) build, with    *)
(* the middleware of middleware_idempotency.go put first by                *)
(* wrap_defaults.go, over a key-value store whose SETNX is one step, and   *)
(* the executor of Cron (cron_dist.go), which has no middleware of its own.*)
(*                                                                         *)
(* The MQ below is abstract: it delivers an entry at least once, and after *)
(* a handler's error publishes the next attempt to every group and then    *)
(* acknowledges (RedisMQ and RabbitMQ have the details, and ImplementsCon- *)
(* tract says that it is an MQ like theirs).  A worker is a handler        *)
(* goroutine of a process of its own.                                      *)
(***************************************************************************)
EXTENDS Naturals, Sequences, FiniteSets

CONSTANTS
    Groups,        \* consumer groups, of workers and of subscriptions
    Workers,       \* goroutines that handle messages
    GroupOf,       \* the group each works for
    Msgs,          \* messages
    Gets,          \* the messages that reach each group
    Accepts,       \* those its subscription's filter accepts
    Names,         \* job names
    Tasks,         \* names of cron tasks
    NameOf,        \* the job or the task of a message; NoName for an event
    NoName,
    Keys,          \* non-empty strings that serve as idempotency keys
    NoKey,         \* the empty string
    KeyOf,         \* Message.Key: WithKey of a job, Subject of an event
    BodyOf,        \* the payload, as a key
    RegisterFirst, \* every process registers jobs and tasks before it consumes
    MayFail,       \* handlers may return an error
    SlowHandlers,  \* an entry may be redelivered while a handler runs
    MaxRetries,    \* RetryConfig.MaxRetries
    MaxPublished, MaxFaults, MaxCrashes, MaxExpiries   \* bounds of the model

RawKeys == Keys \cup {NoKey}

ASSUME ConstantsAssumption ==
    /\ IsFiniteSet(Workers)
    /\ GroupOf \in [Workers -> Groups]
    /\ Gets \in [Groups -> SUBSET Msgs]
    /\ Accepts \in [Groups -> SUBSET Msgs]
    /\ Names \cap Tasks = {}
    /\ NoName \notin Names \cup Tasks
    /\ NameOf \in [Msgs -> Names \cup Tasks \cup {NoName}]
    /\ NoKey \notin Keys
    /\ KeyOf \in [Msgs -> RawKeys]
    /\ BodyOf \in [Msgs -> RawKeys]
    /\ RegisterFirst \in BOOLEAN
    /\ MayFail \in BOOLEAN
    /\ SlowHandlers \in BOOLEAN
    /\ MaxRetries \in Nat
    /\ MaxPublished \in Nat
    /\ MaxFaults \in Nat
    /\ MaxCrashes \in Nat
    /\ MaxExpiries \in Nat

VARIABLES
    queue,       \* entries each group has not acknowledged
    reg,         \* jobs and tasks registered in each worker's process
    held,        \* the entry each worker handles, if any
    stages,      \* what is left of the chain for it
    result,      \* what the chain returned
    keys,        \* idempotency keys in the store
    published,   \* history: messages whose publish returned nil
    handled,     \* history: messages a handler of the group returned nil for
    exhausted,   \* history: messages that failed on the last attempt
    skipped,     \* history: messages the middleware returned nil for itself
    runs,        \* history: how often a handler was called for each key
    expiries,    \* history: how often each key expired
    claimants,   \* history: messages that set each key
    faults, crashes   \* counters behind MaxFaults and MaxCrashes

workerVars == <<held, stages, result>>
historyVars == <<published, handled, exhausted, skipped, runs, expiries, claimants>>
vars == <<queue, reg, workerVars, keys, historyVars, faults, crashes>>

Entry == [msg: Msgs, attempt: 0..MaxRetries]

Registered == IF RegisterFirst THEN Names \cup Tasks ELSE {}

Init ==
    /\ queue = [g \in Groups |-> {}]
    /\ reg = [w \in Workers |-> Registered]
    /\ held = [w \in Workers |-> {}]
    /\ stages = [w \in Workers |-> <<>>]
    /\ result = [w \in Workers |-> "none"]
    /\ keys = {}
    /\ published = {}
    /\ handled = [g \in Groups |-> {}]
    /\ exhausted = [g \in Groups |-> {}]
    /\ skipped = [g \in Groups |-> {}]
    /\ runs = [k \in RawKeys |-> 0]
    /\ expiries = [k \in RawKeys |-> 0]
    /\ claimants = [k \in RawKeys |-> {}]
    /\ faults = 0
    /\ crashes = 0

Fault == faults < MaxFaults /\ faults' = faults + 1

IsJob(m) == NameOf[m] \in Names
IsCron(m) == NameOf[m] \in Tasks
IsEvent(m) == NameOf[m] = NoName

-----------------------------------------------------------------------------
(* Enqueue of a job, Publish of an event, or a trigger the leader's        *)
(* scheduler publishes.                                                    *)
Publish(m) ==
    /\ m \notin published /\ Cardinality(published) < MaxPublished
    /\ published' = published \cup {m}
    /\ queue' = [g \in Groups |->
          queue[g] \cup (IF m \in Gets[g] THEN {[msg |-> m, attempt |-> 0]} ELSE {})]
    /\ UNCHANGED <<reg, workerVars, keys, handled, exhausted, skipped, runs, expiries,
                   claimants, faults, crashes>>

(* Register of a job, or Add of a task, in one process.                    *)
Register(w, n) ==
    /\ n \notin reg[w]
    /\ reg' = [reg EXCEPT ![w] = @ \cup {n}]
    /\ UNCHANGED <<queue, workerVars, keys, historyVars, faults, crashes>>

(* Remove of a task in one process.                                        *)
Unregister(w, n) ==
    /\ n \in reg[w]
    /\ reg' = [reg EXCEPT ![w] = @ \ {n}]
    /\ UNCHANGED <<queue, workerVars, keys, historyVars, faults, crashes>>

-----------------------------------------------------------------------------
(* The chain.                                                              *)

(* Outermost first.  The filter of a subscription comes before all of its  *)
(* middlewares, the default middleware before the caller's.  The faulty    *)
(* form wraps the filter into the chain as well.                           *)
Stages_FilterLast(m) ==
    CASE IsJob(m) -> <<"idempotency", "execute">>
      [] IsCron(m) -> <<"execute">>
      [] OTHER -> <<"idempotency", "filter", "execute">>

Stages(m) ==
    CASE IsJob(m) -> <<"idempotency", "execute">>
      [] IsCron(m) -> <<"execute">>
      [] OTHER -> <<"filter", "idempotency", "execute">>

(* The key: Message.Key; a job without one uses its payload (the KeyFunc   *)
(* New installs), an event has none.  Of a trigger nobody asks the key.    *)
KeyRaw(m) ==
    IF IsCron(m) THEN NoKey
    ELSE IF KeyOf[m] = NoKey /\ IsJob(m) THEN BodyOf[m]
    ELSE KeyOf[m]

(* No key, no check; the faulty form checks the empty key.                 *)
Bypass_Never(m) == FALSE
Bypass(m) == KeyRaw(m) = NoKey

(* SETNX answers true; the faulty form is a SET.                           *)
Won_Always(k) == TRUE
Won(k) == k \notin keys

HeldBy(g, e) == \E w \in Workers : GroupOf[w] = g /\ e \in held[w]

(* The MQ delivers an entry: a new one, one its worker let go of, or, when *)
(* handlers may be slow, one that another worker still handles.            *)
Receive(w, e) ==
    /\ held[w] = {}
    /\ e \in queue[GroupOf[w]]
    /\ HeldBy(GroupOf[w], e) => SlowHandlers
    /\ held' = [held EXCEPT ![w] = {e}]
    /\ stages' = [stages EXCEPT ![w] = Stages(e.msg)]
    /\ result' = [result EXCEPT ![w] = "none"]
    /\ UNCHANGED <<queue, reg, keys, historyVars, faults, crashes>>

At(w, e, stage) == e \in held[w] /\ stages[w] # <<>> /\ Head(stages[w]) = stage

CallNext(w) == stages' = [stages EXCEPT ![w] = Tail(@)] /\ UNCHANGED result

Return(w, r) ==
    /\ stages' = [stages EXCEPT ![w] = <<>>]
    /\ result' = [result EXCEPT ![w] = r]

(* buildEventHandler: an event the filter rejects is done.                 *)
Filter(w, e) ==
    /\ At(w, e, "filter")
    /\ IF e.msg \in Accepts[GroupOf[w]] THEN CallNext(w) ELSE Return(w, "rejected")
    /\ UNCHANGED <<queue, reg, held, keys, historyVars, faults, crashes>>

(* The middleware: without a key, or as the one who sets it, call next;    *)
(* skip the message when the key is there.                                 *)
Idempotency(w, e) ==
    LET m == e.msg
        k == KeyRaw(m)
    IN
    /\ At(w, e, "idempotency")
    /\ IF Bypass(m) \/ Won(k)
       THEN /\ CallNext(w)
            /\ UNCHANGED skipped
       ELSE /\ Return(w, "skipped")
            /\ skipped' = [skipped EXCEPT ![GroupOf[w]] = @ \cup {m}]
    /\ IF ~Bypass(m) /\ Won(k)
       THEN /\ keys' = keys \cup {k}
            /\ claimants' = [claimants EXCEPT ![k] = @ \cup {m}]
       ELSE UNCHANGED <<keys, claimants>>
    /\ UNCHANGED <<queue, reg, held, published, handled, exhausted, runs, expiries, faults, crashes>>

(* SETNX fails, with its effect (the reply is lost) or without: the error  *)
(* is returned.                                                            *)
IdempotencyErr(w, e, applied) ==
    LET m == e.msg
        k == KeyRaw(m)
    IN
    /\ At(w, e, "idempotency") /\ ~Bypass(m)
    /\ Fault
    /\ Return(w, "error")
    /\ IF applied /\ k \notin keys
       THEN /\ keys' = keys \cup {k}
            /\ claimants' = [claimants EXCEPT ![k] = @ \cup {m}]
       ELSE UNCHANGED <<keys, claimants>>
    /\ UNCHANGED <<queue, reg, held, published, handled, exhausted, skipped, runs,
                   expiries, crashes>>

(* The job, the task or the subscriber is called and returns nil or an     *)
(* error.                                                                  *)
CanRun(w, m) == IsEvent(m) \/ NameOf[m] \in reg[w]

Called(m) == runs' = [runs EXCEPT ![KeyRaw(m)] = @ + 1]

Execute(w, e) ==
    /\ At(w, e, "execute") /\ CanRun(w, e.msg)
    /\ Called(e.msg)
    /\ \/ /\ Return(w, "ok")
          /\ handled' = [handled EXCEPT ![GroupOf[w]] = @ \cup {e.msg}]
       \/ MayFail /\ Return(w, "error") /\ UNCHANGED handled
    /\ UNCHANGED <<queue, reg, held, keys, published, exhausted, skipped, expiries,
                   claimants, faults, crashes>>

(* A job or a task nobody registered in this process is an error as well.  *)
NotRegistered(w, e) ==
    /\ At(w, e, "execute") /\ ~CanRun(w, e.msg)
    /\ Return(w, "error")
    /\ UNCHANGED <<queue, reg, held, keys, historyVars, faults, crashes>>

-----------------------------------------------------------------------------
(* After the chain.                                                        *)

(* The copy to retry with; the faulty form forgets to count.               *)
NextAttempt_Same(e) == e
NextAttempt(e) == [e EXCEPT !.attempt = @ + 1]

(* The next attempt would be one too many; the faulty form looks at this   *)
(* one.                                                                    *)
LastAttempt_OffByOne(e) == e.attempt > MaxRetries
LastAttempt(e) == e.attempt + 1 > MaxRetries

LetGo(w) ==
    /\ held' = [held EXCEPT ![w] = {}]
    /\ result' = [result EXCEPT ![w] = "none"]

(* After an error the adapter publishes the next attempt, to every group.  *)
(* When the publish fails, with its effect or without, the entry is not    *)
(* acknowledged; the faulty form goes on to do so.                         *)
Unpublished_Acked(w) == result' = [result EXCEPT ![w] = "retried"] /\ UNCHANGED held
Unpublished(w) == LetGo(w)

Retry(w, e) ==
    /\ e \in held[w] /\ stages[w] = <<>>
    /\ result[w] = "error" /\ ~LastAttempt(e)
    /\ \E stored, ok \in BOOLEAN :
          /\ ok => stored
          /\ queue' = [g \in Groups |->
                queue[g] \cup (IF stored /\ e.msg \in Gets[g] THEN {NextAttempt(e)} ELSE {})]
          /\ IF ok
             THEN result' = [result EXCEPT ![w] = "retried"] /\ UNCHANGED <<held, faults>>
             ELSE Unpublished(w) /\ Fault
    /\ UNCHANGED <<reg, stages, keys, historyVars, crashes>>

(* Then, or when there is nothing to retry, it acknowledges, which may fail.*)
Ack(w, e) ==
    LET g == GroupOf[w]
        failed == result[w] = "error"
    IN
    /\ e \in held[w] /\ stages[w] = <<>>
    /\ failed => LastAttempt(e)
    /\ \/ queue' = [queue EXCEPT ![g] = @ \ {e}] /\ UNCHANGED faults
       \/ UNCHANGED queue /\ Fault
    /\ exhausted' = IF failed THEN [exhausted EXCEPT ![g] = @ \cup {e.msg}] ELSE exhausted
    /\ LetGo(w)
    /\ UNCHANGED <<reg, stages, keys, published, handled, skipped, runs, expiries,
                   claimants, crashes>>

(* A process dies; its entry will be delivered again.                      *)
Crash(w) ==
    /\ crashes < MaxCrashes
    /\ crashes' = crashes + 1
    /\ reg' = [reg EXCEPT ![w] = Registered]
    /\ held' = [held EXCEPT ![w] = {}]
    /\ stages' = [stages EXCEPT ![w] = <<>>]
    /\ result' = [result EXCEPT ![w] = "none"]
    /\ UNCHANGED <<queue, keys, historyVars, faults>>

(* The TTL of a key passes.                                                *)
Expire(k) ==
    /\ k \in keys
    /\ expiries[k] < MaxExpiries
    /\ keys' = keys \ {k}
    /\ expiries' = [expiries EXCEPT ![k] = @ + 1]
    /\ UNCHANGED <<queue, reg, workerVars, published, handled, exhausted, skipped, runs,
                   claimants, faults, crashes>>

-----------------------------------------------------------------------------
ChainStep(w, e) ==
    \/ Filter(w, e)
    \/ Idempotency(w, e)
    \/ \E applied \in BOOLEAN : IdempotencyErr(w, e, applied)
    \/ Execute(w, e)
    \/ NotRegistered(w, e)
    \/ Retry(w, e)
    \/ Ack(w, e)

WorkerStep(w) ==
    \/ \E e \in queue[GroupOf[w]] : Receive(w, e)
    \/ \E e \in held[w] : ChainStep(w, e)

Next ==
    \/ \E m \in Msgs : Publish(m)
    \/ \E w \in Workers, n \in Names \cup Tasks : Register(w, n)
    \/ \E w \in Workers, n \in Tasks : Unregister(w, n)
    \/ \E w \in Workers : WorkerStep(w) \/ Crash(w)
    \/ \E k \in keys : Expire(k)

Spec == Init /\ [][Next]_vars

(* Workers keep receiving, handlers and store commands return.             *)
Fairness == \A w \in Workers : WF_vars(WorkerStep(w))

FairSpec == Spec /\ Fairness

-----------------------------------------------------------------------------
(* Type invariant; a worker holds one entry, and no attempt is beyond the  *)
(* last one.                                                               *)
TypeOK ==
    /\ queue \in [Groups -> SUBSET Entry]
    /\ reg \in [Workers -> SUBSET (Names \cup Tasks)]
    /\ held \in [Workers -> SUBSET Entry]
    /\ \A w \in Workers : \A d, e \in held[w] : d = e
    /\ stages \in [Workers -> Seq({"filter", "idempotency", "execute"})]
    /\ result \in [Workers -> {"none", "rejected", "skipped", "ok", "error", "retried"}]
    /\ keys \subseteq RawKeys
    /\ published \subseteq Msgs
    /\ handled \in [Groups -> SUBSET Msgs]
    /\ exhausted \in [Groups -> SUBSET Msgs]
    /\ skipped \in [Groups -> SUBSET Msgs]
    /\ runs \in [RawKeys -> Nat]
    /\ expiries \in [RawKeys -> Nat]
    /\ claimants \in [RawKeys -> SUBSET Msgs]
    /\ faults \in Nat
    /\ crashes \in Nat

(* Tasks with one key run once in an idempotency window (job.go:68): over  *)
(* all groups, workers, redeliveries, retries, lost replies and crashes, a *)
(* handler is called for a key once more than the key has expired at most. *)
OncePerWindow == \A k \in Keys : runs[k] <= expiries[k] + 1

(* What makes it inductive: the calls made and the calls a worker is about *)
(* to make are covered by the expiries and the key in the store.           *)
Pending(k) ==
    {w \in Workers : stages[w] = <<"execute">> /\ \E e \in held[w] : KeyRaw(e.msg) = k}

KeyBudget ==
    \A k \in Keys :
        runs[k] + Cardinality(Pending(k)) <= expiries[k] + (IF k \in keys THEN 1 ELSE 0)

Queued(g, m) == \E e \in queue[g] : e.msg = m

Rejected(g, m) == IsEvent(m) /\ m \notin Accepts[g]

(* A published message reaches its end in every group it goes to: it waits *)
(* there, was handled, ran out of attempts or was rejected by the filter;  *)
(* only a message with a key can be skipped instead.                       *)
NoneForgotten ==
    \A g \in Groups : \A m \in published \cap Gets[g] :
        \/ Queued(g, m)
        \/ m \in handled[g] \cup exhausted[g]
        \/ Rejected(g, m)
        \/ m \in skipped[g] /\ KeyRaw(m) # NoKey

(* What it rests on: a worker that is about to acknowledge an entry without*)
(* a retry has the reason on record.                                       *)
Backed(w, e) ==
    LET g == GroupOf[w]
    IN
    CASE result[w] = "ok" -> e.msg \in handled[g]
      [] result[w] = "skipped" -> e.msg \in skipped[g]
      [] result[w] = "rejected" -> Rejected(g, e.msg)
      [] OTHER -> result[w] \in {"error", "retried"}

ResultBacked ==
    \A w \in Workers : \A e \in held[w] :
        \/ stages[w] = <<>> /\ Backed(w, e)
        \/ stages[w] = <<"execute">>
        \/ stages[w] = <<"idempotency", "execute">>
        \/ stages[w] = <<"filter", "idempotency", "execute">> /\ IsEvent(e.msg)

(* The filter comes first: an event that every group it reaches rejects    *)
(* never sets a key, which would have another message with that key        *)
(* skipped and dropped although no handler ever saw the first one.         *)
RejectedTakesNoKey ==
    \A k \in Keys : \A m \in claimants[k] :
        \E g \in Groups : m \in Gets[g] /\ ~Rejected(g, m)

(* No message is retried or redelivered for ever: each published message   *)
(* leaves the queue of every group for good.                               *)
EventuallyLeaves ==
    \A g \in Groups, m \in Msgs :
        m \in published ~> [](~Queued(g, m))

(* To the handlers behind the chain each group is one of an MQ that keeps  *)
(* its contract: a message the group wants has been handled, skipped or has*)
(* used up its attempts, or an attempt of it is pending, and attempts come *)
(* in order and none beyond the last, whatever the filter, the middleware  *)
(* and the other groups' retries do.                                       *)
Wanted(g) == {m \in Gets[g] : ~Rejected(g, m)}

Contract == INSTANCE AtLeastOnce
    WITH owed <- [g \in Groups |-> published \cap Wanted(g)],
         pending <- [g \in Groups |-> {e \in queue[g] : e.msg \in Wanted(g)}],
         settled <- [g \in Groups |-> handled[g] \cup exhausted[g] \cup skipped[g]]

ImplementsContract == Contract!Spec

(* What the middleware calls processed (middleware_idempotency.go:64) has  *)
(* been or will be handled: someone's handler for the key returns nil.     *)
SkippedWasProcessed ==
    \A g \in Groups, m \in Msgs :
        m \in skipped[g] ~>
            \E h \in Groups : \E n \in handled[h] : KeyRaw(n) = KeyRaw(m)

-----------------------------------------------------------------------------
(* What the repository says and the code does not do.                      *)

(* The key of a job is its name and its payload                            *)
(* (middleware_idempotency.go:71): New installs the payload alone, and a   *)
(* job is skipped on account of another one.                               *)
SkippedForSameJob ==
    \A g \in Groups : \A m \in skipped[g] :
        IsJob(m) => \E n \in claimants[KeyRaw(m)] : NameOf[n] = NameOf[m]

(* A subscriber misses only the events its filter rejects (event.go:51):   *)
(* the Subject is the key, and the second event about it is skipped.       *)
AcceptedIsHandled ==
    \A g \in Groups, m \in Msgs :
        m \in published /\ m \in Gets[g] \cap Accepts[g] ~>
            m \in handled[g] \cup exhausted[g]
=============================================================================
