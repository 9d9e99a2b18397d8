------------------------------ MODULE RedisMQ ------------------------------
(***************************************************************************)
(* The Redis adapter of taskbus (redis_adapter.go): Publish, PublishDelay, *)
(* Consume with its loop and its handler goroutines, the delay scheduler   *)
(* every adapter instance runs, stop and Close, over one Redis stream.     *)
(*                                                                         *)
(* The Redis server itself is external and modelled by the commands the    *)
(* adapter sends: XADD, ZADD, ZRANGEBYSCORE, ZREM, XGROUP CREATE,          *)
(* XREADGROUP, XAUTOCLAIM and XACK, each one atomic step.  A command can   *)
(* fail, having had its effect (the reply is lost) or not, and it fails    *)
(* without effect when its context is cancelled or its client is closed.   *)
(*                                                                         *)
(* Time is abstract: a delayed member is due or not yet due, a pending     *)
(* entry has been idle for redisClaimMinIdle or has not.                   *)
(***************************************************************************)
EXTENDS Naturals, Sequences, FiniteSets

CONSTANTS
    Procs,        \* adapter instances (newRedisAdapter)
    Groups,       \* consumer groups
    Consumers,    \* Consume calls
    ProcOf,       \* the instance each Consume call is made on
    GroupOf,      \* the group it joins
    Matches,      \* the messages its pattern matches (matchTopic)
    Msgs,         \* message identities: topic, key, body and user headers
    MaxRetries,   \* RetryConfig.MaxRetries
    Concurrency,  \* RedisConfig.ConsumerConcurrency, after defaults
    ScanCount,    \* Count of the scheduler's ZRANGEBYSCORE (100 in the code)
    AutoClaimKnown, \* the consumers whose server knows XAUTOCLAIM (Redis 6.2;
                  \* not all of them where the server is upgraded meanwhile)
    SlowHandlers, \* a handler may run for longer than redisClaimMinIdle
    MayStop,      \* the application may call stop and Close
    CloseDeadline, \* the context given to Close has a deadline
    Faults,       \* the commands that may fail while the client is usable
    MaxFaults, MaxCrashes, MaxPublish, MaxStream   \* bounds of the model

Commands == {"xadd", "zadd", "zrem", "xgroup", "xreadgroup", "xautoclaim", "xack"}

ASSUME ConstantsAssumption ==
    /\ ProcOf \in [Consumers -> Procs]
    /\ GroupOf \in [Consumers -> Groups]
    /\ Matches \in [Consumers -> SUBSET Msgs]
    /\ MaxRetries \in Nat
    /\ Concurrency \in Nat \ {0}
    /\ ScanCount \in Nat \ {0}
    /\ AutoClaimKnown \subseteq Consumers
    /\ SlowHandlers \in BOOLEAN
    /\ MayStop \in BOOLEAN
    /\ CloseDeadline \in BOOLEAN
    /\ Faults \subseteq Commands
    /\ MaxFaults \in Nat
    /\ MaxCrashes \in Nat
    /\ MaxPublish \in Nat
    /\ MaxStream \in Nat

VARIABLES
    stream,      \* the entries added so far; an entry's index is its ID
    groups,      \* the groups that exist on the stream
    delivered,   \* last-delivered ID of each group
    pel,         \* pending IDs of each group
    idle,        \* those idle for at least redisClaimMinIdle
    zset,        \* the members of tq:delay
    due,         \* those whose score has passed
    schedUp,     \* the delay scheduler goroutine of each instance runs
    taken,       \* members its current scan returned and it has not published
    removing,    \* the member it has published and not yet removed
    cpc,         \* where each consumer's loop is
    cancelled,   \* cctx of each consumer is cancelled
    autoClaim,   \* the consumer's flag of that name
    claimStart,  \* its XAUTOCLAIM cursor; 0 stands for "0-0"
    fetched,     \* IDs it has received and not dispatched
    slot,        \* its handler goroutines, one per semaphore token
    life,        \* state of each adapter instance
    accepted,    \* history: how often a publish of each message returned nil
    handled,     \* history: messages a handler of the group returned nil for
    exhausted,   \* history: messages a handler failed for on the last attempt
    swallowed,   \* history: messages the scheduler's XADD failed for
    faults, crashes   \* counters behind MaxFaults and MaxCrashes

redisVars == <<stream, groups, delivered, pel, idle, zset, due>>
schedVars == <<schedUp, taken, removing>>
loopVars == <<cpc, cancelled, autoClaim, claimStart, fetched>>
historyVars == <<accepted, handled, exhausted, swallowed>>
vars == <<redisVars, schedVars, loopVars, slot, life, historyVars, faults, crashes>>

Slots == 1..Concurrency

(* A message as the stream and the delay set hold it: the identity and the *)
(* x-retry-count header.  A member of tq:delay is the JSON of these, so    *)
(* two delayed messages that agree on both are one member.                 *)
Entry == [msg: Msgs, attempt: 0..MaxRetries]

(* A handler goroutine: idle token, running the handler, about to publish  *)
(* the retry, about to acknowledge.                                        *)
Task == [pc: {"free", "exec", "retry", "ack"}, id: Nat]
Free == [pc |-> "free", id |-> 0]

Init ==
    /\ stream = <<>>
    /\ groups = {}
    /\ delivered = [g \in Groups |-> 0]
    /\ pel = [g \in Groups |-> {}]
    /\ idle = [g \in Groups |-> {}]
    /\ zset = {}
    /\ due = {}
    /\ schedUp = [p \in Procs |-> TRUE]
    /\ taken = [p \in Procs |-> {}]
    /\ removing = [p \in Procs |-> {}]
    /\ cpc = [c \in Consumers |-> "off"]
    /\ cancelled = [c \in Consumers |-> FALSE]
    /\ autoClaim = [c \in Consumers |-> TRUE]
    /\ claimStart = [c \in Consumers |-> 0]
    /\ fetched = [c \in Consumers |-> {}]
    /\ slot = [c \in Consumers |-> [k \in Slots |-> Free]]
    /\ life = [p \in Procs |-> "open"]
    /\ accepted = [m \in Msgs |-> 0]
    /\ handled = [g \in Groups |-> {}]
    /\ exhausted = [g \in Groups |-> {}]
    /\ swallowed = {}
    /\ faults = 0
    /\ crashes = 0

-----------------------------------------------------------------------------
(* Redis commands.                                                         *)

(* How a command ends for its caller: with its effect and no error, with   *)
(* its effect and an error (the reply is lost), with an error only.  Over  *)
(* a cancelled context or a closed client it always fails.                 *)
Call(cmd, usable, res) ==
    \/ /\ usable
       /\ res = "ok"
       /\ UNCHANGED faults
    \/ /\ usable
       /\ res \in {"lost", "failed"}
       /\ cmd \in Faults
       /\ faults < MaxFaults
       /\ faults' = faults + 1
    \/ /\ ~usable
       /\ res = "failed"
       /\ UNCHANGED faults

Applied(res) == res \in {"ok", "lost"}
Results == {"ok", "lost", "failed"}

XAdd(e) ==
    /\ Len(stream) < MaxStream
    /\ stream' = Append(stream, e)

(* ZADD of a member that is already there only replaces its score.         *)
ZAdd(e) ==
    /\ zset' = zset \cup {e}
    /\ due' = due \ {e}

ZRem(e) ==
    /\ zset' = zset \ {e}
    /\ due' = due \ {e}

XAck(g, i) ==
    /\ pel' = [pel EXCEPT ![g] = @ \ {i}]
    /\ idle' = [idle EXCEPT ![g] = @ \ {i}]

(* XGROUP CREATE ... "0": a new group reads the stream from its beginning. *)
(* The faulty form creates the group at "$", after what was published.     *)
GroupStart_AtEnd == Len(stream)
GroupStart == 0

(* The entries XREADGROUP > COUNT concurrency returns.                     *)
NewIds(g) ==
    {i \in DOMAIN stream : delivered[g] < i /\ i <= delivered[g] + Concurrency}

(* The entries XAUTOCLAIM COUNT concurrency returns: the first ones, from  *)
(* the cursor on, that have been idle long enough.  The faulty form has no *)
(* MinIdle.                                                                *)
ClaimIds_AnyIdle(g, start) ==
    LET old == {i \in pel[g] : start <= i}
    IN {i \in old : Cardinality({j \in old : j < i}) < Concurrency}

ClaimIds(g, start) ==
    LET old == {i \in idle[g] : start <= i}
    IN {i \in old : Cardinality({j \in old : j < i}) < Concurrency}

(* The cursor XAUTOCLAIM returns: the next pending entry when COUNT ended  *)
(* the scan, 0 when the scan reached the end.                              *)
IsNextCursor(g, ids, next) ==
    LET rest == {i \in pel[g] : \A j \in ids : j < i}
    IN IF Cardinality(ids) = Concurrency /\ rest # {}
       THEN next \in rest /\ \A i \in rest : next <= i
       ELSE next = 0

-----------------------------------------------------------------------------
(* Publishing.                                                             *)

(* rdb.Close is the last thing Close does.                                 *)
ClientUsable(p) == life[p] \in {"open", "closing"}

(* Publish: publishStream, one XADD.  The caller sees nil or the error.    *)
Publish(p, m) ==
    /\ ClientUsable(p)
    /\ accepted[m] < MaxPublish
    /\ \E res \in Results :
          /\ Call("xadd", TRUE, res)
          /\ IF Applied(res) THEN XAdd([msg |-> m, attempt |-> 0])
                             ELSE UNCHANGED stream
          /\ accepted' = IF res = "ok" THEN [accepted EXCEPT ![m] = @ + 1]
                                       ELSE accepted
    /\ UNCHANGED <<groups, delivered, pel, idle, zset, due, schedVars, loopVars,
                   slot, life, handled, exhausted, swallowed, crashes>>

(* PublishDelay called by the application: one ZADD with a score ahead.    *)
PublishDelay(p, m) ==
    /\ ClientUsable(p)
    /\ accepted[m] < MaxPublish
    /\ \E res \in Results :
          /\ Call("zadd", TRUE, res)
          /\ IF Applied(res) THEN ZAdd([msg |-> m, attempt |-> 0])
                             ELSE UNCHANGED <<zset, due>>
          /\ accepted' = IF res = "ok" THEN [accepted EXCEPT ![m] = @ + 1]
                                       ELSE accepted
    /\ UNCHANGED <<stream, groups, delivered, pel, idle, schedVars, loopVars,
                   slot, life, handled, exhausted, swallowed, crashes>>

-----------------------------------------------------------------------------
(* The delay scheduler (startDelayScheduler), one per instance.            *)

SchedIdle(p) == taken[p] = {} /\ removing[p] = {}

(* ZRANGEBYSCORE: up to ScanCount of the due members.  An error makes the  *)
(* scheduler wait again, which changes nothing.                            *)
SchedScan(p) ==
    /\ schedUp[p] /\ life[p] = "open"
    /\ SchedIdle(p)
    /\ due # {}
    /\ \E items \in SUBSET due :
          /\ \/ Cardinality(items) = ScanCount
             \/ items = due /\ Cardinality(due) <= ScanCount
          /\ taken' = [taken EXCEPT ![p] = items]
    /\ UNCHANGED <<redisVars, schedUp, removing, loopVars, slot, life,
                   historyVars, faults, crashes>>

(* publishStream of one member; its error is discarded.                    *)
SchedPublish(p, e) ==
    /\ removing[p] = {}
    /\ e \in taken[p]
    /\ \E res \in Results :
          /\ Call("xadd", ClientUsable(p), res)
          /\ IF Applied(res) THEN XAdd(e) ELSE UNCHANGED stream
          /\ swallowed' = IF ~Applied(res) /\ ClientUsable(p)
                          THEN swallowed \cup {e.msg} ELSE swallowed
    /\ taken' = [taken EXCEPT ![p] = @ \ {e}]
    /\ removing' = [removing EXCEPT ![p] = {e}]
    /\ UNCHANGED <<groups, delivered, pel, idle, zset, due, schedUp, loopVars,
                   slot, life, accepted, handled, exhausted, crashes>>

(* ZREM of the member just published; its error is discarded too.          *)
SchedRemove(p, e) ==
    /\ e \in removing[p]
    /\ \E res \in Results :
          /\ Call("zrem", ClientUsable(p), res)
          /\ IF Applied(res) THEN ZRem(e) ELSE UNCHANGED <<zset, due>>
    /\ removing' = [removing EXCEPT ![p] = {}]
    /\ UNCHANGED <<stream, groups, delivered, pel, idle, schedUp, taken,
                   loopVars, slot, life, historyVars, crashes>>

(* stopCh is closed; the faulty form never receives from it.               *)
StopSeen_Never(p) == FALSE
StopSeen(p) == life[p] \in {"closing", "closed"}

(* stopCh is only looked at between two scans.                             *)
SchedExit(p) ==
    /\ schedUp[p] /\ StopSeen(p)
    /\ SchedIdle(p)
    /\ schedUp' = [schedUp EXCEPT ![p] = FALSE]
    /\ UNCHANGED <<redisVars, taken, removing, loopVars, slot, life,
                   historyVars, faults, crashes>>

-----------------------------------------------------------------------------
(* The consumer loop (the goroutine of Consume).                           *)

(* The loop finds cctx not done at its top; the faulty form does not look. *)
Running_Always(c) == TRUE
Running(c) == ~cancelled[c]

CtxUsable(c) == ~cancelled[c] /\ ClientUsable(ProcOf[c])

(* Consume: XGROUP CREATE ... 0 MKSTREAM, whose error is discarded, then   *)
(* the loop starts with fresh local state.                                 *)
Consume(c) ==
    /\ cpc[c] = "off" /\ life[ProcOf[c]] = "open"
    /\ \E res \in Results :
          /\ Call("xgroup", TRUE, res)
          /\ IF Applied(res) /\ GroupOf[c] \notin groups
             THEN /\ groups' = groups \cup {GroupOf[c]}
                  /\ delivered' = [delivered EXCEPT ![GroupOf[c]] = GroupStart]
             ELSE UNCHANGED <<groups, delivered>>
    /\ cpc' = [cpc EXCEPT ![c] = "top"]
    /\ UNCHANGED <<stream, pel, idle, zset, due, schedVars, cancelled,
                   autoClaim, claimStart, fetched, slot, life, historyVars, crashes>>

(* The loop claims entries of the group that were left pending.  With no   *)
(* entry, or an error, it goes on to read new ones.                        *)
AutoClaim(c) ==
    LET g == GroupOf[c]
        ids == ClaimIds(g, claimStart[c])
    IN
    /\ cpc[c] = "top" /\ Running(c)
    /\ autoClaim[c] /\ c \in AutoClaimKnown
    /\ \E res \in Results :
          /\ Call("xautoclaim", CtxUsable(c) /\ g \in groups, res)
          /\ idle' = IF Applied(res) THEN [idle EXCEPT ![g] = @ \ ids] ELSE idle
          /\ IF res = "ok"
             THEN /\ \E next \in pel[g] \cup {0} :
                        /\ IsNextCursor(g, ids, next)
                        /\ claimStart' = [claimStart EXCEPT ![c] = next]
                  /\ fetched' = [fetched EXCEPT ![c] = ids]
                  /\ cpc' = [cpc EXCEPT ![c] = IF ids = {} THEN "read" ELSE "dispatch"]
             ELSE /\ cpc' = [cpc EXCEPT ![c] = "read"]
                  /\ UNCHANGED <<claimStart, fetched>>
    /\ UNCHANGED <<stream, groups, delivered, pel, zset, due, schedVars, cancelled,
                   autoClaim, slot, life, historyVars, crashes>>

(* A server without XAUTOCLAIM answers "unknown command": never again.     *)
AutoClaimUnknown(c) ==
    /\ cpc[c] = "top" /\ Running(c) /\ CtxUsable(c)
    /\ autoClaim[c] /\ c \notin AutoClaimKnown
    /\ autoClaim' = [autoClaim EXCEPT ![c] = FALSE]
    /\ cpc' = [cpc EXCEPT ![c] = "read"]
    /\ UNCHANGED <<redisVars, schedVars, cancelled, claimStart, fetched, slot,
                   life, historyVars, faults, crashes>>

(* XREADGROUP >.  From "top" it stands for an iteration in which           *)
(* redisClaimInterval has not passed or autoClaim is off.  No new entry,   *)
(* or an error, takes the loop back to its top.                            *)
ReadGroup(c) ==
    LET g == GroupOf[c]
        ids == NewIds(g)
    IN
    /\ \/ cpc[c] = "top" /\ Running(c)
       \/ cpc[c] = "read"
    /\ \E res \in Results :
          /\ Call("xreadgroup", CtxUsable(c) /\ g \in groups, res)
          /\ IF Applied(res) /\ ids # {}
             THEN /\ delivered' = [delivered EXCEPT ![g] =
                                      IF @ + Concurrency <= Len(stream)
                                      THEN @ + Concurrency ELSE Len(stream)]
                  /\ pel' = [pel EXCEPT ![g] = @ \cup ids]
             ELSE UNCHANGED <<delivered, pel>>
          /\ IF res = "ok" /\ ids # {}
             THEN /\ fetched' = [fetched EXCEPT ![c] = ids]
                  /\ cpc' = [cpc EXCEPT ![c] = "dispatch"]
             ELSE /\ cpc' = [cpc EXCEPT ![c] = "top"]
                  /\ UNCHANGED fetched
    /\ UNCHANGED <<stream, groups, idle, zset, due, schedVars, cancelled, autoClaim,
                   claimStart, slot, life, historyVars, crashes>>

(* dispatch: take a token of sem, blocking while there is none, and start  *)
(* the goroutine.  A message the pattern does not match goes straight to   *)
(* its XACK.                                                               *)
Dispatch(c, k) ==
    /\ cpc[c] = "dispatch"
    /\ slot[c][k].pc = "free"
    /\ \E i \in fetched[c] :
          /\ \A j \in fetched[c] : i <= j
          /\ slot' = [slot EXCEPT ![c][k] =
                [pc |-> IF stream[i].msg \in Matches[c] THEN "exec" ELSE "ack",
                 id |-> i]]
          /\ fetched' = [fetched EXCEPT ![c] = @ \ {i}]
          /\ cpc' = [cpc EXCEPT ![c] = IF fetched[c] = {i} THEN "top" ELSE "dispatch"]
    /\ UNCHANGED <<redisVars, schedVars, cancelled, autoClaim, claimStart, life,
                   historyVars, faults, crashes>>

(* The loop sees cctx.Done and waits for its goroutines (procWG).          *)
LoopExit(c) ==
    /\ cpc[c] = "top" /\ ~Running(c)
    /\ cpc' = [cpc EXCEPT ![c] = "drain"]
    /\ UNCHANGED <<redisVars, schedVars, cancelled, autoClaim, claimStart, fetched,
                   slot, life, historyVars, faults, crashes>>

(* procWG.Wait returns; the faulty form does not wait.                     *)
Drained_NoWait(c) == TRUE
Drained(c) == \A k \in Slots : slot[c][k].pc = "free"

LoopDone(c) ==
    /\ cpc[c] = "drain"
    /\ Drained(c)
    /\ cpc' = [cpc EXCEPT ![c] = "done"]
    /\ UNCHANGED <<redisVars, schedVars, cancelled, autoClaim, claimStart, fetched,
                   slot, life, historyVars, faults, crashes>>

-----------------------------------------------------------------------------
(* The handler goroutines.                                                 *)

TaskEntry(c, k) == stream[slot[c][k].id]
SetTask(c, k, pc) == slot' = [slot EXCEPT ![c][k].pc = pc]
EndTask(c, k) == slot' = [slot EXCEPT ![c][k] = Free]

(* final returns nil.                                                      *)
HandlerOk(c, k) ==
    /\ slot[c][k].pc = "exec"
    /\ SetTask(c, k, "ack")
    /\ handled' = [handled EXCEPT ![GroupOf[c]] = @ \cup {TaskEntry(c, k).msg}]
    /\ UNCHANGED <<redisVars, schedVars, loopVars, life, accepted, exhausted,
                   swallowed, faults, crashes>>

(* nextAttempt <= MaxRetries; the faulty form compares attempt itself.     *)
RetryAllowed_OffByOne(e) == e.attempt <= MaxRetries
RetryAllowed(e) == e.attempt + 1 <= MaxRetries

(* final returns an error: a retry is due, or the attempts are used up.    *)
HandlerErr(c, k) ==
    LET e == TaskEntry(c, k)
    IN
    /\ slot[c][k].pc = "exec"
    /\ IF RetryAllowed(e)
       THEN /\ SetTask(c, k, "retry")
            /\ UNCHANGED exhausted
       ELSE /\ SetTask(c, k, "ack")
            /\ exhausted' = [exhausted EXCEPT ![GroupOf[c]] = @ \cup {e.msg}]
    /\ UNCHANGED <<redisVars, schedVars, loopVars, life, accepted, handled,
                   swallowed, faults, crashes>>

(* The retry counts as stored only when PublishDelay returned nil; the     *)
(* faulty form ignores its error.                                          *)
RetryStored_Always(res) == TRUE
RetryStored(res) == res = "ok"

(* PublishDelay of the copy with the next x-retry-count: acknowledged only *)
(* when it returned nil, else the goroutine ends and the entry stays       *)
(* pending.                                                                *)
Retry(c, k) ==
    LET e == TaskEntry(c, k)
    IN
    /\ slot[c][k].pc = "retry"
    /\ \E res \in Results :
          /\ Call("zadd", CtxUsable(c), res)
          /\ IF Applied(res) THEN ZAdd([e EXCEPT !.attempt = @ + 1])
                             ELSE UNCHANGED <<zset, due>>
          /\ IF RetryStored(res) THEN SetTask(c, k, "ack") ELSE EndTask(c, k)
    /\ UNCHANGED <<stream, groups, delivered, pel, idle, schedVars, loopVars, life,
                   historyVars, crashes>>

(* XACK, whose error is discarded; the goroutine ends and gives the token  *)
(* back.                                                                   *)
Ack(c, k) ==
    /\ slot[c][k].pc = "ack"
    /\ \E res \in Results :
          /\ Call("xack", CtxUsable(c), res)
          /\ IF Applied(res) THEN XAck(GroupOf[c], slot[c][k].id)
                             ELSE UNCHANGED <<pel, idle>>
    /\ EndTask(c, k)
    /\ UNCHANGED <<stream, groups, delivered, zset, due, schedVars, loopVars, life,
                   historyVars, crashes>>

-----------------------------------------------------------------------------
(* Stopping, closing, crashing, time.                                      *)

(* The stop function: cancel, then wait for done.                          *)
Stop(c) ==
    /\ MayStop
    /\ cpc[c] \notin {"off", "done"} /\ ~cancelled[c]
    /\ cancelled' = [cancelled EXCEPT ![c] = TRUE]
    /\ UNCHANGED <<redisVars, schedVars, cpc, autoClaim, claimStart, fetched, slot,
                   life, historyVars, faults, crashes>>

(* Close: close stopCh and wait for the scheduler and for every consumer.  *)
(* It does not cancel the consumers.                                       *)
Close(p) ==
    /\ MayStop
    /\ life[p] = "open"
    /\ life' = [life EXCEPT ![p] = "closing"]
    /\ UNCHANGED <<redisVars, schedVars, loopVars, slot, historyVars, faults, crashes>>

CloseDone(p) ==
    /\ life[p] = "closing"
    /\ ~schedUp[p]
    /\ \A c \in Consumers : ProcOf[c] = p => cpc[c] \in {"off", "done"}
    /\ life' = [life EXCEPT ![p] = "closed"]
    /\ UNCHANGED <<redisVars, schedVars, loopVars, slot, historyVars, faults, crashes>>

(* ctx.Done: the client is closed under whatever still runs.               *)
CloseTimeout(p) ==
    /\ CloseDeadline
    /\ life[p] = "closing"
    /\ life' = [life EXCEPT ![p] = "closed"]
    /\ UNCHANGED <<redisVars, schedVars, loopVars, slot, historyVars, faults, crashes>>

(* A process dies with everything it had in memory, and starts again.      *)
Crash(p) ==
    /\ crashes < MaxCrashes
    /\ life[p] # "down"
    /\ crashes' = crashes + 1
    /\ life' = [life EXCEPT ![p] = "down"]
    /\ schedUp' = [schedUp EXCEPT ![p] = FALSE]
    /\ taken' = [taken EXCEPT ![p] = {}]
    /\ removing' = [removing EXCEPT ![p] = {}]
    /\ LET Reset(f, v) == [c \in Consumers |-> IF ProcOf[c] = p THEN v ELSE f[c]]
       IN /\ cpc' = Reset(cpc, "off")
          /\ cancelled' = Reset(cancelled, FALSE)
          /\ autoClaim' = Reset(autoClaim, TRUE)
          /\ claimStart' = Reset(claimStart, 0)
          /\ fetched' = Reset(fetched, {})
          /\ slot' = Reset(slot, [k \in Slots |-> Free])
    /\ UNCHANGED <<redisVars, historyVars, faults>>

(* newRedisAdapter in the restarted process.                               *)
Restart(p) ==
    /\ life[p] = "down"
    /\ life' = [life EXCEPT ![p] = "open"]
    /\ schedUp' = [schedUp EXCEPT ![p] = TRUE]
    /\ UNCHANGED <<redisVars, taken, removing, loopVars, slot, historyVars, faults, crashes>>

(* The score of a delayed member passes.                                   *)
BecomeDue(e) ==
    /\ e \in zset \ due
    /\ due' = due \cup {e}
    /\ UNCHANGED <<stream, groups, delivered, pel, idle, zset, schedVars, loopVars,
                   slot, life, historyVars, faults, crashes>>

InHand(g, i) ==
    \E c \in Consumers :
        /\ GroupOf[c] = g
        /\ \/ i \in fetched[c]
           \/ \E k \in Slots : slot[c][k].pc # "free" /\ slot[c][k].id = i

(* A pending entry reaches redisClaimMinIdle.                              *)
BecomeIdle(g, i) ==
    /\ i \in pel[g] \ idle[g]
    /\ SlowHandlers \/ ~InHand(g, i)
    /\ idle' = [idle EXCEPT ![g] = @ \cup {i}]
    /\ UNCHANGED <<stream, groups, delivered, pel, zset, due, schedVars, loopVars,
                   slot, life, historyVars, faults, crashes>>

-----------------------------------------------------------------------------
SchedStep(p) ==
    \/ SchedScan(p)
    \/ \E e \in taken[p] : SchedPublish(p, e)
    \/ \E e \in removing[p] : SchedRemove(p, e)
    \/ SchedExit(p)

LoopStep(c) ==
    \/ AutoClaim(c)
    \/ AutoClaimUnknown(c)
    \/ ReadGroup(c)
    \/ \E k \in Slots : Dispatch(c, k)
    \/ LoopExit(c)
    \/ LoopDone(c)

TaskStep(c, k) ==
    \/ HandlerOk(c, k)
    \/ HandlerErr(c, k)
    \/ Retry(c, k)
    \/ Ack(c, k)

TimeStep ==
    \/ \E e \in zset : BecomeDue(e)
    \/ \E g \in Groups : \E i \in pel[g] : BecomeIdle(g, i)

Next ==
    \/ \E p \in Procs, m \in Msgs : Publish(p, m) \/ PublishDelay(p, m)
    \/ \E p \in Procs : SchedStep(p)
    \/ \E c \in Consumers : Consume(c) \/ LoopStep(c) \/ Stop(c)
    \/ \E c \in Consumers, k \in Slots : TaskStep(c, k)
    \/ \E p \in Procs : Close(p) \/ CloseDone(p) \/ CloseTimeout(p)
    \/ \E p \in Procs : Crash(p) \/ Restart(p)
    \/ TimeStep

Spec == Init /\ [][Next]_vars

(* Every goroutine that can run does, handlers return, clocks advance, and *)
(* a crashed process is started again and consumes again.  The loop's      *)
(* XAUTOCLAIM is tried again and again because redisClaimInterval is no    *)
(* longer than the time XREADGROUP blocks for.                             *)
Fairness ==
    /\ \A p \in Procs :
          /\ WF_vars(SchedStep(p))
          /\ WF_vars(Restart(p))
          /\ WF_vars(CloseDone(p))
    /\ \A c \in Consumers :
          /\ WF_vars(Consume(c))
          /\ WF_vars(LoopStep(c))
          /\ SF_vars(AutoClaim(c))
          /\ \A k \in Slots : WF_vars(TaskStep(c, k))
    /\ \A e \in Entry : WF_vars(BecomeDue(e))
    /\ \A g \in Groups, i \in 1..MaxStream : WF_vars(BecomeIdle(g, i))

FairSpec == Spec /\ Fairness

-----------------------------------------------------------------------------
(* Type invariant.  A stream entry or a delayed member never carries a     *)
(* retry count above MaxRetries, pending entries were delivered, what a    *)
(* consumer holds are IDs of the stream, a dead process holds no member.   *)
TypeOK ==
    /\ stream \in Seq(Entry)
    /\ groups \subseteq Groups
    /\ delivered \in [Groups -> 0..Len(stream)]
    /\ pel \in [Groups -> SUBSET (1..Len(stream))]
    /\ idle \in [Groups -> SUBSET (1..Len(stream))]
    /\ zset \subseteq Entry
    /\ due \subseteq zset
    /\ schedUp \in [Procs -> BOOLEAN]
    /\ taken \in [Procs -> SUBSET Entry]
    /\ removing \in [Procs -> SUBSET Entry]
    /\ cpc \in [Consumers -> {"off", "top", "read", "dispatch", "drain", "done"}]
    /\ cancelled \in [Consumers -> BOOLEAN]
    /\ autoClaim \in [Consumers -> BOOLEAN]
    /\ claimStart \in [Consumers -> Nat]
    /\ fetched \in [Consumers -> SUBSET (1..Len(stream))]
    /\ slot \in [Consumers -> [Slots -> Task]]
    /\ \A c \in Consumers, k \in Slots :
          slot[c][k].pc # "free" => slot[c][k].id \in 1..Len(stream)
    /\ \A c \in Consumers, k \in Slots :
          slot[c][k].pc = "retry" => RetryAllowed(TaskEntry(c, k))
    /\ life \in [Procs -> {"open", "closing", "closed", "down"}]
    /\ \A p \in Procs : life[p] = "down" => taken[p] = {} /\ removing[p] = {}
    /\ accepted \in [Msgs -> Nat]
    /\ handled \in [Groups -> SUBSET Msgs]
    /\ exhausted \in [Groups -> SUBSET Msgs]
    /\ swallowed \subseteq Msgs
    /\ faults \in Nat
    /\ crashes \in Nat

(* Every consumer of the group subscribes to the message.                  *)
Subscribed(g, m) == \A c \in Consumers : GroupOf[c] = g => m \in Matches[c]

(* The group still has an entry of the message, of attempt n or later, to  *)
(* receive or to acknowledge.                                              *)
HasCopy(g, m, n) ==
    \E i \in DOMAIN stream :
        /\ delivered[g] < i \/ i \in pel[g]
        /\ stream[i].msg = m
        /\ n <= stream[i].attempt

(* The delay set holds the message with attempt n or later.                *)
IsDelayed(m, n) == \E e \in zset : e.msg = m /\ n <= e.attempt

Settled(g, m) == m \in handled[g] \cup exhausted[g]

(* Where a message of attempt n or later is, or why it need not be         *)
(* anywhere: the scheduler's XADD failed for it (redis_adapter.go:122), the*)
(* one error the adapter loses a message over.                             *)
Safe(g, m, n) ==
    \/ Settled(g, m)
    \/ m \in swallowed
    \/ HasCopy(g, m, n)
    \/ IsDelayed(m, n)

(* Whatever crashes, fails, is redelivered or is stopped, a message whose  *)
(* publish returned nil is, for every group that subscribes to it, handled,*)
(* out of attempts, waiting in the delay set, or in the stream still to be *)
(* delivered or acknowledged, unless the scheduler's XADD failed for it.   *)
NoLoss ==
    \A g \in Groups, m \in Msgs :
        accepted[m] > 0 /\ Subscribed(g, m) => Safe(g, m, 0)

(* What makes NoLoss inductive.  An entry about to be acknowledged can go: *)
(* the message is settled, or a later attempt of it is stored.             *)
AckSafe ==
    \A c \in Consumers, k \in Slots :
        slot[c][k].pc = "ack" /\ Subscribed(GroupOf[c], TaskEntry(c, k).msg)
        => Safe(GroupOf[c], TaskEntry(c, k).msg, TaskEntry(c, k).attempt + 1)

(* And so can a member about to be removed from the delay set: the stream  *)
(* has it, or a later attempt is stored.  Over a closed client (after      *)
(* CloseTimeout) neither the XADD nor the ZREM takes place.                *)
RemoveSafe ==
    \A p \in Procs : life[p] # "closed" =>
        \A e \in removing[p], g \in Groups : Subscribed(g, e.msg) =>
            \/ Settled(g, e.msg)
            \/ e.msg \in swallowed
            \/ HasCopy(g, e.msg, e.attempt)
            \/ IsDelayed(e.msg, e.attempt + 1)

(* Everything that ever entered the stream, and every member a scheduler   *)
(* has in hand, is safe, also what was published without its caller knowing*)
StreamSafe ==
    \A g \in Groups, i \in DOMAIN stream :
        Subscribed(g, stream[i].msg) => Safe(g, stream[i].msg, stream[i].attempt)

TakenSafe ==
    \A p \in Procs : \A e \in taken[p], g \in Groups :
        Subscribed(g, e.msg) => Safe(g, e.msg, e.attempt)

(* No slow handler: an entry is held by one loop or one handler goroutine  *)
(* of the group at a time, and by none once it is acknowledged, whatever   *)
(* is read, claimed, stopped, failing or restarted.                        *)
HeldOnce ==
    /\ \A c, d \in Consumers, k, l \in Slots :
          /\ slot[c][k].pc # "free" /\ slot[d][l].pc # "free"
          /\ slot[c][k].id = slot[d][l].id
          /\ GroupOf[c] = GroupOf[d]
          => <<c, k>> = <<d, l>>
    /\ \A c, d \in Consumers :
          c # d /\ GroupOf[c] = GroupOf[d] => fetched[c] \cap fetched[d] = {}
    /\ \A c, d \in Consumers, k \in Slots :
          slot[c][k].pc # "free" /\ GroupOf[c] = GroupOf[d] =>
              slot[c][k].id \notin fetched[d]
    /\ \A c \in Consumers, k \in Slots :
          slot[c][k].pc # "free" => slot[c][k].id \in pel[GroupOf[c]]
    /\ \A c \in Consumers : fetched[c] \subseteq pel[GroupOf[c]]

(* One instance, one group, no slow handler: each delivery is executed by  *)
(* one goroutine (HeldOnce), and as long as nothing fails, dies or is      *)
(* stopped each attempt of a message enters the stream once, although it   *)
(* passes through the delay set and three kinds of goroutines.             *)
SingleExecution ==
    /\ HeldOnce
    /\ faults = 0 /\ crashes = 0 /\ (\A c \in Consumers : ~cancelled[c]) =>
          \A i, j \in DOMAIN stream : stream[i] = stream[j] => i = j

(* When Close returns before its context's deadline, no goroutine of the   *)
(* instance is left: no handler, no loop, no scheduler (redis_adapter.go   *)
(* 277-288 waits for wg, whose members wait for procWG).                   *)
CloseIsQuiet ==
    \A p \in Procs : life[p] = "closed" =>
        /\ ~schedUp[p] /\ SchedIdle(p)
        /\ \A c \in Consumers : ProcOf[c] = p =>
              /\ cpc[c] \in {"off", "done"}
              /\ \A k \in Slots : slot[c][k].pc = "free"

(* stop returns: a cancelled consumer's loop ends, wherever the            *)
(* cancellation met it, also while it waits for a token in dispatch.       *)
StopReturns ==
    \A c \in Consumers : cancelled[c] ~> cpc[c] \in {"done", "off"}

(* Close returns once the application has stopped every consumer of the    *)
(* instance.                                                               *)
CloseReturns ==
    \A p \in Procs :
        (/\ life[p] = "closing"
         /\ \A c \in Consumers : ProcOf[c] = p => cpc[c] = "off" \/ cancelled[c])
        ~> life[p] # "closing"

(* With finitely many failures and crashes and without the scheduler's     *)
(* lost XADD, every message whose publish returned nil is eventually       *)
(* handled, or fails on its last attempt, in every group: retries reach    *)
(* the stream, and entries left pending are claimed.                       *)
EventuallySettled ==
    \A g \in Groups, m \in Msgs : accepted[m] > 0 ~> Settled(g, m)

-----------------------------------------------------------------------------
(* The adapter implements the MQ interface's promise to every group, for   *)
(* the messages all consumers of the group subscribe to.                   *)

Outstanding(g) ==
    {stream[i] : i \in {j \in DOMAIN stream : delivered[g] < j \/ j \in pel[g]}} \cup zset

Contract == INSTANCE AtLeastOnce
    WITH owed <- [g \in Groups |-> {m \in Msgs : accepted[m] > 0 /\ Subscribed(g, m)}],
         pending <- [g \in Groups |-> {e \in Outstanding(g) : Subscribed(g, e.msg)}],
         settled <- [g \in Groups |-> {m \in handled[g] \cup exhausted[g] \cup swallowed :
                                          Subscribed(g, m)}]

ImplementsContract == Contract!Spec

-----------------------------------------------------------------------------
(* What the repository says of the adapter and the code does not do.       *)

(* A failing publish must not lose a message (redis_adapter.go:205): the   *)
(* delay scheduler discards the error and removes the member anyway.       *)
NoLossAtAll ==
    \A g \in Groups, m \in Msgs :
        accepted[m] > 0 /\ Subscribed(g, m) =>
            Settled(g, m) \/ HasCopy(g, m, 0) \/ IsDelayed(m, 0)

(* A subscription gets the events its pattern matches (event.go:49): two   *)
(* consumers of one group share a stream, and the one whose pattern does   *)
(* not match acknowledges the other's event.                               *)
PatternServed ==
    \A c \in Consumers : \A m \in Matches[c] : accepted[m] > 0 =>
        \/ Settled(GroupOf[c], m)
        \/ HasCopy(GroupOf[c], m, 0)
        \/ IsDelayed(m, 0)

(* Each delayed enqueue is consumed after its delay (job.go:58): equal     *)
(* ones are one member of the delay set.                                   *)
CopiesOf(m) ==
    Cardinality({i \in DOMAIN stream : stream[i].msg = m})
    + Cardinality({e \in zset : e.msg = m})

EveryEnqueueKept == \A m \in Msgs : accepted[m] <= CopiesOf(m)

(* stop is graceful (mq.go:46): when it has returned, what the handlers    *)
(* finished successfully is acknowledged.  XACK is sent over the cancelled *)
(* context.                                                                *)
StopAcknowledges ==
    (\A c \in Consumers : cpc[c] \in {"off", "done"}) =>
        \A g \in Groups : \A i \in pel[g] : stream[i].msg \notin handled[g]

(* Close waits for the work in flight and returns (client.go:21): it never *)
(* returns while a consumer has not been stopped.                          *)
CloseAlwaysReturns ==
    \A p \in Procs : life[p] = "closing" ~> life[p] # "closing"

(* Consume makes sure the group exists (redis_adapter.go:148): it discards *)
(* the error of XGROUP CREATE.                                             *)
GroupEnsured ==
    \A c \in Consumers : cpc[c] \notin {"off", "done"} => GroupOf[c] \in groups
=============================================================================
