------------------------------ MODULE RabbitMQ ------------------------------
(***************************************************************************)
(* The RabbitMQ adapter of taskbus (rabbitmq_adapter.go): Publish,         *)
(* PublishDelay, Consume with its loop and its handler goroutines, stop    *)
(* and Close, over one topic exchange and one delayed exchange.            *)
(*                                                                         *)
(* The broker and the amqp091-go client are external.  The broker routes a *)
(* copy of a message to every bound queue, pushes it to a consumer's       *)
(* channel up to the prefetch limit, and takes back what a channel has not *)
(* acknowledged when the channel ends.  A channel breaks on the broker's   *)
(* side first and its client notices later; in between acknowledgements    *)
(* have no effect.  A publish has no confirmation: the broker may refuse   *)
(* it by closing the channel it was sent on, or the connection may go down *)
(* under it.  Messages are transient (no DeliveryMode), queues durable.    *)
(***************************************************************************)
EXTENDS Naturals, Sequences, FiniteSets

CONSTANTS
    Procs,        \* adapter instances (newRabbitMQAdapterWithMode)
    Queues,       \* queues, one per (topic, group)
    Consumers,    \* Consume calls
    ProcOf,       \* the instance each Consume call is made on
    QueueOf,      \* the queue it consumes
    Matches,      \* the messages a queue's binding key matches
    Msgs,         \* message identities: topic, key, body and user headers
    MaxRetries,   \* RetryConfig.MaxRetries
    Prefetch,     \* RabbitMQConfig.Prefetch, after defaults
    Concurrency,  \* RabbitMQConfig.ConsumerConcurrency, after defaults
    DelayMode,    \* "standard" or "aliyun"
    MayStop,      \* the consumers the application may stop
    MayClose,     \* the instances it may close
    MayCancel,    \* those whose context it may cancel
    Faults,       \* what may go wrong
    MaxFaults, MaxPublish, MaxCopies   \* bounds of the model

FaultKinds == {"dial", "refuse", "channel", "connection", "restart", "crash"}

ASSUME ConstantsAssumption ==
    /\ ProcOf \in [Consumers -> Procs]
    /\ QueueOf \in [Consumers -> Queues]
    /\ Matches \in [Queues -> SUBSET Msgs]
    /\ MaxRetries \in Nat
    /\ Prefetch \in Nat \ {0}
    /\ Concurrency \in Nat \ {0}
    /\ DelayMode \in {"standard", "aliyun"}
    /\ MayStop \subseteq Consumers
    /\ MayClose \subseteq Procs
    /\ MayCancel \subseteq Consumers
    /\ Faults \subseteq FaultKinds
    /\ MaxFaults \in Nat
    /\ MaxPublish \in Nat
    /\ MaxCopies \in Nat

VARIABLES
    sent,        \* the publishes the broker took; an index is an ID
    bound,       \* queues bound to the topic exchange
    delayBound,  \* queues bound to the delayed exchange
    ready,       \* IDs waiting in each queue
    delayed,     \* IDs the broker holds back
    conn,        \* r.conn of each instance, as IsClosed tells it
    life,        \* state of each instance
    chan,        \* the channel of each Consume call
    closeNote,   \* what its closeChan yields
    buffer,      \* deliveries the client library holds for msgs
    cpc,         \* where the consumer's loop is
    hand,        \* the delivery it waits for a token with; 0 is none
    ctxDone,     \* the context given to Consume is cancelled
    stop,        \* the call of the stop function, and what it returned
    slot,        \* its handler goroutines, one per token of sem
    published,   \* how often the application published each message
    accepted,    \* history: messages an immediate Publish returned nil for
    routed,      \* history: messages routed to each queue
    settled,     \* history: messages a handler returned nil for, or failed
                 \* for on the last attempt
    lost,        \* history: messages whose retry the broker refused, or that
                 \* were in the queue when it restarted
    faults       \* the counter behind MaxFaults

brokerVars == <<sent, bound, delayBound, ready, delayed>>
procVars == <<conn, life>>
chanVars == <<chan, closeNote, buffer>>
loopVars == <<cpc, hand, ctxDone, stop>>
historyVars == <<published, accepted, routed, settled, lost>>
vars == <<brokerVars, procVars, chanVars, loopVars, slot, historyVars, faults>>

Slots == 1..Concurrency

(* A publishing: the identity and the x-retry-count header.                *)
Entry == [msg: Msgs, attempt: 0..MaxRetries]

(* A handler goroutine: idle token, running the handler, about to publish  *)
(* the retry, to acknowledge, to reject.                                   *)
Task == [pc: {"free", "exec", "retry", "ack", "nack"}, id: Nat]
Free == [pc |-> "free", id |-> 0]

Init ==
    /\ sent = <<>>
    /\ bound = {}
    /\ delayBound = {}
    /\ ready = [q \in Queues |-> {}]
    /\ delayed = {}
    /\ conn = [p \in Procs |-> "up"]
    /\ life = [p \in Procs |-> "open"]
    /\ chan = [c \in Consumers |-> "none"]
    /\ closeNote = [c \in Consumers |-> "none"]
    /\ buffer = [c \in Consumers |-> {}]
    /\ cpc = [c \in Consumers |-> "off"]
    /\ hand = [c \in Consumers |-> 0]
    /\ ctxDone = [c \in Consumers |-> FALSE]
    /\ stop = [c \in Consumers |-> "none"]
    /\ slot = [c \in Consumers |-> [k \in Slots |-> Free]]
    /\ published = [m \in Msgs |-> 0]
    /\ accepted = {}
    /\ routed = [q \in Queues |-> {}]
    /\ settled = [q \in Queues |-> {}]
    /\ lost = [q \in Queues |-> {}]
    /\ faults = 0

Fault(kind) ==
    /\ kind \in Faults
    /\ faults < MaxFaults
    /\ faults' = faults + 1

-----------------------------------------------------------------------------
(* The broker.                                                             *)

(* The deliveries consumer c has and has not answered.                     *)
Held(c) ==
    buffer[c] \cup ({hand[c]} \ {0})
    \cup {slot[c][k].id : k \in {l \in Slots : slot[c][l].pc # "free"}}

(* Those the broker counts as unacknowledged.                              *)
Unacked(c) == IF chan[c] = "open" THEN Held(c) ELSE {}

QueueUnacked(q) == UNION {Unacked(c) : c \in {d \in Consumers : QueueOf[d] = q}}

(* A copy of publishing i, of message m, for every queue of qs that matches*)
Receivers(qs, m) == {q \in qs : m \in Matches[q]}

Route(i, m, qs) ==
    LET to == Receivers(qs, m)
    IN /\ ready' = [q \in Queues |-> IF q \in to THEN ready[q] \cup {i} ELSE ready[q]]
       /\ routed' = [q \in Queues |-> IF q \in to THEN routed[q] \cup {m} ELSE routed[q]]

(* The broker takes a publishing.                                          *)
Take(e) ==
    /\ Len(sent) < MaxCopies
    /\ sent' = Append(sent, e)

(* The channels of the consumers in cs end on the broker's side: it takes  *)
(* their deliveries back.                                                  *)
Requeue(cs) ==
    ready' = [q \in Queues |->
                 ready[q] \cup UNION {Unacked(c) : c \in {d \in cs : QueueOf[d] = q}}]

(* The exchange a delayed publishing goes to when its time has come.       *)
DelayBindings == IF DelayMode = "standard" THEN delayBound ELSE bound

(* The delay of a publishing passes.  With no queue to go to it is returned*)
(* long after anyone listens for returns.                                  *)
Due(i) ==
    /\ i \in delayed
    /\ delayed' = delayed \ {i}
    /\ Route(i, sent[i].msg, DelayBindings)
    /\ UNCHANGED <<sent, bound, delayBound, procVars, chanVars, loopVars, slot,
                   published, accepted, settled, lost, faults>>

(* The broker pushes the next message of the queue.  It does so as long as *)
(* the channel is open, whether or not a loop still reads msgs.            *)
Deliver(c) ==
    LET q == QueueOf[c]
    IN
    /\ chan[c] = "open" /\ cpc[c] \notin {"bound", "subscribe"}
    /\ Cardinality(Unacked(c)) < Prefetch
    /\ \E i \in ready[q] :
          /\ \A j \in ready[q] : i <= j
          /\ ready' = [ready EXCEPT ![q] = @ \ {i}]
          /\ buffer' = [buffer EXCEPT ![c] = @ \cup {i}]
    /\ UNCHANGED <<sent, bound, delayBound, delayed, procVars, chan, closeNote,
                   loopVars, slot, historyVars, faults>>

-----------------------------------------------------------------------------
(* Publishing.                                                             *)

(* How a publish ends: the broker takes it; ensureConnection, Channel or   *)
(* the write fails; or it is sent and never taken, because the broker      *)
(* closes the channel instead (or the connection goes down, which is a     *)
(* ConnBreak before it).  ensureConnection dials again when the connection *)
(* is closed, whoever closed it.                                           *)
Send(p, res) ==
    \/ /\ res = "taken"
       /\ conn' = [conn EXCEPT ![p] = "up"]
       /\ UNCHANGED faults
    \/ /\ res = "refused"
       /\ Fault("refuse")
       /\ conn' = [conn EXCEPT ![p] = "up"]
    \/ /\ res = "error"
       /\ Fault("dial")
       /\ UNCHANGED conn

Results == {"taken", "refused", "error"}

(* What Publish returns.  Once sent: an error when a return or a close of  *)
(* the channel comes within 100 ms, which one that is due need not.        *)
PublishReturns(res) == IF res = "error" THEN {"error"} ELSE {"nil", "error"}

Publish(p, m) ==
    /\ life[p] # "down"
    /\ published[m] < MaxPublish
    /\ \E res \in Results :
          /\ Send(p, res)
          /\ IF res = "taken"
             THEN Take([msg |-> m, attempt |-> 0]) /\ Route(Len(sent) + 1, m, bound)
             ELSE UNCHANGED <<sent, ready, routed>>
          /\ \E ret \in PublishReturns(res) :
                accepted' = IF ret = "nil" THEN accepted \cup {m} ELSE accepted
    /\ published' = [published EXCEPT ![m] = @ + 1]
    /\ UNCHANGED <<bound, delayBound, delayed, life, chanVars, loopVars, slot,
                   settled, lost>>

(* PublishDelay: the return is only looked at in passing, and a close not  *)
(* at all.                                                                 *)
SendDelayed(p, e, res) ==
    /\ Send(p, res)
    /\ IF res = "taken"
       THEN Take(e) /\ delayed' = delayed \cup {Len(sent) + 1}
       ELSE UNCHANGED <<sent, delayed>>

PublishDelay(p, m) ==
    /\ life[p] # "down"
    /\ published[m] < MaxPublish
    /\ \E res \in Results : SendDelayed(p, [msg |-> m, attempt |-> 0], res)
    /\ published' = [published EXCEPT ![m] = @ + 1]
    /\ UNCHANGED <<bound, delayBound, ready, life, chanVars, loopVars, slot,
                   accepted, routed, settled, lost>>

-----------------------------------------------------------------------------
(* Consume: a channel, the queue and its bindings, the subscription.       *)

Consume(c) ==
    LET p == ProcOf[c]
    IN
    /\ cpc[c] = "off" /\ life[p] # "down"
    /\ \/ /\ UNCHANGED faults
          /\ conn' = [conn EXCEPT ![p] = "up"]
          /\ chan' = [chan EXCEPT ![c] = "open"]
          /\ bound' = bound \cup {QueueOf[c]}
          /\ cpc' = [cpc EXCEPT ![c] = "bound"]
       \/ /\ Fault("dial")
          /\ UNCHANGED <<conn, chan, bound, cpc>>
    /\ UNCHANGED <<sent, delayBound, ready, delayed, life, closeNote, buffer, hand,
                   ctxDone, stop, slot, historyVars>>

(* QueueBind to the delayed exchange, only in the standard mode.  The      *)
(* faulty form leaves it out.                                              *)
BindDelayed_None(c) == UNCHANGED delayBound
BindDelayed(c) ==
    delayBound' = IF DelayMode = "standard" THEN delayBound \cup {QueueOf[c]}
                                            ELSE delayBound

Bind(c) ==
    /\ cpc[c] = "bound" /\ chan[c] = "open"
    /\ BindDelayed(c)
    /\ cpc' = [cpc EXCEPT ![c] = "subscribe"]
    /\ UNCHANGED <<sent, bound, ready, delayed, procVars, chanVars, hand, ctxDone,
                   stop, slot, historyVars, faults>>

(* ch.Consume and NotifyClose.  The channel may end between the two, or be *)
(* broken unnoticed: the loop starts all the same.                         *)
Subscribe(c) ==
    /\ cpc[c] = "subscribe"
    /\ cpc' = [cpc EXCEPT ![c] = "select"]
    /\ UNCHANGED <<brokerVars, procVars, chanVars, hand, ctxDone, stop, slot,
                   historyVars, faults>>

(* The channel ended under one of these calls: Consume returns the error,  *)
(* and the bindings made so far stay.                                      *)
ConsumeFails(c) ==
    /\ cpc[c] \in {"bound", "subscribe"} /\ chan[c] # "open"
    /\ cpc' = [cpc EXCEPT ![c] = "off"]
    /\ chan' = [chan EXCEPT ![c] = "none"]
    /\ closeNote' = [closeNote EXCEPT ![c] = "none"]
    /\ UNCHANGED <<brokerVars, procVars, buffer, hand, ctxDone, stop, slot,
                   historyVars, faults>>

-----------------------------------------------------------------------------
(* The consumer loop (the goroutine of Consume).  Its select takes any     *)
(* case that is ready.                                                     *)

Goto(c, pc) == cpc' = [cpc EXCEPT ![c] = pc]

(* ctx.Done: the loop ends and leaves the channel open.                    *)
SelectDone(c) ==
    /\ cpc[c] = "select" /\ ctxDone[c]
    /\ Goto(c, "drain")
    /\ UNCHANGED <<brokerVars, procVars, chanVars, hand, ctxDone, stop, slot,
                   historyVars, faults>>

(* closeChan yields the broker's error, or msgs is closed.                 *)
SelectClosed(c) ==
    /\ cpc[c] = "select" /\ chan[c] = "closed"
    /\ Goto(c, "drain")
    /\ UNCHANGED <<brokerVars, procVars, chanVars, hand, ctxDone, stop, slot,
                   historyVars, faults>>

SelectMsg(c) ==
    /\ cpc[c] = "select"
    /\ \E i \in buffer[c] :
          /\ \A j \in buffer[c] : i <= j
          /\ buffer' = [buffer EXCEPT ![c] = @ \ {i}]
          /\ hand' = [hand EXCEPT ![c] = i]
    /\ Goto(c, "token")
    /\ UNCHANGED <<brokerVars, procVars, chan, closeNote, ctxDone, stop, slot,
                   historyVars, faults>>

(* sem <- struct{}{}, and the handler goroutine.                           *)
Token(c, k) ==
    /\ cpc[c] = "token"
    /\ slot[c][k].pc = "free"
    /\ slot' = [slot EXCEPT ![c][k] = [pc |-> "exec", id |-> hand[c]]]
    /\ hand' = [hand EXCEPT ![c] = 0]
    /\ Goto(c, "select")
    /\ UNCHANGED <<brokerVars, procVars, chanVars, ctxDone, stop, historyVars,
                   faults>>

(* wg.Wait returns; the faulty form does not wait.                         *)
Drained_NoWait(c) == TRUE
Drained(c) == \A k \in Slots : slot[c][k].pc = "free"

LoopDone(c) ==
    /\ cpc[c] = "drain" /\ Drained(c)
    /\ Goto(c, "done")
    /\ UNCHANGED <<brokerVars, procVars, chanVars, hand, ctxDone, stop, slot,
                   historyVars, faults>>

-----------------------------------------------------------------------------
(* The handler goroutines.                                                 *)

TaskEntry(c, k) == sent[slot[c][k].id]
SetTask(c, k, pc) == slot' = [slot EXCEPT ![c][k].pc = pc]

(* The faulty form forgets to give the token back.                         *)
EndTask_Leak(c, k) == UNCHANGED slot
EndTask(c, k) == slot' = [slot EXCEPT ![c][k] = Free]

(* nextAttempt <= MaxRetries; the faulty form compares attempt itself.     *)
RetryAllowed_OffByOne(e) == e.attempt <= MaxRetries
RetryAllowed(e) == e.attempt + 1 <= MaxRetries

(* final returns nil, or an error that is the last one allowed, or one     *)
(* that calls for a retry.                                                 *)
Handle(c, k) ==
    LET e == TaskEntry(c, k)
        Finish == /\ SetTask(c, k, "ack")
                  /\ settled' = [settled EXCEPT ![QueueOf[c]] = @ \cup {e.msg}]
    IN
    /\ slot[c][k].pc = "exec"
    /\ \/ Finish
       \/ ~RetryAllowed(e) /\ Finish
       \/ RetryAllowed(e) /\ SetTask(c, k, "retry") /\ UNCHANGED settled
    /\ UNCHANGED <<brokerVars, procVars, chanVars, loopVars, published, accepted,
                   routed, lost, faults>>

(* After PublishDelay: acknowledge when it returned nil, reject when it    *)
(* failed.  The faulty form acknowledges either way.                       *)
AfterRetry_Ack(res) == "ack"
AfterRetry(res) == IF res = "error" THEN "nack" ELSE "ack"

(* Publish the copy with the next x-retry-count, for every group: it takes *)
(* the way of any delayed message.                                         *)
Retry(c, k) ==
    LET e == TaskEntry(c, k)
    IN
    /\ slot[c][k].pc = "retry"
    /\ \E res \in Results :
          /\ SendDelayed(ProcOf[c], [e EXCEPT !.attempt = @ + 1], res)
          /\ lost' = IF res = "refused"
                     THEN [lost EXCEPT ![QueueOf[c]] = @ \cup {e.msg}] ELSE lost
          /\ SetTask(c, k, AfterRetry(res))
    /\ UNCHANGED <<bound, delayBound, ready, life, chanVars, loopVars, published,
                   accepted, routed, settled>>

(* Ack and Nack(requeue), without effect unless the channel is open; the   *)
(* goroutine ends and gives the token back.                                *)
Answer(c, k) ==
    LET q == QueueOf[c]
    IN
    /\ slot[c][k].pc \in {"ack", "nack"}
    /\ ready' = IF slot[c][k].pc = "nack" /\ chan[c] = "open"
                THEN [ready EXCEPT ![q] = @ \cup {slot[c][k].id}] ELSE ready
    /\ EndTask(c, k)
    /\ UNCHANGED <<sent, bound, delayBound, delayed, procVars, chanVars, loopVars,
                   historyVars, faults>>

-----------------------------------------------------------------------------
(* Stopping, closing, failures.                                            *)

(* The client library closes the open channels of cs.                      *)
CloseChannels(cs) ==
    /\ Requeue(cs)
    /\ chan' = [c \in Consumers |-> IF c \in cs THEN "closed" ELSE chan[c]]
    /\ closeNote' = [c \in Consumers |-> IF c \in cs THEN "nil" ELSE closeNote[c]]
    /\ buffer' = [c \in Consumers |-> IF c \in cs THEN {} ELSE buffer[c]]

Open(p) == {c \in Consumers : ProcOf[c] = p /\ chan[c] = "open"}

(* The function Consume returned: close the channel and, when that went    *)
(* well or it was closed before, wait for done.  A channel that is broken  *)
(* and not noticed yet fails the call of Close, which leaves the channel   *)
(* closed: stop returns the error at once, over handlers that still run,   *)
(* and closeChan has the broker's error or nil, whichever came first.  The *)
(* faulty form does not close the channel.                                 *)
StopChannel_Keep(c) ==
    stop' = [stop EXCEPT ![c] = "waiting"] /\ UNCHANGED <<ready, chanVars>>
StopChannel(c) ==
    \/ /\ chan[c] = "open"
       /\ CloseChannels({c})
       /\ stop' = [stop EXCEPT ![c] = "waiting"]
    \/ /\ chan[c] = "closed"
       /\ stop' = [stop EXCEPT ![c] = "waiting"]
       /\ UNCHANGED <<ready, chanVars>>
    \/ /\ chan[c] = "broken"
       /\ chan' = [chan EXCEPT ![c] = "closed"]
       /\ \E note \in {"nil", "err"} : closeNote' = [closeNote EXCEPT ![c] = note]
       /\ buffer' = [buffer EXCEPT ![c] = {}]
       /\ stop' = [stop EXCEPT ![c] = "failed"]
       /\ UNCHANGED ready

Stop(c) ==
    /\ c \in MayStop
    /\ cpc[c] \in {"select", "token", "drain", "done"}
    /\ stop[c] \in {"none", "failed", "expired"}
    /\ StopChannel(c)
    /\ UNCHANGED <<sent, bound, delayBound, delayed, procVars, cpc, hand, ctxDone,
                   slot, historyVars, faults>>

(* stop waits for done, or until the context it was given ends.            *)
StopReturn(c) ==
    /\ stop[c] = "waiting" /\ cpc[c] = "done"
    /\ stop' = [stop EXCEPT ![c] = "nil"]
    /\ UNCHANGED <<brokerVars, procVars, chanVars, cpc, hand, ctxDone, slot,
                   historyVars, faults>>

StopExpires(c) ==
    /\ stop[c] = "waiting"
    /\ stop' = [stop EXCEPT ![c] = "expired"]
    /\ UNCHANGED <<brokerVars, procVars, chanVars, cpc, hand, ctxDone, slot,
                   historyVars, faults>>

CancelCtx(c) ==
    /\ c \in MayCancel
    /\ cpc[c] # "off"
    /\ ctxDone' = [ctxDone EXCEPT ![c] = TRUE]
    /\ UNCHANGED <<brokerVars, procVars, chanVars, cpc, hand, stop, slot,
                   historyVars, faults>>

(* Close: the connection, with every channel on it; it waits for nothing.  *)
Close(p) ==
    /\ p \in MayClose
    /\ life[p] = "open"
    /\ life' = [life EXCEPT ![p] = "closed"]
    /\ conn' = [conn EXCEPT ![p] = "closed"]
    /\ CloseChannels(Open(p))
    /\ UNCHANGED <<sent, bound, delayBound, delayed, loopVars, slot, historyVars,
                   faults>>

(* The process of instance p ends with everything it had in memory.        *)
Die(p) ==
    LET mine == {c \in Consumers : ProcOf[c] = p}
        Reset(f, v) == [c \in Consumers |-> IF c \in mine THEN v ELSE f[c]]
    IN
    /\ Requeue(mine)
    /\ life' = [life EXCEPT ![p] = "down"]
    /\ conn' = [conn EXCEPT ![p] = "closed"]
    /\ chan' = Reset(chan, "none")
    /\ closeNote' = Reset(closeNote, "none")
    /\ buffer' = Reset(buffer, {})
    /\ cpc' = Reset(cpc, "off")
    /\ hand' = Reset(hand, 0)
    /\ ctxDone' = Reset(ctxDone, FALSE)
    /\ stop' = Reset(stop, "none")
    /\ slot' = Reset(slot, [k \in Slots |-> Free])
    /\ UNCHANGED <<sent, bound, delayBound, delayed, historyVars>>

(* A channel the client itself closed makes closeChan yield a nil error;   *)
(* when the select takes it before msgs, err.Error() panics.  MaxFaults    *)
(* bounds the panics too.                                                  *)
Panic(c) ==
    /\ cpc[c] = "select" /\ closeNote[c] = "nil"
    /\ faults < MaxFaults
    /\ faults' = faults + 1
    /\ Die(ProcOf[c])

Crash(p) ==
    /\ life[p] # "down"
    /\ Fault("crash")
    /\ Die(p)

Restart(p) ==
    /\ life[p] = "down"
    /\ life' = [life EXCEPT ![p] = "open"]
    /\ conn' = [conn EXCEPT ![p] = "up"]
    /\ UNCHANGED <<brokerVars, chanVars, loopVars, slot, historyVars, faults>>

BreakChannels(cs) ==
    chan' = [c \in Consumers |-> IF c \in cs THEN "broken" ELSE chan[c]]

(* The broker closes a consumer's channel.                                 *)
ChannelBreak(c) ==
    /\ chan[c] = "open"
    /\ Fault("channel")
    /\ Requeue({c})
    /\ BreakChannels({c})
    /\ UNCHANGED <<sent, bound, delayBound, delayed, procVars, closeNote, buffer,
                   loopVars, slot, historyVars>>

ConnBreak(p) ==
    /\ conn[p] = "up"
    /\ Fault("connection")
    /\ conn' = [conn EXCEPT ![p] = "closed"]
    /\ Requeue(Open(p))
    /\ BreakChannels(Open(p))
    /\ UNCHANGED <<sent, bound, delayBound, delayed, life, closeNote, buffer,
                   loopVars, slot, historyVars>>

(* The broker restarts: every connection is lost, durable queues and the   *)
(* delayed exchange's messages stay, transient messages in queues do not.  *)
BrokerRestart ==
    /\ Fault("restart")
    /\ conn' = [p \in Procs |-> "closed"]
    /\ BreakChannels({c \in Consumers : chan[c] = "open"})
    /\ ready' = [q \in Queues |-> {}]
    /\ lost' = [q \in Queues |->
                   lost[q] \cup {sent[i].msg : i \in ready[q] \cup QueueUnacked(q)}]
    /\ UNCHANGED <<sent, bound, delayBound, delayed, life, closeNote, buffer,
                   loopVars, slot, published, accepted, routed, settled>>

(* The client notices: closeChan yields the error, msgs is closed and what *)
(* it held is dropped.                                                     *)
Notice(c) ==
    /\ chan[c] = "broken" /\ cpc[c] \notin {"bound", "subscribe"}
    /\ chan' = [chan EXCEPT ![c] = "closed"]
    /\ closeNote' = [closeNote EXCEPT ![c] = "err"]
    /\ buffer' = [buffer EXCEPT ![c] = {}]
    /\ UNCHANGED <<brokerVars, procVars, loopVars, slot, historyVars, faults>>

-----------------------------------------------------------------------------
SetupStep(c) == Consume(c) \/ Bind(c) \/ Subscribe(c) \/ ConsumeFails(c)

LoopStep(c) ==
    \/ SelectDone(c)
    \/ SelectClosed(c)
    \/ SelectMsg(c)
    \/ \E k \in Slots : Token(c, k)
    \/ LoopDone(c)

TaskStep(c, k) == Handle(c, k) \/ Retry(c, k) \/ Answer(c, k)

FailureStep ==
    \/ \E c \in Consumers : ChannelBreak(c)
    \/ \E p \in Procs : ConnBreak(p) \/ Crash(p)
    \/ BrokerRestart

Next ==
    \/ \E p \in Procs, m \in Msgs : Publish(p, m) \/ PublishDelay(p, m)
    \/ \E i \in delayed : Due(i)
    \/ \E c \in Consumers : SetupStep(c) \/ Deliver(c) \/ LoopStep(c)
    \/ \E c \in Consumers, k \in Slots : TaskStep(c, k)
    \/ \E c \in Consumers : Stop(c) \/ StopReturn(c) \/ StopExpires(c)
    \/ \E c \in Consumers : CancelCtx(c) \/ Panic(c) \/ Notice(c)
    \/ \E p \in Procs : Close(p) \/ Restart(p)
    \/ FailureStep

Spec == Init /\ [][Next]_vars

(* Goroutines run, handlers return, delays pass, the broker delivers, a    *)
(* broken connection is noticed, and a process that died is started again  *)
(* and consumes again.                                                     *)
Fairness ==
    /\ \A p \in Procs : WF_vars(Restart(p))
    /\ \A c \in Consumers :
          /\ WF_vars(SetupStep(c))
          /\ WF_vars(Deliver(c))
          /\ WF_vars(LoopStep(c))
          /\ WF_vars(Notice(c))
          /\ WF_vars(StopReturn(c))
          /\ \A k \in Slots : WF_vars(TaskStep(c, k))
    /\ \A i \in 1..MaxCopies : WF_vars(Due(i))

FairSpec == Spec /\ Fairness

-----------------------------------------------------------------------------
(* Type invariant.  What waits for a token is in the loop's hand, a channel*)
(* that is not open holds nothing on the broker's side, a dead process     *)
(* holds nothing.                                                          *)
Ids == 1..Len(sent)

TypeOK ==
    /\ sent \in Seq(Entry)
    /\ bound \subseteq Queues
    /\ delayBound \subseteq bound
    /\ ready \in [Queues -> SUBSET Ids]
    /\ delayed \subseteq Ids
    /\ conn \in [Procs -> {"up", "closed"}]
    /\ life \in [Procs -> {"open", "closed", "down"}]
    /\ chan \in [Consumers -> {"none", "open", "broken", "closed"}]
    /\ closeNote \in [Consumers -> {"none", "nil", "err"}]
    /\ buffer \in [Consumers -> SUBSET Ids]
    /\ cpc \in [Consumers -> {"off", "bound", "subscribe", "select", "token", "drain",
                              "done"}]
    /\ hand \in [Consumers -> {0} \cup Ids]
    /\ \A c \in Consumers : hand[c] # 0 <=> cpc[c] = "token"
    /\ \A c \in Consumers : cpc[c] = "off" => chan[c] = "none" /\ buffer[c] = {}
    /\ ctxDone \in [Consumers -> BOOLEAN]
    /\ stop \in [Consumers -> {"none", "waiting", "nil", "failed", "expired"}]
    /\ slot \in [Consumers -> [Slots -> Task]]
    /\ \A c \in Consumers, k \in Slots :
          slot[c][k].pc # "free" => slot[c][k].id \in Ids
    /\ \A c \in Consumers, k \in Slots :
          slot[c][k].pc = "retry" => RetryAllowed(TaskEntry(c, k))
    /\ published \in [Msgs -> Nat]
    /\ accepted \subseteq Msgs
    /\ routed \in [Queues -> SUBSET Msgs]
    /\ settled \in [Queues -> SUBSET Msgs]
    /\ lost \in [Queues -> SUBSET Msgs]
    /\ faults \in Nat

(* The attempts queue q still has before it: in the queue, delivered and   *)
(* not acknowledged, or held back by the delayed exchange the queue is     *)
(* bound to.                                                               *)
DelayedFor(q) ==
    {i \in delayed : q \in DelayBindings /\ sent[i].msg \in Matches[q] \cap routed[q]}

Ahead(q) == ready[q] \cup QueueUnacked(q) \cup DelayedFor(q)

Outstanding(q) == {sent[i] : i \in Ahead(q)}

(* A message once routed to a queue is settled for its group, or in the    *)
(* queue, unacknowledged, or on its way back to it, whatever channel,      *)
(* connection or process fails, is stopped or closed between a delivery,   *)
(* its retry and its acknowledgement (rabbitmq_adapter.go:269), unless the *)
(* broker refused the retry or restarted over it.                          *)
NoLoss ==
    \A q \in Queues : \A m \in routed[q] :
        \/ m \in settled[q] \cup lost[q]
        \/ \E e \in Outstanding(q) : e.msg = m

(* Once stop has returned nil the consumer keeps nothing from the queue: no*)
(* handler runs, no delivery waits for a token or in a channel nobody      *)
(* reads, and none comes any more, whatever ended the loop and the channel *)
(* first (rabbitmq_adapter.go:300): stop itself, a cancelled context, which*)
(* leaves the channel open, the broker, or Close.                          *)
StopIsQuiet ==
    \A c \in Consumers : stop[c] = "nil" => Held(c) = {} /\ chan[c] # "open"

(* stop returns, without a deadline too, and the loop ends even when stop  *)
(* did not wait for it: closing the channel ends it wherever it is, also   *)
(* while it waits for a token with a delivery in hand.                     *)
StopReturns ==
    \A c \in Consumers : stop[c] # "none" ~>
        cpc[c] \in {"done", "off"} /\ stop[c] # "waiting"

(* Some consumer of the queue reads its deliveries.                        *)
Served(q) ==
    \E c \in Consumers :
        /\ QueueOf[c] = q /\ chan[c] = "open"
        /\ cpc[c] \in {"select", "token"} /\ ~ctxDone[c]

(* A loop has ended over a cancelled context, and its channel, which only  *)
(* stop closes, keeps what the broker has pushed into it.                  *)
Stranded(q) ==
    \E c \in Consumers :
        QueueOf[c] = q /\ chan[c] = "open" /\ cpc[c] \in {"drain", "done"}

(* Every message routed to a queue is settled when, from some time on, the *)
(* queue is served and no channel is stranded: retries come back, and what *)
(* failed, stopped or dead consumers held goes to the one that serves.     *)
EventuallySettled ==
    \A q \in Queues, m \in Msgs :
        \/ []<>(~Served(q) \/ Stranded(q))
        \/ m \in routed[q] ~> m \in settled[q] \cup lost[q]

-----------------------------------------------------------------------------
(* The adapter implements the MQ interface's promise to every group.       *)

Contract == INSTANCE AtLeastOnce
    WITH Groups <- Queues,
         owed <- routed,
         pending <- [q \in Queues |-> Outstanding(q)],
         settled <- [q \in Queues |-> settled[q] \cup lost[q]]

ImplementsContract == Contract!Spec

-----------------------------------------------------------------------------
(* What the repository says of the adapter and the code does not do.       *)

(* A failing publish of the retry must end in a Nack                       *)
(* (rabbitmq_adapter.go:269): the broker refuses it after PublishDelay has *)
(* looked, and the delivery is acknowledged.                               *)
RetryNeverLost ==
    \A q \in Queues : \A m \in routed[q] :
        m \in settled[q] \/ \E e \in Outstanding(q) : e.msg = m

(* Publish looks for a close of the channel and for a message that cannot  *)
(* be routed (rabbitmq_adapter.go:121), and what shows neither in 100 ms is*)
(* published (rabbitmq_adapter.go:128): a return may come later.           *)
AcceptedIsRouted == \A m \in accepted : \E q \in Queues : m \in routed[q]

(* stop ends the consumption gracefully (mq.go:46): when the connection or *)
(* the channel has just broken it returns with handlers still running.     *)
StopWaits ==
    \A c \in Consumers : stop[c] = "failed" => \A k \in Slots : slot[c][k].pc = "free"

(* stop ends the consumption gracefully (mq.go:46): it closes the channel, *)
(* and a loop that was waiting for a token panics over the nil error.      *)
StopIsGraceful == \A p \in Procs : life[p] # "down"

(* Close waits for the work in flight (client.go:21): this one does not.   *)
CloseIsQuiet ==
    \A c \in Consumers, k \in Slots :
        life[ProcOf[c]] = "closed" => slot[c][k].pc = "free"
=============================================================================
