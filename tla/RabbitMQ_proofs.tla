-------------------------- MODULE RabbitMQ_proofs --------------------------
(* Theorems about RabbitMQ, for every value of its constants.              *)
EXTENDS RabbitMQ, Integers, TLAPS

-----------------------------------------------------------------------------
(* Type correctness.                                                       *)

(* What TypeOK leaves out and its induction needs: a loop holds deliveries *)
(* only after its subscription, and the bindings of its queue come before  *)
(* that, in the order of the calls in Consume.                             *)
IdleBeforeLoop ==
    \A c \in Consumers : cpc[c] \in {"off", "bound", "subscribe"} =>
        buffer[c] = {} /\ \A k \in Slots : slot[c][k].pc = "free"

BoundFirst ==
    \A c \in Consumers :
        /\ cpc[c] # "off" => QueueOf[c] \in bound
        /\ cpc[c] \notin {"off", "bound"} => QueueOf[c] \in DelayBindings

SetupInv == IdleBeforeLoop /\ BoundFirst

TypeInv == TypeOK /\ SetupInv

LEMMA TypeInit == Init => TypeInv
  BY ConstantsAssumption
     DEF Init, TypeInv, TypeOK, SetupInv, IdleBeforeLoop, BoundFirst, Free, Task, Entry,
         Slots, Ids

(* The entry a busy goroutine works on.                                    *)
LEMMA TaskEntryType ==
    ASSUME TypeOK, NEW c \in Consumers, NEW k \in Slots, slot[c][k].pc # "free"
    PROVE  TaskEntry(c, k) \in Entry
  BY DEF TypeOK, TaskEntry, Ids

(* The retry copy of an entry that may be retried is an entry.             *)
LEMMA RetryCopy ==
    ASSUME NEW e \in Entry, RetryAllowed(e)
    PROVE  /\ [e EXCEPT !.attempt = @ + 1] \in Entry
           /\ [e EXCEPT !.attempt = @ + 1].msg = e.msg
           /\ [e EXCEPT !.attempt = @ + 1].attempt = e.attempt + 1
  BY ConstantsAssumption DEF Entry, RetryAllowed

(* The broker keeps every publishing under its ID and stores the new one   *)
(* last.                                                                   *)
LEMMA TakeGrows ==
    ASSUME sent \in Seq(Entry), NEW e \in Entry, Take(e)
    PROVE  /\ sent' \in Seq(Entry)
           /\ Len(sent) \in Nat
           /\ Len(sent') = Len(sent) + 1
           /\ \A i \in Ids : sent'[i] = sent[i]
           /\ sent'[Len(sent) + 1] = e
           /\ Ids \subseteq Ids' /\ Len(sent) + 1 \in Ids'
           /\ Len(sent) + 1 \notin Ids
           /\ Ids' = Ids \cup {Len(sent) + 1}
  BY DEF Take, Ids

(* Routing keeps the types of what it writes.                              *)
LEMMA RouteType ==
    ASSUME NEW i, NEW m, NEW qs, Route(i, m, qs), NEW S, i \in S, m \in Msgs,
           ready \in [Queues -> SUBSET S], routed \in [Queues -> SUBSET Msgs]
    PROVE  ready' \in [Queues -> SUBSET S] /\ routed' \in [Queues -> SUBSET Msgs]
  BY DEF Route

(* What is held back by the broker and by the client are IDs.              *)
LEMMA UnackedType ==
    ASSUME TypeOK, NEW c \in Consumers
    PROVE  Held(c) \subseteq Ids /\ Unacked(c) \subseteq Ids
  BY DEF TypeOK, Held, Unacked

LEMMA RequeueType ==
    ASSUME TypeOK, NEW cs \in SUBSET Consumers, Requeue(cs)
    PROVE  ready' \in [Queues -> SUBSET Ids]
  <1>1. ASSUME NEW q \in Queues
        PROVE  ready[q] \cup UNION {Unacked(c) : c \in {d \in cs : QueueOf[d] = q}}
               \in SUBSET Ids
    BY UnackedType DEF TypeOK
  <1> QED
    BY <1>1 DEF Requeue

(* An ID the adapter or the broker uses is that of an entry.               *)
LEMMA EntryAt ==
    ASSUME TypeOK, NEW i \in Ids
    PROVE  sent[i] \in Entry /\ sent[i].msg \in Msgs /\ sent[i].attempt \in Nat
  <1>1. sent[i] \in Entry
    BY DEF TypeOK, Ids
  <1> QED
    BY <1>1, ConstantsAssumption DEF Entry

(* A goroutine's step writes its own slot only, and keeps its ID until it  *)
(* ends.                                                                   *)
LEMMA SetTaskSlot ==
    ASSUME slot \in [Consumers -> [Slots -> Task]], NEW c \in Consumers, NEW k \in Slots,
           NEW pc \in {"exec", "retry", "ack", "nack"}, SetTask(c, k, pc)
    PROVE  /\ slot' \in [Consumers -> [Slots -> Task]]
           /\ slot'[c][k].pc = pc /\ slot'[c][k].id = slot[c][k].id
           /\ \A d \in Consumers, l \in Slots :
                 ~(d = c /\ l = k) => slot'[d][l] = slot[d][l]
  BY DEF SetTask, Task

(* A new publishing leaves the IDs in use valid.                           *)
LEMMA TakeType ==
    ASSUME TypeOK, NEW e \in Entry, Take(e), UNCHANGED <<buffer, hand, slot>>
    PROVE  /\ sent' \in Seq(Entry)
           /\ ready \in [Queues -> SUBSET Ids']
           /\ delayed \subseteq Ids'
           /\ buffer' \in [Consumers -> SUBSET Ids']
           /\ hand' \in [Consumers -> {0} \cup Ids']
           /\ \A c \in Consumers, k \in Slots :
                 slot'[c][k].pc # "free" => slot'[c][k].id \in Ids'
           /\ \A c \in Consumers, k \in Slots :
                 slot'[c][k].pc = "retry" => RetryAllowed(TaskEntry(c, k)')
  <1>1. /\ sent' \in Seq(Entry) /\ Ids \subseteq Ids'
        /\ \A i \in Ids : sent'[i] = sent[i]
    BY TakeGrows DEF TypeOK
  <1> QED
    BY <1>1 DEF TypeOK, TaskEntry

LEMMA TypeConsume ==
    ASSUME TypeInv, NEW c \in Consumers, Consume(c)
    PROVE  TypeInv'
  <1>1. CASE /\ UNCHANGED faults
             /\ conn' = [conn EXCEPT ![ProcOf[c]] = "up"]
             /\ chan' = [chan EXCEPT ![c] = "open"]
             /\ bound' = bound \cup {QueueOf[c]}
             /\ cpc' = [cpc EXCEPT ![c] = "bound"]
    <2>1. QueueOf[c] \in Queues /\ ProcOf[c] \in Procs
      BY ConstantsAssumption
    <2> QED
      BY <1>1, <2>1
         DEF TypeInv, TypeOK, SetupInv, IdleBeforeLoop, BoundFirst, Consume, DelayBindings,
             TaskEntry, Ids, brokerVars, procVars, chanVars, loopVars, historyVars
  <1>2. CASE Fault("dial") /\ UNCHANGED <<conn, chan, bound, cpc>>
    BY <1>2
       DEF TypeInv, TypeOK, SetupInv, IdleBeforeLoop, BoundFirst, Consume, Fault,
           DelayBindings, TaskEntry, Ids, brokerVars, procVars, chanVars, loopVars,
           historyVars
  <1> QED
    BY <1>1, <1>2 DEF Consume

LEMMA TypePublish ==
    ASSUME TypeInv, NEW p \in Procs, NEW m \in Msgs, Publish(p, m)
    PROVE  TypeInv'
  <1> DEFINE e == [msg |-> m, attempt |-> 0]
  <1>1. e \in Entry
    BY ConstantsAssumption DEF Entry
  <1>2. PICK res \in Results :
           /\ Send(p, res)
           /\ IF res = "taken" THEN Take(e) /\ Route(Len(sent) + 1, m, bound)
                               ELSE UNCHANGED <<sent, ready, routed>>
           /\ accepted' \in {accepted, accepted \cup {m}}
    BY DEF Publish
  <1>3. /\ conn' \in [Procs -> {"up", "closed"}]
        /\ faults' \in Nat
        /\ accepted' \subseteq Msgs
        /\ published' \in [Msgs -> Nat]
        /\ UNCHANGED <<bound, delayBound, delayed, life, chan, closeNote, buffer, cpc, hand,
                       ctxDone, stop, slot, settled, lost>>
    BY <1>2 DEF Publish, Send, Fault, TypeInv, TypeOK, chanVars, loopVars
  <1>4. SetupInv'
    BY <1>3 DEF TypeInv, TypeOK, SetupInv, IdleBeforeLoop, BoundFirst, DelayBindings
  <1> HIDE DEF e
  <1>5. CASE res = "taken"
    <2>1. Take(e) /\ Route(Len(sent) + 1, m, bound)
      BY <1>2, <1>5
    <2>2. Len(sent) + 1 \in Ids'
      BY <1>1, <2>1, TakeGrows DEF TypeInv, TypeOK
    <2>3. ready \in [Queues -> SUBSET Ids'] /\ routed \in [Queues -> SUBSET Msgs]
      BY <1>1, <1>3, <2>1, TakeType DEF TypeInv, TypeOK
    <2>4. ready' \in [Queues -> SUBSET Ids'] /\ routed' \in [Queues -> SUBSET Msgs]
      BY <2>1, <2>2, <2>3, RouteType
    <2> QED
      BY <1>1, <1>3, <1>4, <2>1, <2>4, TakeType DEF TypeInv, TypeOK
  <1>6. CASE res # "taken"
    BY <1>2, <1>3, <1>4, <1>6 DEF TypeInv, TypeOK, TaskEntry, Ids
  <1> QED
    BY <1>5, <1>6

LEMMA TypePublishDelay ==
    ASSUME TypeInv, NEW p \in Procs, NEW m \in Msgs, PublishDelay(p, m)
    PROVE  TypeInv'
  <1> DEFINE e == [msg |-> m, attempt |-> 0]
  <1>1. e \in Entry
    BY ConstantsAssumption DEF Entry
  <1>2. PICK res \in Results : SendDelayed(p, e, res)
    BY DEF PublishDelay
  <1>3. /\ conn' \in [Procs -> {"up", "closed"}]
        /\ faults' \in Nat
        /\ published' \in [Msgs -> Nat]
        /\ UNCHANGED <<bound, delayBound, ready, life, chan, closeNote, buffer, cpc, hand,
                       ctxDone, stop, slot, accepted, routed, settled, lost>>
    <2>1. Send(p, res)
      BY <1>2 DEF SendDelayed
    <2> QED
      BY <2>1 DEF PublishDelay, Send, Fault, TypeInv, TypeOK, chanVars, loopVars
  <1>4. SetupInv'
    BY <1>3 DEF TypeInv, TypeOK, SetupInv, IdleBeforeLoop, BoundFirst, DelayBindings
  <1> HIDE DEF e
  <1>5. CASE res = "taken"
    <2>1. Take(e) /\ delayed' = delayed \cup {Len(sent) + 1}
      BY <1>2, <1>5 DEF SendDelayed
    <2>2. delayed' \subseteq Ids'
      BY <1>1, <2>1, TakeGrows DEF TypeInv, TypeOK
    <2> QED
      BY <1>1, <1>3, <1>4, <2>1, <2>2, TakeType DEF TypeInv, TypeOK
  <1>6. CASE res # "taken"
    BY <1>2, <1>3, <1>4, <1>6 DEF SendDelayed, TypeInv, TypeOK, TaskEntry, Ids
  <1> QED
    BY <1>5, <1>6

LEMMA TypeDue ==
    ASSUME TypeInv, NEW i \in delayed, Due(i)
    PROVE  TypeInv'
  <1>1. i \in Ids /\ sent[i].msg \in Msgs
    BY EntryAt DEF TypeInv, TypeOK
  <1>2. ready' \in [Queues -> SUBSET Ids] /\ routed' \in [Queues -> SUBSET Msgs]
    BY <1>1, RouteType DEF Due, TypeInv, TypeOK
  <1> QED
    BY <1>2
       DEF TypeInv, TypeOK, SetupInv, IdleBeforeLoop, BoundFirst, Due, DelayBindings,
           TaskEntry, Ids, brokerVars, procVars, chanVars, loopVars, historyVars

LEMMA TypeHandle ==
    ASSUME TypeInv, NEW c \in Consumers, NEW k \in Slots, Handle(c, k)
    PROVE  TypeInv'
  <1>1. TaskEntry(c, k).msg \in Msgs /\ QueueOf[c] \in Queues
    BY TaskEntryType, ConstantsAssumption DEF Handle, TypeInv, Entry
  <1>2. settled' \in [Queues -> SUBSET Msgs]
    <2>1. \/ settled' = [settled EXCEPT ![QueueOf[c]] = @ \cup {TaskEntry(c, k).msg}]
          \/ UNCHANGED settled
      BY DEF Handle
    <2>2. settled \in [Queues -> SUBSET Msgs]
      BY DEF TypeInv, TypeOK
    <2> QED
      BY <1>1, <2>1, <2>2
  <1>3. \E pc \in {"ack", "retry"} :
           SetTask(c, k, pc) /\ (pc = "retry" => RetryAllowed(TaskEntry(c, k)))
    BY DEF Handle
  <1>4. /\ slot' \in [Consumers -> [Slots -> Task]]
        /\ \A d \in Consumers, l \in Slots :
              /\ slot'[d][l].id = slot[d][l].id
              /\ slot'[d][l].pc = "free" <=> slot[d][l].pc = "free"
              /\ slot'[d][l].pc = "retry" =>
                    slot[d][l].pc = "retry" \/ RetryAllowed(TaskEntry(d, l))
    <2>1. slot \in [Consumers -> [Slots -> Task]] /\ slot[c][k].pc = "exec"
      BY DEF Handle, TypeInv, TypeOK
    <2>2. PICK pc \in {"ack", "retry"} :
             SetTask(c, k, pc) /\ (pc = "retry" => RetryAllowed(TaskEntry(c, k)))
      BY <1>3
    <2> QED
      BY <2>1, <2>2, SetTaskSlot
  <1>5. UNCHANGED <<sent, bound, delayBound, ready, delayed, conn, life, chan, closeNote,
                    buffer, cpc, hand, ctxDone, stop, published, accepted, routed, lost,
                    faults>>
    BY DEF Handle, brokerVars, procVars, chanVars, loopVars
  <1>6. SetupInv'
    BY <1>4, <1>5 DEF TypeInv, TypeOK, SetupInv, IdleBeforeLoop, BoundFirst, DelayBindings
  <1>7. ASSUME NEW d \in Consumers, NEW l \in Slots
        PROVE  /\ slot'[d][l].pc # "free" => slot'[d][l].id \in Ids'
               /\ slot'[d][l].pc = "retry" => RetryAllowed(TaskEntry(d, l)')
    <2>1. Ids' = Ids /\ TaskEntry(d, l)' = TaskEntry(d, l)
      BY <1>4, <1>5 DEF Ids, TaskEntry
    <2>2. /\ slot[d][l].pc # "free" => slot[d][l].id \in Ids
          /\ slot[d][l].pc = "retry" => RetryAllowed(TaskEntry(d, l))
      BY DEF TypeInv, TypeOK
    <2> QED
      BY <1>4, <2>1, <2>2
  <1> QED
    BY <1>2, <1>4, <1>5, <1>6, <1>7 DEF TypeInv, TypeOK, Ids

LEMMA TypeRetry ==
    ASSUME TypeInv, NEW c \in Consumers, NEW k \in Slots, Retry(c, k)
    PROVE  TypeInv'
  <1> DEFINE e == [TaskEntry(c, k) EXCEPT !.attempt = @ + 1]
  <1>1. /\ TaskEntry(c, k) \in Entry /\ TaskEntry(c, k).msg \in Msgs
        /\ slot[c][k].pc = "retry"
        /\ e \in Entry
        /\ QueueOf[c] \in Queues /\ ProcOf[c] \in Procs
    BY TaskEntryType, RetryCopy, ConstantsAssumption DEF Retry, TypeInv, TypeOK, Entry
  <1>2. PICK res \in Results :
           /\ SendDelayed(ProcOf[c], e, res)
           /\ lost' = IF res = "refused"
                      THEN [lost EXCEPT ![QueueOf[c]] = @ \cup {TaskEntry(c, k).msg}]
                      ELSE lost
           /\ SetTask(c, k, AfterRetry(res))
    BY DEF Retry
  <1> HIDE DEF e
  <1>3. /\ conn' \in [Procs -> {"up", "closed"}]
        /\ faults' \in Nat
    BY <1>1, <1>2 DEF SendDelayed, Send, Fault, TypeInv, TypeOK
  <1>4. lost' \in [Queues -> SUBSET Msgs]
    BY <1>1, <1>2 DEF TypeInv, TypeOK
  <1>5. UNCHANGED <<bound, delayBound, ready, life, chan, closeNote, buffer, cpc, hand,
                    ctxDone, stop, accepted, routed, settled, published>>
    BY DEF Retry, chanVars, loopVars
  <1>6. /\ slot' \in [Consumers -> [Slots -> Task]]
        /\ slot'[c][k].pc \in {"ack", "nack"}
        /\ \A d \in Consumers, l \in Slots :
              /\ slot'[d][l].id = slot[d][l].id
              /\ slot'[d][l].pc = "free" <=> slot[d][l].pc = "free"
              /\ slot'[d][l].pc = "retry" => slot[d][l].pc = "retry"
    <2>1. AfterRetry(res) \in {"ack", "nack"}
      BY DEF AfterRetry
    <2>2. slot \in [Consumers -> [Slots -> Task]]
      BY DEF TypeInv, TypeOK
    <2> QED
      BY <1>1, <1>2, <2>1, <2>2, SetTaskSlot
  <1>7. SetupInv'
    BY <1>5, <1>6 DEF TypeInv, TypeOK, SetupInv, IdleBeforeLoop, BoundFirst, DelayBindings
  <1>8. /\ sent' \in Seq(Entry) /\ Ids \subseteq Ids' /\ delayed' \subseteq Ids'
        /\ \A i \in Ids : sent'[i] = sent[i]
    <2>1. CASE res = "taken"
      <3>1. Take(e) /\ delayed' = delayed \cup {Len(sent) + 1}
        BY <1>2, <2>1 DEF SendDelayed
      <3> QED
        BY <1>1, <3>1, TakeGrows DEF TypeInv, TypeOK
    <2>2. CASE res # "taken"
      BY <1>2, <2>2 DEF SendDelayed, TypeInv, TypeOK, Ids
    <2> QED
      BY <2>1, <2>2
  <1>9. /\ ready' \in [Queues -> SUBSET Ids']
        /\ buffer' \in [Consumers -> SUBSET Ids']
        /\ hand' \in [Consumers -> {0} \cup Ids']
    BY <1>5, <1>8 DEF TypeInv, TypeOK
  <1>10. ASSUME NEW d \in Consumers, NEW l \in Slots
         PROVE  /\ slot'[d][l].pc # "free" => slot'[d][l].id \in Ids'
                /\ slot'[d][l].pc = "retry" => RetryAllowed(TaskEntry(d, l)')
    <2>1. /\ slot[d][l].pc # "free" => slot[d][l].id \in Ids
          /\ slot[d][l].pc = "retry" => RetryAllowed(TaskEntry(d, l))
      BY DEF TypeInv, TypeOK
    <2>2. slot[d][l].id \in Ids => TaskEntry(d, l)' = TaskEntry(d, l)
      BY <1>6, <1>8 DEF TaskEntry
    <2> QED
      BY <1>6, <1>8, <2>1, <2>2
  <1> QED
    BY <1>3, <1>4, <1>5, <1>6, <1>7, <1>8, <1>9, <1>10 DEF TypeInv, TypeOK

LEMMA TypeStop ==
    ASSUME TypeInv, NEW c \in Consumers, Stop(c)
    PROVE  TypeInv'
  <1>0. stop' \in [Consumers -> {"none", "waiting", "nil", "failed", "expired"}]
    BY DEF Stop, StopChannel, TypeInv, TypeOK
  <1>1. CASE chan[c] = "open"
    <2>1. CloseChannels({c}) /\ cpc[c] \in {"select", "token", "drain", "done"}
      BY <1>1 DEF Stop, StopChannel
    <2>2. ready' \in [Queues -> SUBSET Ids]
      BY <2>1, RequeueType DEF CloseChannels, TypeInv
    <2>3. UNCHANGED <<sent, bound, delayBound, delayed, conn, life, cpc, hand, ctxDone,
                      slot, published, accepted, routed, settled, lost, faults>>
      BY DEF Stop, procVars, historyVars
    <2> QED
      BY <1>0, <2>1, <2>2, <2>3
         DEF CloseChannels, TypeInv, TypeOK, SetupInv, IdleBeforeLoop, BoundFirst,
             DelayBindings, TaskEntry, Ids
  <1>2. CASE chan[c] = "closed"
    <2>1. UNCHANGED <<sent, bound, delayBound, ready, delayed, conn, life, chan, closeNote,
                      buffer, cpc, hand, ctxDone, slot, published, accepted, routed,
                      settled, lost, faults>>
      BY <1>2 DEF Stop, StopChannel, procVars, historyVars, chanVars
    <2> QED
      BY <1>0, <2>1
         DEF TypeInv, TypeOK, SetupInv, IdleBeforeLoop, BoundFirst, DelayBindings, TaskEntry,
             Ids
  <1>3. CASE chan[c] \notin {"open", "closed"}
    <2>1. PICK note \in {"nil", "err"} :
              /\ chan[c] = "broken"
              /\ chan' = [chan EXCEPT ![c] = "closed"]
              /\ closeNote' = [closeNote EXCEPT ![c] = note]
              /\ buffer' = [buffer EXCEPT ![c] = {}]
              /\ ready' = ready
      BY <1>3 DEF Stop, StopChannel
    <2>2. /\ cpc[c] \in {"select", "token", "drain", "done"}
          /\ UNCHANGED <<sent, bound, delayBound, delayed, conn, life, cpc, hand, ctxDone,
                         slot, published, accepted, routed, settled, lost, faults>>
      BY DEF Stop, procVars, historyVars
    <2> QED
      BY <1>0, <2>1, <2>2
         DEF TypeInv, TypeOK, SetupInv, IdleBeforeLoop, BoundFirst, DelayBindings, TaskEntry,
             Ids
  <1> QED
    BY <1>1, <1>2, <1>3

LEMMA TypeBrokerRestart ==
    ASSUME TypeInv, BrokerRestart
    PROVE  TypeInv'
  <1>1. ASSUME NEW q \in Queues
        PROVE  lost[q] \cup {sent[i].msg : i \in ready[q] \cup QueueUnacked(q)}
               \in SUBSET Msgs
    <2>1. ready[q] \cup QueueUnacked(q) \subseteq Ids
      BY UnackedType DEF TypeInv, TypeOK, QueueUnacked
    <2>2. \A i \in Ids : sent[i].msg \in Msgs
      BY EntryAt DEF TypeInv
    <2> QED
      BY <2>1, <2>2 DEF TypeInv, TypeOK
  <1>2. lost' \in [Queues -> SUBSET Msgs]
    BY <1>1 DEF BrokerRestart
  <1> QED
    BY <1>2
       DEF TypeInv, TypeOK, SetupInv, IdleBeforeLoop, BoundFirst, BrokerRestart, Fault,
           BreakChannels, DelayBindings, TaskEntry, Ids, brokerVars, procVars, chanVars,
           loopVars, historyVars

LEMMA TypeBind ==
    ASSUME TypeInv, NEW c \in Consumers, Bind(c)
    PROVE  TypeInv'
  BY ConstantsAssumption DEF TypeInv, TypeOK, SetupInv, IdleBeforeLoop, BoundFirst,
         Bind, BindDelayed,
         DelayBindings, TaskEntry, Ids, brokerVars, procVars, chanVars, loopVars, historyVars

LEMMA TypeSetupEnd ==
    ASSUME TypeInv, NEW c \in Consumers, Subscribe(c) \/ ConsumeFails(c)
    PROVE  TypeInv'
  <1>1. CASE Subscribe(c)
    BY <1>1
       DEF TypeInv, TypeOK, SetupInv, IdleBeforeLoop, BoundFirst, Subscribe,
           DelayBindings, TaskEntry, Ids, brokerVars, procVars, chanVars, loopVars, historyVars
  <1>2. CASE ConsumeFails(c)
    BY <1>2
       DEF TypeInv, TypeOK, SetupInv, IdleBeforeLoop, BoundFirst, ConsumeFails,
           DelayBindings, TaskEntry, Ids, brokerVars, procVars, chanVars, loopVars, historyVars
  <1> QED
    BY <1>1, <1>2

LEMMA TypeDeliver ==
    ASSUME TypeInv, NEW c \in Consumers, Deliver(c)
    PROVE  TypeInv'
  BY ConstantsAssumption DEF TypeInv, TypeOK, SetupInv, IdleBeforeLoop, BoundFirst,
         Deliver,
         DelayBindings, TaskEntry, Ids, brokerVars, procVars, chanVars, loopVars, historyVars

LEMMA TypeSelect ==
    ASSUME TypeInv, NEW c \in Consumers, SelectDone(c) \/ SelectClosed(c) \/ LoopDone(c)
    PROVE  TypeInv'
  <1>1. CASE SelectDone(c)
    BY <1>1
       DEF TypeInv, TypeOK, SetupInv, IdleBeforeLoop, BoundFirst, SelectDone, Goto,
           DelayBindings, TaskEntry, Ids, brokerVars, procVars, chanVars, loopVars, historyVars
  <1>2. CASE SelectClosed(c)
    BY <1>2
       DEF TypeInv, TypeOK, SetupInv, IdleBeforeLoop, BoundFirst, SelectClosed, Goto,
           DelayBindings, TaskEntry, Ids, brokerVars, procVars, chanVars, loopVars, historyVars
  <1>3. CASE LoopDone(c)
    BY <1>3
       DEF TypeInv, TypeOK, SetupInv, IdleBeforeLoop, BoundFirst, LoopDone, Goto,
           DelayBindings, TaskEntry, Ids, brokerVars, procVars, chanVars, loopVars, historyVars
  <1> QED
    BY <1>1, <1>2, <1>3

LEMMA TypeSelectMsg ==
    ASSUME TypeInv, NEW c \in Consumers, SelectMsg(c)
    PROVE  TypeInv'
  BY DEF TypeInv, TypeOK, SetupInv, IdleBeforeLoop, BoundFirst,
         SelectMsg, Goto,
         DelayBindings, TaskEntry, Ids, brokerVars, procVars, chanVars, loopVars, historyVars

LEMMA TypeToken ==
    ASSUME TypeInv, NEW c \in Consumers, NEW k \in Slots, Token(c, k)
    PROVE  TypeInv'
  BY DEF TypeInv, TypeOK, SetupInv, IdleBeforeLoop, BoundFirst,
         Token, Task, Goto,
         DelayBindings, TaskEntry, Ids, brokerVars, procVars, chanVars, loopVars, historyVars

LEMMA TypeAnswer ==
    ASSUME TypeInv, NEW c \in Consumers, NEW k \in Slots, Answer(c, k)
    PROVE  TypeInv'
  BY ConstantsAssumption DEF TypeInv, TypeOK, SetupInv, IdleBeforeLoop, BoundFirst,
         Answer, EndTask, Free, Task,
         DelayBindings, TaskEntry, Ids, brokerVars, procVars, chanVars, loopVars, historyVars

LEMMA TypeQuiet ==
    ASSUME TypeInv, NEW c \in Consumers,
           CancelCtx(c) \/ Notice(c) \/ StopReturn(c) \/ StopExpires(c)
    PROVE  TypeInv'
  <1>1. CASE CancelCtx(c)
    BY <1>1
       DEF TypeInv, TypeOK, SetupInv, IdleBeforeLoop, BoundFirst, CancelCtx,
           DelayBindings, TaskEntry, Ids, brokerVars, procVars, chanVars, loopVars, historyVars
  <1>2. CASE Notice(c)
    BY <1>2
       DEF TypeInv, TypeOK, SetupInv, IdleBeforeLoop, BoundFirst, Notice,
           DelayBindings, TaskEntry, Ids, brokerVars, procVars, chanVars, loopVars, historyVars
  <1>3. CASE StopReturn(c) \/ StopExpires(c)
    <2>1. stop' \in [Consumers -> {"none", "waiting", "nil", "failed", "expired"}]
      BY <1>3 DEF StopReturn, StopExpires, TypeInv, TypeOK
    <2>2. UNCHANGED <<sent, bound, delayBound, ready, delayed, conn, life, chan, closeNote,
                      buffer, cpc, hand, ctxDone, slot, published, accepted, routed,
                      settled, lost, faults>>
      BY <1>3 DEF StopReturn, StopExpires, brokerVars, procVars, chanVars, historyVars
    <2> QED
      BY <2>1, <2>2
         DEF TypeInv, TypeOK, SetupInv, IdleBeforeLoop, BoundFirst, DelayBindings, TaskEntry,
             Ids
  <1> QED
    BY <1>1, <1>2, <1>3

LEMMA TypeClose ==
    ASSUME TypeInv, NEW p \in Procs, Close(p)
    PROVE  TypeInv'
  <1>1. ready' \in [Queues -> SUBSET Ids]
    BY RequeueType DEF Close, CloseChannels, Open, TypeInv
  <1> QED
    BY <1>1
       DEF TypeInv, TypeOK, SetupInv, IdleBeforeLoop, BoundFirst,
           Close, CloseChannels, Open,
           DelayBindings, TaskEntry, Ids, brokerVars, procVars, chanVars, loopVars, historyVars

LEMMA TypeDie ==
    ASSUME TypeInv, NEW p \in Procs, Die(p), faults' \in Nat
    PROVE  TypeInv'
  <1>1. ready' \in [Queues -> SUBSET Ids]
    BY RequeueType DEF Die, TypeInv
  <1> QED
    BY <1>1
       DEF TypeInv, TypeOK, SetupInv, IdleBeforeLoop, BoundFirst,
           Die, Free, Task,
           DelayBindings, TaskEntry, Ids, brokerVars, procVars, chanVars, loopVars, historyVars

LEMMA TypeChannelBreak ==
    ASSUME TypeInv, NEW c \in Consumers, ChannelBreak(c)
    PROVE  TypeInv'
  <1>1. ready' \in [Queues -> SUBSET Ids]
    BY RequeueType DEF ChannelBreak, TypeInv
  <1> QED
    BY <1>1
       DEF TypeInv, TypeOK, SetupInv, IdleBeforeLoop, BoundFirst,
           ChannelBreak, Fault, BreakChannels,
           DelayBindings, TaskEntry, Ids, brokerVars, procVars, chanVars, loopVars, historyVars

LEMMA TypeConnBreak ==
    ASSUME TypeInv, NEW p \in Procs, ConnBreak(p)
    PROVE  TypeInv'
  <1>1. ready' \in [Queues -> SUBSET Ids]
    BY RequeueType DEF ConnBreak, Open, TypeInv
  <1> QED
    BY <1>1
       DEF TypeInv, TypeOK, SetupInv, IdleBeforeLoop, BoundFirst,
           ConnBreak, Fault, BreakChannels, Open,
           DelayBindings, TaskEntry, Ids, brokerVars, procVars, chanVars, loopVars, historyVars

(* Every step of the adapter preserves the type invariant.                 *)
LEMMA TypeNext == TypeInv /\ [Next]_vars => TypeInv'
  <1> SUFFICES ASSUME TypeInv, [Next]_vars PROVE TypeInv'
    OBVIOUS
  <1>1. CASE UNCHANGED vars
    BY <1>1
       DEF TypeInv, TypeOK, SetupInv, IdleBeforeLoop, BoundFirst, DelayBindings, TaskEntry,
           Ids, vars, brokerVars, procVars, chanVars, loopVars, historyVars
  <1>2. CASE Next
    <2>1. ASSUME NEW c \in Consumers, SetupStep(c) \/ Deliver(c) \/ LoopStep(c)
          PROVE  TypeInv'
      BY <2>1, TypeConsume, TypeBind, TypeSetupEnd, TypeDeliver, TypeSelect, TypeSelectMsg,
         TypeToken DEF SetupStep, LoopStep
    <2>2. ASSUME NEW c \in Consumers, NEW k \in Slots, TaskStep(c, k)
          PROVE  TypeInv'
      BY <2>2, TypeHandle, TypeRetry, TypeAnswer DEF TaskStep
    <2>3. ASSUME NEW c \in Consumers,
                 \/ Stop(c) \/ StopReturn(c) \/ StopExpires(c)
                 \/ CancelCtx(c) \/ Panic(c) \/ Notice(c)
          PROVE  TypeInv'
      <3>1. ProcOf[c] \in Procs /\ (Panic(c) => Die(ProcOf[c]) /\ faults' \in Nat)
        BY ConstantsAssumption DEF Panic, TypeInv, TypeOK
      <3> QED
        BY <2>3, <3>1, TypeStop, TypeDie, TypeQuiet
    <2>4. ASSUME NEW p \in Procs, Close(p) \/ Restart(p) \/ ConnBreak(p) \/ Crash(p)
          PROVE  TypeInv'
      <3>1. Crash(p) => Die(p) /\ faults' \in Nat
        BY DEF Crash, Fault, TypeInv, TypeOK
      <3>2. Restart(p) => TypeInv'
        BY DEF Restart, TypeInv, TypeOK, SetupInv, IdleBeforeLoop, BoundFirst, DelayBindings,
               TaskEntry, Ids, brokerVars, chanVars, loopVars, historyVars
      <3> QED
        BY <2>4, <3>1, <3>2, TypeClose, TypeDie, TypeConnBreak
    <2> QED
      BY <1>2, <2>1, <2>2, <2>3, <2>4, TypePublish, TypePublishDelay, TypeDue,
         TypeChannelBreak, TypeBrokerRestart DEF Next, FailureStep
  <1> QED
    BY <1>1, <1>2

(* In every behaviour of the adapter retry counts stay within MaxRetries,  *)
(* the client and the broker only hold publishings the broker took, and a  *)
(* loop waits for a token exactly when it has a delivery in hand.          *)
THEOREM TypeCorrect == Spec => []TypeOK
  <1>1. TypeInv => TypeOK
    BY DEF TypeInv
  <1> QED
    BY <1>1, TypeInit, TypeNext, PTL DEF Spec

-----------------------------------------------------------------------------
(* No message is lost.                                                     *)

HasCopy(q, m, n) == \E i \in Ahead(q) : sent[i].msg = m /\ n <= sent[i].attempt

(* The group is through with message m or has attempt n or a later one of  *)
(* it before it.                                                           *)
Safe(q, m, n) == m \in settled[q] \cup lost[q] \/ HasCopy(q, m, n)

(* What a queue or one of its consumers holds was routed to the queue.     *)
Arrived ==
    /\ \A q \in Queues : \A i \in ready[q] : sent[i].msg \in Matches[q] \cap routed[q]
    /\ \A c \in Consumers : \A i \in Held(c) :
          sent[i].msg \in Matches[QueueOf[c]] \cap routed[QueueOf[c]]

(* What a consumer holds is safe, also when its channel is no longer open  *)
(* and the broker has given the delivery to somebody else.                 *)
HeldSafe ==
    \A c \in Consumers : \A i \in Held(c) :
        Safe(QueueOf[c], sent[i].msg, sent[i].attempt)

(* A delivery about to be acknowledged can go: the group is through with   *)
(* the message, or has a later attempt of it before it.                    *)
AckSafe ==
    \A c \in Consumers, k \in Slots : slot[c][k].pc = "ack" =>
        Safe(QueueOf[c], TaskEntry(c, k).msg, TaskEntry(c, k).attempt + 1)

(* A retry the broker holds back is ahead of the group that asked for it.  *)
RetryOwned ==
    \A i \in delayed : sent[i].attempt # 0 => \E q \in Queues : i \in DelayedFor(q)

LossInv == TypeInv /\ NoLoss /\ Arrived /\ HeldSafe /\ AckSafe /\ RetryOwned

(* Membership in the sets the broker and the consumers hold, in this state *)
(* and in the next.                                                        *)
HeldBy(i, c) ==
    \/ i \in buffer[c]
    \/ i = hand[c] /\ i # 0
    \/ \E k \in Slots : slot[c][k].pc # "free" /\ slot[c][k].id = i

LEMMA HeldMember ==
    ASSUME NEW c \in Consumers, NEW i
    PROVE  /\ i \in Held(c) <=> HeldBy(i, c)
           /\ i \in Held(c)' <=> HeldBy(i, c)'
  BY DEF Held, HeldBy

LEMMA UnackedMember ==
    ASSUME NEW q \in Queues, NEW i
    PROVE  /\ i \in QueueUnacked(q) <=>
                 \E c \in Consumers : QueueOf[c] = q /\ chan[c] = "open" /\ i \in Held(c)
           /\ i \in QueueUnacked(q)' <=>
                 \E c \in Consumers : QueueOf[c] = q /\ chan'[c] = "open" /\ i \in Held(c)'
  BY DEF QueueUnacked, Unacked

LEMMA AheadMember ==
    ASSUME NEW q \in Queues, NEW i
    PROVE  /\ i \in Ahead(q) <=>
                 \/ i \in ready[q] \/ i \in DelayedFor(q)
                 \/ \E c \in Consumers : QueueOf[c] = q /\ chan[c] = "open" /\ i \in Held(c)
           /\ i \in Ahead(q)' <=>
                 \/ i \in ready'[q] \/ i \in DelayedFor(q)'
                 \/ \E c \in Consumers : QueueOf[c] = q /\ chan'[c] = "open" /\ i \in Held(c)'
  BY UnackedMember DEF Ahead

LEMMA RequeueMember ==
    ASSUME NEW cs \in SUBSET Consumers, Requeue(cs), NEW q \in Queues, NEW i
    PROVE  i \in ready'[q] <=>
              \/ i \in ready[q]
              \/ \E c \in cs : QueueOf[c] = q /\ chan[c] = "open" /\ i \in Held(c)
  BY DEF Requeue, Unacked

LEMMA AheadType ==
    ASSUME TypeOK, NEW q \in Queues
    PROVE  Ahead(q) \subseteq Ids
  <1>1. ASSUME NEW i \in Ahead(q)
        PROVE  i \in Ids
    BY AheadMember, UnackedType DEF TypeOK, DelayedFor
  <1> QED
    BY <1>1

(* A step that only moves deliveries between the queue, the consumers of   *)
(* the queue and back: each stays ahead of its group.                      *)
Moves ==
    /\ UNCHANGED <<sent, bound, delayBound, delayed, routed, settled, lost>>
    /\ \A q \in Queues : Ahead(q)' = Ahead(q)
    /\ \A q \in Queues : ready'[q] \subseteq ready[q] \cup QueueUnacked(q)
    /\ \A c \in Consumers : Held(c)' \subseteq Held(c) \cup ready[QueueOf[c]]
    /\ \A c \in Consumers, k \in Slots :
          slot'[c][k].pc = "ack" => slot[c][k] = slot'[c][k]

(* The steps that move nothing.                                            *)
LEMMA StillMoves ==
    ASSUME UNCHANGED <<sent, bound, delayBound, ready, delayed, routed, settled, lost>>,
           \A c \in Consumers : Held(c)' = Held(c),
           \A c \in Consumers :
              \/ chan'[c] = chan[c]
              \/ chan[c] # "open" /\ chan'[c] # "open",
           \A c \in Consumers, k \in Slots :
              slot'[c][k].pc = "ack" => slot[c][k] = slot'[c][k]
    PROVE  Moves
  <1>1. ASSUME NEW q \in Queues
        PROVE  Ahead(q)' = Ahead(q)
    <2>1. DelayedFor(q)' = DelayedFor(q)
      BY DEF DelayedFor, DelayBindings
    <2>2. ASSUME NEW i
          PROVE  i \in Ahead(q)' <=> i \in Ahead(q)
      BY <2>1, AheadMember
    <2> QED
      BY <2>2
  <1> QED
    BY <1>1 DEF Moves

(* The broker takes the deliveries of closing channels back.               *)
LEMMA RequeueMoves ==
    ASSUME NEW cs \in SUBSET Consumers, Requeue(cs),
           UNCHANGED <<sent, bound, delayBound, delayed, routed, settled, lost>>,
           \A c \in Consumers : Held(c)' \subseteq Held(c),
           \A c \in cs : chan'[c] # "open",
           \A c \in Consumers \ cs : chan'[c] = chan[c] /\ Held(c)' = Held(c),
           \A c \in Consumers, k \in Slots :
              slot'[c][k].pc = "ack" => slot[c][k] = slot'[c][k]
    PROVE  Moves
  <1>1. ASSUME NEW q \in Queues
        PROVE  Ahead(q)' = Ahead(q)
    <2>1. DelayedFor(q)' = DelayedFor(q)
      BY DEF DelayedFor, DelayBindings
    <2>2. ASSUME NEW i
          PROVE  i \in Ahead(q)' <=> i \in Ahead(q)
      BY <2>1, AheadMember, RequeueMember
    <2> QED
      BY <2>2
  <1>2. ASSUME NEW q \in Queues, NEW i \in ready'[q]
        PROVE  i \in ready[q] \cup QueueUnacked(q)
    BY RequeueMember, UnackedMember
  <1> QED
    BY <1>1, <1>2 DEF Moves

(* The client drops what it held for a channel that is not open any more.  *)
LEMMA DropMoves ==
    ASSUME NEW c \in Consumers, UNCHANGED <<brokerVars, hand, slot, historyVars>>,
           chan[c] # "open", chan'[c] # "open",
           \A d \in Consumers \ {c} : chan'[d] = chan[d] /\ buffer'[d] = buffer[d],
           buffer'[c] = {}
    PROVE  Moves
  <1>1. ASSUME NEW d \in Consumers
        PROVE  /\ Held(d)' \subseteq Held(d)
               /\ d # c => Held(d)' = Held(d)
    BY DEF Held
  <1>2. ASSUME NEW q \in Queues
        PROVE  Ahead(q)' = Ahead(q)
    <2>1. DelayedFor(q)' = DelayedFor(q)
      BY DEF DelayedFor, DelayBindings, brokerVars, historyVars
    <2>2. ASSUME NEW i
          PROVE  i \in Ahead(q)' <=> i \in Ahead(q)
      BY <1>1, <2>1, AheadMember DEF brokerVars
    <2> QED
      BY <2>2
  <1> QED
    BY <1>1, <1>2 DEF Moves, brokerVars, historyVars

(* Steps of the loop, of cancelling, of a stop that waits and of a broken  *)
(* channel that is noticed.                                                *)
LEMMA LoopMoves ==
    ASSUME TypeInv, NEW c \in Consumers,
           \/ Subscribe(c) \/ ConsumeFails(c) \/ LoopStep(c) \/ CancelCtx(c) \/ Notice(c)
           \/ StopReturn(c) \/ StopExpires(c)
    PROVE  Moves
  <1>t. /\ \A d \in Consumers : hand[d] # 0 <=> cpc[d] = "token"
        /\ buffer \in [Consumers -> SUBSET Ids]
        /\ hand \in [Consumers -> {0} \cup Ids]
        /\ chan \in [Consumers -> {"none", "open", "broken", "closed"}]
        /\ slot \in [Consumers -> [Slots -> Task]]
        /\ 0 \notin Ids
    BY DEF TypeInv, TypeOK, Ids
  <1>1. CASE \/ Subscribe(c) \/ SelectDone(c) \/ SelectClosed(c) \/ LoopDone(c) \/ CancelCtx(c)
             \/ StopReturn(c) \/ StopExpires(c)
    <2>1. UNCHANGED <<brokerVars, chanVars, hand, slot, historyVars>>
      BY <1>1 DEF Subscribe, SelectDone, SelectClosed, LoopDone, CancelCtx, StopReturn,
                  StopExpires
    <2> QED
      BY <2>1, StillMoves DEF brokerVars, chanVars, historyVars, Held
  <1>2. CASE ConsumeFails(c)
    <2>1. UNCHANGED <<brokerVars, buffer, hand, slot, historyVars>>
      BY <1>2 DEF ConsumeFails
    <2>2. \A d \in Consumers :
             \/ chan'[d] = chan[d]
             \/ chan[d] # "open" /\ chan'[d] # "open"
      BY <1>t, <1>2 DEF ConsumeFails
    <2> QED
      BY <2>1, <2>2, StillMoves DEF brokerVars, historyVars, Held
  <1>3. CASE Notice(c)
    <2>1. UNCHANGED <<brokerVars, hand, slot, historyVars>>
      BY <1>3 DEF Notice, loopVars
    <2>2. /\ chan[c] # "open" /\ chan'[c] # "open"
          /\ \A d \in Consumers \ {c} : chan'[d] = chan[d] /\ buffer'[d] = buffer[d]
          /\ buffer'[c] = {}
      BY <1>t, <1>3 DEF Notice
    <2> QED
      BY <2>1, <2>2, DropMoves
  <1>4. CASE SelectMsg(c)
    <2>1. PICK i \in buffer[c] : /\ buffer' = [buffer EXCEPT ![c] = @ \ {i}]
                                 /\ hand' = [hand EXCEPT ![c] = i]
      BY <1>4 DEF SelectMsg
    <2>2. UNCHANGED <<brokerVars, chan, slot, historyVars>> /\ cpc[c] = "select"
      BY <1>4 DEF SelectMsg
    <2>3. i # 0 /\ hand[c] = 0
      BY <1>t, <2>2
    <2>4. ASSUME NEW d \in Consumers
          PROVE  Held(d)' = Held(d)
      <3>1. ASSUME NEW j
            PROVE  HeldBy(j, d)' <=> HeldBy(j, d)
        BY <1>t, <2>1, <2>2, <2>3 DEF HeldBy
      <3> QED
        BY <3>1, HeldMember
    <2> QED
      BY <2>2, <2>4, StillMoves DEF brokerVars, historyVars
  <1>5. ASSUME NEW k \in Slots, Token(c, k)
        PROVE  Moves
    <2>1. /\ UNCHANGED <<brokerVars, chanVars, historyVars>>
          /\ slot[c][k].pc = "free"
          /\ hand[c] # 0
      BY <1>t, <1>5 DEF Token
    <2>2. /\ slot'[c][k] = [pc |-> "exec", id |-> hand[c]]
          /\ \A d \in Consumers, l \in Slots :
                ~(d = c /\ l = k) => slot'[d][l] = slot[d][l]
          /\ hand'[c] = 0
          /\ \A d \in Consumers \ {c} : hand'[d] = hand[d]
      BY <1>t, <1>5 DEF Token
    <2>3. ASSUME NEW d \in Consumers
          PROVE  Held(d)' = Held(d)
      <3>1. ASSUME NEW j
            PROVE  HeldBy(j, d)' <=> HeldBy(j, d)
        <4>1. CASE d = c
          BY <2>1, <2>2, <4>1 DEF HeldBy, chanVars
        <4>2. CASE d # c
          BY <2>1, <2>2, <4>2 DEF HeldBy, chanVars
        <4> QED
          BY <4>1, <4>2
      <3> QED
        BY <3>1, HeldMember
    <2>4. \A d \in Consumers, l \in Slots :
             slot'[d][l].pc = "ack" => slot[d][l] = slot'[d][l]
      BY <2>2
    <2> QED
      BY <2>1, <2>3, <2>4, StillMoves DEF brokerVars, chanVars, historyVars
  <1> QED
    BY <1>1, <1>2, <1>3, <1>4, <1>5 DEF LoopStep

(* The broker delivers: from the queue to one of its consumers.            *)
LEMMA DeliverMoves ==
    ASSUME TypeInv, NEW c \in Consumers, Deliver(c)
    PROVE  Moves
  <1>1. PICK i \in ready[QueueOf[c]] :
           /\ ready' = [ready EXCEPT ![QueueOf[c]] = @ \ {i}]
           /\ buffer' = [buffer EXCEPT ![c] = @ \cup {i}]
    BY DEF Deliver
  <1>2. /\ UNCHANGED <<sent, bound, delayBound, delayed, chan, hand, slot, historyVars>>
        /\ chan[c] = "open"
    BY DEF Deliver, loopVars
  <1>3. /\ buffer \in [Consumers -> SUBSET Ids] /\ ready \in [Queues -> SUBSET Ids]
        /\ QueueOf[c] \in Queues
    BY ConstantsAssumption DEF TypeInv, TypeOK
  <1>4. ASSUME NEW d \in Consumers, NEW j
        PROVE  j \in Held(d)' <=> j \in Held(d) \/ (d = c /\ j = i)
    <2>1. HeldBy(j, d)' <=> HeldBy(j, d) \/ (d = c /\ j = i)
      BY <1>1, <1>2, <1>3 DEF HeldBy
    <2> QED
      BY <2>1, HeldMember
  <1>5. ASSUME NEW q \in Queues
        PROVE  Ahead(q)' = Ahead(q)
    <2>1. DelayedFor(q)' = DelayedFor(q)
      BY <1>2 DEF DelayedFor, DelayBindings, historyVars
    <2>2. \A j : j \in ready'[q] <=> j \in ready[q] /\ ~(q = QueueOf[c] /\ j = i)
      BY <1>1, <1>3
    <2>3. ASSUME NEW j
          PROVE  j \in Ahead(q)' <=> j \in Ahead(q)
      BY <1>1, <1>2, <1>4, <2>1, <2>2, AheadMember
    <2> QED
      BY <2>3
  <1>6. \A d \in Consumers : Held(d)' \subseteq Held(d) \cup ready[QueueOf[d]]
    BY <1>1, <1>4
  <1>7. \A q \in Queues : ready'[q] \subseteq ready[q] \cup QueueUnacked(q)
    BY <1>1, <1>3
  <1> QED
    BY <1>2, <1>5, <1>6, <1>7 DEF Moves, historyVars

(* A channel, a connection or a process ends.                              *)
LEMMA EndMoves ==
    ASSUME TypeInv,
           \/ \E c \in Consumers : Stop(c) \/ ChannelBreak(c)
           \/ \E p \in Procs : Close(p) \/ Die(p) \/ ConnBreak(p)
    PROVE  Moves
  <1>t. chan \in [Consumers -> {"none", "open", "broken", "closed"}]
    BY DEF TypeInv, TypeOK
  <1>1. ASSUME NEW c \in Consumers, Stop(c)
        PROVE  Moves
    <2>1. UNCHANGED <<sent, bound, delayBound, delayed, hand, slot, historyVars>>
      BY <1>1 DEF Stop
    <2>2. CASE chan[c] = "open"
      <3>1. CloseChannels({c})
        BY <1>1, <2>2 DEF Stop, StopChannel
      <3> QED
        BY <2>1, <3>1, RequeueMoves DEF CloseChannels, Held, historyVars
    <2>3. CASE chan[c] = "closed"
      <3>1. UNCHANGED <<ready, chanVars>>
        BY <1>1, <2>3 DEF Stop, StopChannel
      <3> QED
        BY <2>1, <3>1, StillMoves DEF chanVars, Held, historyVars
    <2>4. CASE chan[c] = "broken"
      <3>1. /\ ready' = ready
            /\ chan' = [chan EXCEPT ![c] = "closed"]
            /\ buffer' = [buffer EXCEPT ![c] = {}]
        BY <1>1, <2>4 DEF Stop, StopChannel
      <3>2. /\ chan'[c] = "closed" /\ buffer'[c] = {}
            /\ \A d \in Consumers \ {c} : chan'[d] = chan[d] /\ buffer'[d] = buffer[d]
        BY <3>1 DEF TypeInv, TypeOK
      <3> QED
        BY <2>1, <2>4, <3>1, <3>2, DropMoves DEF brokerVars
    <2> QED
      BY <1>1, <2>2, <2>3, <2>4 DEF Stop, StopChannel
  <1>2. ASSUME NEW p \in Procs, Close(p)
        PROVE  Moves
    <2>1. UNCHANGED <<sent, bound, delayBound, delayed, hand, slot, historyVars>>
      BY <1>2 DEF Close, loopVars
    <2>2. CloseChannels(Open(p)) /\ Open(p) \in SUBSET Consumers
      BY <1>2 DEF Close, Open
    <2> QED
      BY <2>1, <2>2, RequeueMoves DEF CloseChannels, Held, historyVars
  <1>3. ASSUME NEW p \in Procs, Die(p)
        PROVE  Moves
    <2> DEFINE mine == {d \in Consumers : ProcOf[d] = p}
    <2>1. /\ UNCHANGED <<sent, bound, delayBound, delayed, historyVars>>
          /\ Requeue(mine)
          /\ \A d \in mine : /\ chan'[d] = "none" /\ buffer'[d] = {} /\ hand'[d] = 0
                             /\ slot'[d] = [k \in Slots |-> Free]
          /\ \A d \in Consumers \ mine : /\ chan'[d] = chan[d] /\ buffer'[d] = buffer[d]
                                         /\ hand'[d] = hand[d] /\ slot'[d] = slot[d]
      BY <1>3 DEF Die
    <2> HIDE DEF mine
    <2>2. ASSUME NEW d \in mine
          PROVE  Held(d)' = {}
      BY <2>1 DEF Held, Free
    <2>3. ASSUME NEW d \in Consumers \ mine
          PROVE  Held(d)' = Held(d)
      BY <2>1 DEF Held
    <2>4. \A d \in Consumers, k \in Slots :
             slot'[d][k].pc = "ack" => slot[d][k] = slot'[d][k]
      BY <2>1 DEF Free
    <2>5. mine \in SUBSET Consumers
      BY DEF mine
    <2> QED
      BY <2>1, <2>2, <2>3, <2>4, <2>5, RequeueMoves DEF historyVars
  <1>4. ASSUME NEW c \in Consumers, ChannelBreak(c)
        PROVE  Moves
    <2>1. /\ UNCHANGED <<sent, bound, delayBound, delayed, buffer, hand, slot, historyVars>>
          /\ Requeue({c}) /\ BreakChannels({c})
      BY <1>4 DEF ChannelBreak, loopVars
    <2> QED
      BY <2>1, RequeueMoves DEF BreakChannels, Held, historyVars
  <1>5. ASSUME NEW p \in Procs, ConnBreak(p)
        PROVE  Moves
    <2>1. /\ UNCHANGED <<sent, bound, delayBound, delayed, buffer, hand, slot, historyVars>>
          /\ Requeue(Open(p)) /\ BreakChannels(Open(p)) /\ Open(p) \in SUBSET Consumers
      BY <1>5 DEF ConnBreak, loopVars, Open
    <2> QED
      BY <2>1, RequeueMoves DEF BreakChannels, Held, historyVars
  <1> QED
    BY <1>1, <1>2, <1>3, <1>4, <1>5

(* A step that brings attempts about: those of a message just published,   *)
(* and later ones of a message some group has had the attempt before of.   *)
Enqueues ==
    /\ \A i \in Ids : i \in Ids' /\ sent'[i] = sent[i]
    /\ UNCHANGED <<settled, lost>>
    /\ \A q \in Queues :
          /\ Ahead(q) \subseteq Ahead(q)'
          /\ \A i \in Ahead(q)' \ Ahead(q) :
                \/ sent'[i].attempt = 0
                \/ \E h \in Queues : Safe(h, sent'[i].msg, sent'[i].attempt - 1)
          /\ routed[q] \subseteq routed'[q]
          /\ \A m \in routed'[q] \ routed[q] : HasCopy(q, m, 0)'

(* A step that ends attempts, none without the message being settled or a  *)
(* later attempt being there.                                              *)
Completes ==
    /\ UNCHANGED <<sent, routed>>
    /\ \A q \in Queues :
          /\ settled[q] \subseteq settled'[q] /\ lost[q] \subseteq lost'[q]
          /\ \A m \in (settled'[q] \cup lost'[q]) \ (settled[q] \cup lost[q]) :
                Safe(q, m, 0)
          /\ Ahead(q)' \subseteq Ahead(q)
          /\ \A i \in Ahead(q) \ Ahead(q)' : Safe(q, sent[i].msg, sent[i].attempt + 1)'

(* What any step may do to the deliveries, the tasks and the delayed       *)
(* messages themselves.                                                    *)
Custody ==
    /\ DelayBindings \subseteq DelayBindings'
    /\ \A c \in Consumers : Held(c)' \subseteq Held(c) \cup ready[QueueOf[c]]
    /\ \A q \in Queues : \A i \in ready'[q] :
          \/ i \in ready[q] \cup QueueUnacked(q)
          \/ sent'[i].msg \in Matches[q] \cap routed'[q]
    /\ \A c \in Consumers, k \in Slots : slot'[c][k].pc = "ack" =>
          \/ slot'[c][k] = slot[c][k]
          \/ Safe(QueueOf[c], TaskEntry(c, k).msg, TaskEntry(c, k).attempt + 1)'
    /\ \A i \in delayed' :
          \/ i \in delayed
          \/ sent'[i].attempt = 0
          \/ \E q \in Queues : i \in DelayedFor(q)'

LEMMA MovesCompletes ==
    ASSUME Moves
    PROVE  Completes /\ Custody
  BY DEF Moves, Completes, Custody, DelayBindings

(* What follows from each of them for messages that were safe.             *)
LEMMA SafeWeaken ==
    ASSUME TypeOK, NEW q \in Queues, NEW m, NEW n \in Int, NEW l \in Int, l <= n
    PROVE  Safe(q, m, n) => Safe(q, m, l)
  <1>1. \A i \in Ahead(q) : sent[i].attempt \in Nat
    BY AheadType, EntryAt
  <1> QED
    BY <1>1 DEF Safe, HasCopy

LEMMA AheadNextType ==
    ASSUME TypeOK', NEW q \in Queues, NEW i \in Ahead(q)'
    PROVE  sent'[i] \in Entry
  <1>1. i \in Ids'
    <2>1. CASE i \in ready'[q] \/ i \in DelayedFor(q)'
      BY <2>1 DEF TypeOK, DelayedFor
    <2>2. ASSUME NEW c \in Consumers, i \in Held(c)'
          PROVE  i \in Ids'
      <3>1. HeldBy(i, c)'
        BY <2>2, HeldMember
      <3> QED
        BY <3>1 DEF HeldBy, TypeOK
    <2> QED
      BY <2>1, <2>2, AheadMember
  <1> QED
    BY <1>1 DEF TypeOK, Ids

LEMMA SafeWeakenNext ==
    ASSUME TypeOK', NEW q \in Queues, NEW m, NEW n \in Int, NEW l \in Int, l <= n
    PROVE  Safe(q, m, n)' => Safe(q, m, l)'
  <1>1. \A i \in Ahead(q)' : sent'[i].attempt \in Nat
    BY AheadNextType, ConstantsAssumption DEF Entry
  <1> QED
    BY <1>1 DEF Safe, HasCopy

LEMMA SafeKept ==
    ASSUME TypeOK, TypeOK', Enqueues \/ Completes,
           NEW q \in Queues, NEW m, NEW n \in Int, Safe(q, m, n)
    PROVE  Safe(q, m, n)'
  <1>1. CASE m \in settled[q] \cup lost[q]
    BY <1>1 DEF Enqueues, Completes, Safe
  <1>2. CASE HasCopy(q, m, n)
    <2>1. PICK i \in Ahead(q) : sent[i].msg = m /\ n <= sent[i].attempt
      BY <1>2 DEF HasCopy
    <2>2. i \in Ids /\ sent[i].attempt \in Nat
      BY AheadType, EntryAt
    <2>3. sent'[i] = sent[i]
      BY <2>2 DEF Enqueues, Completes
    <2>4. CASE i \in Ahead(q)'
      BY <2>1, <2>3, <2>4 DEF Safe, HasCopy
    <2>5. CASE i \notin Ahead(q)'
      <3>1. Safe(q, m, sent[i].attempt + 1)'
        BY <2>1, <2>3, <2>5 DEF Enqueues, Completes
      <3> QED
        BY <2>1, <2>2, <2>3, <3>1, SafeWeakenNext
    <2> QED
      BY <2>4, <2>5
  <1> QED
    BY <1>1, <1>2 DEF Safe

(* NoLoss in these terms.                                                  *)
LEMMA NoLossIsSafe ==
    /\ NoLoss <=> \A q \in Queues : \A m \in routed[q] :
                     m \in settled[q] \cup lost[q] \/ \E i \in Ahead(q) : sent[i].msg = m
    /\ NoLoss' <=> \A q \in Queues : \A m \in routed'[q] :
                     m \in settled'[q] \cup lost'[q] \/ \E i \in Ahead(q)' : sent'[i].msg = m
  BY DEF NoLoss, Outstanding

LEMMA RoutedSafe ==
    ASSUME LossInv, NEW q \in Queues, NEW m \in routed[q]
    PROVE  Safe(q, m, 0)
  <1>1. ASSUME NEW i \in Ahead(q)
        PROVE  0 <= sent[i].attempt
    BY AheadType, EntryAt DEF LossInv, TypeInv
  <1> QED
    BY <1>1, NoLossIsSafe DEF LossInv, Safe, HasCopy

(* Every step of one of the two kinds preserves the invariant.             *)
LEMMA LossKept ==
    ASSUME LossInv, TypeInv', Enqueues \/ Completes, Custody
    PROVE  LossInv'
  <1>t. TypeOK /\ TypeOK'
    BY DEF LossInv, TypeInv
  <1>k. /\ \A i \in Ids : i \in Ids' /\ sent'[i] = sent[i]
        /\ \A q \in Queues : routed[q] \subseteq routed'[q]
    BY <1>t DEF Enqueues, Completes, Ids
  <1>s. \A q \in Queues, i \in Ids : i \in Ahead(q) =>
           Safe(q, sent[i].msg, sent[i].attempt)
    <2> SUFFICES ASSUME NEW q \in Queues, NEW i \in Ids, i \in Ahead(q)
                 PROVE  Safe(q, sent[i].msg, sent[i].attempt)
      OBVIOUS
    <2>1. sent[i].attempt <= sent[i].attempt
      BY <1>t, EntryAt
    <2> QED
      BY <2>1 DEF Safe, HasCopy
  <1>q. \A c \in Consumers : QueueOf[c] \in Queues
    BY ConstantsAssumption
  <1>1. NoLoss'
    <2> SUFFICES ASSUME NEW q \in Queues, NEW m \in routed'[q]
                 PROVE  Safe(q, m, 0)'
      BY NoLossIsSafe DEF Safe, HasCopy
    <2>1. CASE m \in routed[q]
      BY <1>t, <2>1, RoutedSafe, SafeKept
    <2>2. CASE m \notin routed[q]
      BY <2>2 DEF Enqueues, Completes, Safe
    <2> QED
      BY <2>1, <2>2
  <1>2. Arrived'
    <2>1. ASSUME NEW q \in Queues, NEW i \in ready'[q]
          PROVE  sent'[i].msg \in Matches[q] \cap routed'[q]
      <3>1. CASE i \in ready[q]
        <4>1. i \in Ids /\ sent[i].msg \in Matches[q] \cap routed[q]
          BY <1>t, <3>1 DEF LossInv, Arrived, TypeOK
        <4> QED
          BY <1>k, <4>1
      <3>2. CASE i \in QueueUnacked(q)
        <4>1. PICK c \in Consumers : QueueOf[c] = q /\ i \in Held(c)
          BY <3>2, UnackedMember
        <4>2. i \in Ids /\ sent[i].msg \in Matches[q] \cap routed[q]
          BY <1>t, <4>1, UnackedType DEF LossInv, Arrived
        <4> QED
          BY <1>k, <4>2
      <3> QED
        BY <3>1, <3>2 DEF Custody
    <2>2. ASSUME NEW c \in Consumers, NEW i \in Held(c)'
          PROVE  sent'[i].msg \in Matches[QueueOf[c]] \cap routed'[QueueOf[c]]
      <3>1. i \in Held(c) \/ i \in ready[QueueOf[c]]
        BY DEF Custody
      <3>2. i \in Ids
        BY <1>t, <1>q, <3>1, UnackedType DEF TypeOK
      <3>3. sent[i].msg \in Matches[QueueOf[c]] \cap routed[QueueOf[c]]
        BY <1>q, <3>1 DEF LossInv, Arrived
      <3> QED
        BY <1>k, <1>q, <3>2, <3>3
    <2> QED
      BY <2>1, <2>2 DEF Arrived
  <1>3. HeldSafe'
    <2> SUFFICES ASSUME NEW c \in Consumers, NEW i \in Held(c)',
                        NEW m, m = sent'[i].msg, NEW n, n = sent'[i].attempt
                 PROVE  Safe(QueueOf[c], m, n)'
      BY DEF HeldSafe
    <2>1. i \in Held(c) \/ i \in ready[QueueOf[c]]
      BY DEF Custody
    <2>2. i \in Ids
      BY <1>t, <1>q, <2>1, UnackedType DEF TypeOK
    <2>3. Safe(QueueOf[c], sent[i].msg, sent[i].attempt)
      BY <1>q, <1>s, <2>1, <2>2, AheadMember DEF LossInv, HeldSafe
    <2>4. m = sent[i].msg /\ n = sent[i].attempt /\ n \in Int
      BY <1>t, <1>k, <2>2, EntryAt
    <2> QED
      BY <1>t, <1>q, <2>3, <2>4, SafeKept
  <1>4. AckSafe'
    <2> SUFFICES ASSUME NEW c \in Consumers, NEW k \in Slots, slot'[c][k].pc = "ack"
                 PROVE  Safe(QueueOf[c], TaskEntry(c, k).msg, TaskEntry(c, k).attempt + 1)'
      BY DEF AckSafe
    <2>1. CASE slot'[c][k] = slot[c][k]
      <3>1. slot[c][k].pc = "ack" /\ slot[c][k].id \in Ids
        BY <1>t, <2>1 DEF TypeOK
      <3>2. TaskEntry(c, k)' = TaskEntry(c, k)
        BY <1>k, <2>1, <3>1 DEF TaskEntry
      <3>3. TaskEntry(c, k).attempt + 1 \in Int
        BY <1>t, <3>1, EntryAt DEF TaskEntry
      <3>4. Safe(QueueOf[c], TaskEntry(c, k).msg, TaskEntry(c, k).attempt + 1)
        BY <3>1 DEF LossInv, AckSafe
      <3> QED
        BY <1>t, <1>q, <3>2, <3>3, <3>4, SafeKept
    <2>2. CASE slot'[c][k] # slot[c][k]
      BY <2>2 DEF Custody
    <2> QED
      BY <2>1, <2>2
  <1>5. RetryOwned'
    <2> SUFFICES ASSUME NEW i \in delayed', sent'[i].attempt # 0
                 PROVE  \E q \in Queues : i \in DelayedFor(q)'
      BY DEF RetryOwned
    <2>1. CASE i \in delayed
      <3>1. i \in Ids
        BY <1>t, <2>1 DEF TypeOK
      <3>2. PICK q \in Queues : i \in DelayedFor(q)
        BY <1>k, <2>1, <3>1 DEF LossInv, RetryOwned
      <3> QED
        BY <1>k, <3>1, <3>2 DEF DelayedFor, Custody
    <2>2. CASE i \notin delayed
      BY <2>2 DEF Custody
    <2> QED
      BY <2>1, <2>2
  <1> QED
    BY <1>1, <1>2, <1>3, <1>4, <1>5 DEF LossInv


(* A retry the broker holds back is a later attempt of a message that some *)
(* group has the attempt before of.                                        *)
LEMMA DelayedSafe ==
    ASSUME LossInv, NEW i \in delayed, sent[i].attempt # 0
    PROVE  \E h \in Queues : Safe(h, sent[i].msg, sent[i].attempt - 1)
  <1>1. PICK q \in Queues : i \in DelayedFor(q)
    BY DEF LossInv, RetryOwned
  <1>2. i \in Ahead(q)
    BY <1>1, AheadMember
  <1>3. sent[i].attempt \in Nat
    BY <1>2, AheadType, EntryAt DEF LossInv, TypeInv
  <1>4. sent[i].attempt - 1 <= sent[i].attempt
    BY <1>3
  <1> QED
    BY <1>2, <1>4 DEF Safe, HasCopy

(* Steps that bring attempts about: what they must show of the new ones.   *)
LEMMA GrowEnqueues ==
    ASSUME LossInv, TypeOK',
           \A i \in Ids : i \in Ids' /\ sent'[i] = sent[i],
           UNCHANGED <<settled, lost>>,
           DelayBindings \subseteq DelayBindings',
           \A c \in Consumers :
              Held(c)' = Held(c) /\ (chan'[c] = chan[c] \/ Held(c) = {}),
           \A c \in Consumers, k \in Slots : slot'[c][k].pc = "ack" =>
              \/ slot'[c][k] = slot[c][k]
              \/ Safe(QueueOf[c], TaskEntry(c, k).msg, TaskEntry(c, k).attempt + 1)',
           \A q \in Queues : ready[q] \subseteq ready'[q] /\ routed[q] \subseteq routed'[q],
           \A q \in Queues : \A i \in ready'[q] \ ready[q] :
              /\ sent'[i].msg \in Matches[q] \cap routed'[q]
              /\ sent'[i].attempt = 0 \/ i \in delayed,
           \A q \in Queues : \A m \in routed'[q] \ routed[q] :
              \E i \in ready'[q] : sent'[i].msg = m,
           \A q \in Queues : \A i \in DelayedFor(q) : i \in delayed' \/ i \in ready'[q],
           \A i \in delayed' \ delayed :
              \/ sent'[i].attempt = 0
              \/ /\ \E q \in Queues : i \in DelayedFor(q)'
                 /\ \E h \in Queues : Safe(h, sent'[i].msg, sent'[i].attempt - 1)
    PROVE  Enqueues /\ Custody
  <1>t. TypeOK /\ delayed \subseteq Ids
    BY DEF LossInv, TypeInv, TypeOK
  <1>1. ASSUME NEW q \in Queues
        PROVE  Ahead(q) \subseteq Ahead(q)'
    <2>1. ASSUME NEW i \in DelayedFor(q), i \in delayed'
          PROVE  i \in DelayedFor(q)'
      BY <1>t, <2>1 DEF DelayedFor
    <2> QED
      BY <2>1, AheadMember
  <1>2. ASSUME NEW q \in Queues, NEW i \in Ahead(q)' \ Ahead(q)
        PROVE  \/ sent'[i].attempt = 0
               \/ \E h \in Queues : Safe(h, sent'[i].msg, sent'[i].attempt - 1)
    <2>1. i \in ready'[q] \ ready[q] \/ i \in DelayedFor(q)'
      BY AheadMember
    <2>2. CASE i \in delayed
      <3>1. sent'[i] = sent[i]
        BY <1>t, <2>2
      <3> QED
        BY <2>2, <3>1, DelayedSafe
    <2>3. CASE i \notin delayed
      BY <2>1, <2>3 DEF DelayedFor
    <2> QED
      BY <2>2, <2>3
  <1>3. ASSUME NEW q \in Queues, NEW m \in routed'[q] \ routed[q]
        PROVE  HasCopy(q, m, 0)'
    <2>1. PICK i \in ready'[q] : sent'[i].msg = m
      OBVIOUS
    <2>2. sent'[i] \in Entry
      BY <2>1 DEF TypeOK, Ids
    <2>3. 0 <= sent'[i].attempt
      BY <2>2, ConstantsAssumption DEF Entry
    <2>4. i \in Ahead(q)'
      BY <2>1, AheadMember
    <2> QED
      BY <2>1, <2>3, <2>4 DEF HasCopy
  <1>4. Enqueues
    BY <1>1, <1>2, <1>3 DEF Enqueues
  <1>5. Custody
    BY DEF Custody
  <1> QED
    BY <1>4, <1>5

(* Publishing: the new ID, whether routed or held back, is a first attempt.*)
LEMMA PublishEffect ==
    ASSUME LossInv, TypeInv', NEW p \in Procs, NEW m \in Msgs, Publish(p, m)
    PROVE  (Enqueues \/ Completes) /\ Custody
  <1> DEFINE e == [msg |-> m, attempt |-> 0]
  <1>t. TypeOK /\ TypeOK' /\ sent \in Seq(Entry) /\ delayed \subseteq Ids
        /\ ready \in [Queues -> SUBSET Ids]
    BY DEF LossInv, TypeInv, TypeOK
  <1>1. e \in Entry
    BY ConstantsAssumption DEF Entry
  <1>2. PICK res \in Results :
           IF res = "taken" THEN Take(e) /\ Route(Len(sent) + 1, m, bound)
                            ELSE UNCHANGED <<sent, ready, routed>>
    BY DEF Publish
  <1>3. UNCHANGED <<bound, delayBound, delayed, chan, buffer, hand, slot, settled, lost>>
    BY DEF Publish, chanVars, loopVars
  <1>4. CASE res = "taken"
    <2> DEFINE N == Len(sent) + 1
    <2>1. /\ \A i \in Ids : i \in Ids' /\ sent'[i] = sent[i]
          /\ sent'[N].msg = m /\ sent'[N].attempt = 0
      BY <1>t, <1>1, <1>2, <1>4, TakeGrows
    <2>2. \A q \in Queues :
             \/ /\ q \in bound /\ m \in Matches[q]
                /\ ready'[q] = ready[q] \cup {N} /\ routed'[q] = routed[q] \cup {m}
             \/ ready'[q] = ready[q] /\ routed'[q] = routed[q]
      BY <1>2, <1>4 DEF Route, Receivers
    <2>3. /\ DelayBindings' = DelayBindings
          /\ \A c \in Consumers : Held(c)' = Held(c)
      BY <1>3 DEF DelayBindings, Held
    <2>4. \A q \in Queues : DelayedFor(q) \subseteq delayed'
      BY <1>3 DEF DelayedFor
    <2> HIDE DEF N
    <2>5. \A q \in Queues : ready[q] \subseteq ready'[q] /\ routed[q] \subseteq routed'[q]
      BY <2>2
    <2>6. \A q \in Queues : \A i \in ready'[q] \ ready[q] :
             /\ sent'[i].msg \in Matches[q] \cap routed'[q]
             /\ sent'[i].attempt = 0 \/ i \in delayed
      BY <2>1, <2>2
    <2>7. \A q \in Queues : \A n \in routed'[q] \ routed[q] :
             \E i \in ready'[q] : sent'[i].msg = n
      BY <2>1, <2>2
    <2> QED
      BY <1>t, <1>3, <2>1, <2>3, <2>4, <2>5, <2>6, <2>7, GrowEnqueues
  <1>5. CASE res # "taken"
    <2>1. UNCHANGED <<sent, ready, routed>>
      BY <1>2, <1>5
    <2> QED
      BY <1>3, <2>1, StillMoves, MovesCompletes DEF Held
  <1> QED
    BY <1>4, <1>5

LEMMA PublishDelayEffect ==
    ASSUME LossInv, TypeInv', NEW p \in Procs, NEW m \in Msgs, PublishDelay(p, m)
    PROVE  (Enqueues \/ Completes) /\ Custody
  <1> DEFINE e == [msg |-> m, attempt |-> 0]
  <1>t. TypeOK /\ TypeOK' /\ sent \in Seq(Entry)
    BY DEF LossInv, TypeInv, TypeOK
  <1>1. e \in Entry
    BY ConstantsAssumption DEF Entry
  <1>2. PICK res \in Results :
           IF res = "taken" THEN Take(e) /\ delayed' = delayed \cup {Len(sent) + 1}
                            ELSE UNCHANGED <<sent, delayed>>
    BY DEF PublishDelay, SendDelayed
  <1>3. UNCHANGED <<bound, delayBound, ready, chan, buffer, hand, slot, routed, settled,
                    lost>>
    BY DEF PublishDelay, chanVars, loopVars
  <1>4. CASE res = "taken"
    <2>1. /\ \A i \in Ids : i \in Ids' /\ sent'[i] = sent[i]
          /\ sent'[Len(sent) + 1].attempt = 0
          /\ delayed' = delayed \cup {Len(sent) + 1}
      BY <1>t, <1>1, <1>2, <1>4, TakeGrows
    <2>2. /\ DelayBindings' = DelayBindings
          /\ \A c \in Consumers : Held(c)' = Held(c)
      BY <1>3 DEF DelayBindings, Held
    <2>3. \A q \in Queues : DelayedFor(q) \subseteq delayed'
      BY <2>1 DEF DelayedFor
    <2>4. \A i \in delayed' \ delayed : sent'[i].attempt = 0
      BY <2>1
    <2> QED
      BY <1>t, <1>3, <2>1, <2>2, <2>3, <2>4, GrowEnqueues
  <1>5. CASE res # "taken"
    <2>1. UNCHANGED <<sent, delayed>>
      BY <1>2, <1>5
    <2> QED
      BY <1>3, <2>1, StillMoves, MovesCompletes DEF Held
  <1> QED
    BY <1>4, <1>5

(* A delay passes: every queue that had the attempt before it gets it.     *)
LEMMA DueEffect ==
    ASSUME LossInv, TypeInv', NEW i \in delayed, Due(i)
    PROVE  Enqueues /\ Custody
  <1> DEFINE m == sent[i].msg
  <1>t. TypeOK'
    BY DEF TypeInv
  <1>1. /\ UNCHANGED <<sent, bound, delayBound, chan, buffer, hand, slot, settled, lost>>
        /\ delayed' = delayed \ {i}
    BY DEF Due, chanVars, loopVars
  <1>2. \A q \in Queues :
           \/ /\ q \in DelayBindings /\ m \in Matches[q]
              /\ ready'[q] = ready[q] \cup {i} /\ routed'[q] = routed[q] \cup {m}
           \/ /\ ~(q \in DelayBindings /\ m \in Matches[q])
              /\ ready'[q] = ready[q] /\ routed'[q] = routed[q]
    BY DEF Due, Route, Receivers
  <1>3. /\ DelayBindings' = DelayBindings
        /\ \A c \in Consumers : Held(c)' = Held(c)
        /\ Ids' = Ids
    BY <1>1 DEF DelayBindings, Held, Ids
  <1>4. ASSUME NEW q \in Queues, NEW j \in DelayedFor(q)
        PROVE  j \in delayed' \/ j \in ready'[q]
    BY <1>1, <1>2 DEF DelayedFor
  <1>5. \A q \in Queues : ready[q] \subseteq ready'[q] /\ routed[q] \subseteq routed'[q]
    BY <1>2
  <1>6. \A q \in Queues : \A j \in ready'[q] \ ready[q] :
           /\ sent'[j].msg \in Matches[q] \cap routed'[q]
           /\ sent'[j].attempt = 0 \/ j \in delayed
    BY <1>1, <1>2
  <1>7. \A q \in Queues : \A n \in routed'[q] \ routed[q] :
           \E j \in ready'[q] : sent'[j].msg = n
    BY <1>1, <1>2
  <1> QED
    BY <1>t, <1>1, <1>3, <1>4, <1>5, <1>6, <1>7, GrowEnqueues

(* A new binding to the delayed exchange may bring held back attempts      *)
(* ahead of its queue; a new channel holds nothing yet.                    *)
LEMMA SetupEffect ==
    ASSUME LossInv, TypeInv', NEW c \in Consumers, Consume(c) \/ Bind(c)
    PROVE  Enqueues /\ Custody
  <1>t. TypeOK' /\ TypeOK /\ hand \in [Consumers -> {0} \cup Ids]
        /\ chan \in [Consumers -> {"none", "open", "broken", "closed"}]
    BY DEF LossInv, TypeInv, TypeOK
  <1>1. UNCHANGED <<sent, ready, delayed, buffer, hand, slot, routed, settled, lost>>
    BY DEF Consume, Bind, chanVars, historyVars
  <1>2. DelayBindings \subseteq DelayBindings'
    BY DEF Consume, Bind, BindDelayed, DelayBindings
  <1>3. \A d \in Consumers : chan'[d] = chan[d] \/ Held(d) = {}
    <2>1. CASE cpc[c] = "off"
      <3>1. Held(c) = {}
        BY <1>t, <2>1 DEF LossInv, TypeInv, TypeOK, SetupInv, IdleBeforeLoop, Held
      <3>2. \A d \in Consumers : d # c => chan'[d] = chan[d]
        BY <1>t DEF Consume, Bind, chanVars
      <3> QED
        BY <3>1, <3>2
    <2>2. CASE cpc[c] # "off"
      BY <2>2 DEF Consume, Bind, chanVars
    <2> QED
      BY <2>1, <2>2
  <1>4. /\ \A d \in Consumers : Held(d)' = Held(d)
        /\ Ids' = Ids
        /\ \A q \in Queues : DelayedFor(q) \subseteq delayed'
    BY <1>1 DEF Held, Ids, DelayedFor
  <1> QED
    BY <1>t, <1>1, <1>2, <1>3, <1>4, GrowEnqueues

(* A handler's task: what it works on is held by its consumer.             *)
LEMMA TaskHeld ==
    ASSUME LossInv, NEW c \in Consumers, NEW k \in Slots, slot[c][k].pc # "free"
    PROVE  /\ slot[c][k].id \in Held(c) /\ slot[c][k].id \in Ids
           /\ TaskEntry(c, k).msg \in Matches[QueueOf[c]] \cap routed[QueueOf[c]]
           /\ Safe(QueueOf[c], TaskEntry(c, k).msg, TaskEntry(c, k).attempt)
           /\ QueueOf[c] \in Queues /\ QueueOf[c] \in DelayBindings
           /\ TaskEntry(c, k) \in Entry
           /\ TaskEntry(c, k).msg \in Msgs /\ TaskEntry(c, k).attempt \in Nat
  <1>1. slot[c][k].id \in Held(c)
    BY HeldMember DEF HeldBy
  <1>2. slot[c][k].id \in Ids
    BY DEF LossInv, TypeInv, TypeOK
  <1>3. QueueOf[c] \in Queues
    BY ConstantsAssumption
  <1>4. QueueOf[c] \in DelayBindings
    BY DEF LossInv, TypeInv, SetupInv, IdleBeforeLoop, BoundFirst
  <1>5. TaskEntry(c, k) \in Entry
    BY TaskEntryType DEF LossInv, TypeInv
  <1>6. TaskEntry(c, k).msg \in Msgs /\ TaskEntry(c, k).attempt \in Nat
    BY <1>5, ConstantsAssumption DEF Entry
  <1>7. TaskEntry(c, k).msg \in Matches[QueueOf[c]] \cap routed[QueueOf[c]]
    BY <1>1 DEF LossInv, Arrived, TaskEntry
  <1>8. Safe(QueueOf[c], TaskEntry(c, k).msg, TaskEntry(c, k).attempt)
    BY <1>1 DEF LossInv, HeldSafe, TaskEntry
  <1> QED
    BY <1>1, <1>2, <1>3, <1>4, <1>5, <1>6, <1>7, <1>8


(* The handler ends: for good, and the message is settled, or to be        *)
(* retried.                                                                *)
LEMMA HandleEffect ==
    ASSUME LossInv, TypeInv', NEW c \in Consumers, NEW k \in Slots, Handle(c, k)
    PROVE  Completes /\ Custody
  <1> DEFINE h == QueueOf[c]
             m == TaskEntry(c, k).msg
  <1>t. /\ slot \in [Consumers -> [Slots -> Task]]
        /\ settled \in [Queues -> SUBSET Msgs]
        /\ slot[c][k].pc = "exec"
    BY DEF Handle, LossInv, TypeInv, TypeOK
  <1>1. UNCHANGED <<sent, bound, delayBound, ready, delayed, chan, buffer, hand, routed,
                    lost>>
    BY DEF Handle, brokerVars, chanVars, loopVars
  <1>2. h \in Queues /\ m \in routed[h]
    BY <1>t, TaskHeld
  <1>3. PICK pc \in {"ack", "retry"} :
           /\ SetTask(c, k, pc)
           /\ settled' = IF pc = "ack" THEN [settled EXCEPT ![h] = @ \cup {m}] ELSE settled
    BY DEF Handle
  <1>4. /\ slot'[c][k].pc = pc /\ slot'[c][k].id = slot[c][k].id
        /\ \A d \in Consumers, l \in Slots :
              ~(d = c /\ l = k) => slot'[d][l] = slot[d][l]
    BY <1>t, <1>3, SetTaskSlot
  <1>5. ASSUME NEW d \in Consumers
        PROVE  Held(d)' = Held(d)
    <2>1. ASSUME NEW j
          PROVE  HeldBy(j, d)' <=> HeldBy(j, d)
      BY <1>t, <1>1, <1>4 DEF HeldBy
    <2> QED
      BY <2>1, HeldMember
  <1>6. CASE pc = "retry"
    <2>1. \A d \in Consumers, l \in Slots :
             slot'[d][l].pc = "ack" => slot[d][l] = slot'[d][l]
      BY <1>4, <1>6
    <2>2. UNCHANGED settled
      BY <1>3, <1>6
    <2> QED
      BY <1>1, <1>5, <2>1, <2>2, StillMoves, MovesCompletes
  <1>7. CASE pc = "ack"
    <2>1. \A q \in Queues : settled'[q] = IF q = h THEN settled[q] \cup {m} ELSE settled[q]
      BY <1>t, <1>2, <1>3, <1>7
    <2>2. ASSUME NEW q \in Queues
          PROVE  Ahead(q)' = Ahead(q)
      <3>1. DelayedFor(q)' = DelayedFor(q)
        BY <1>1 DEF DelayedFor, DelayBindings
      <3>2. ASSUME NEW i
            PROVE  i \in Ahead(q)' <=> i \in Ahead(q)
        BY <1>1, <1>5, <3>1, AheadMember
      <3> QED
        BY <3>2
    <2>3. ASSUME NEW q \in Queues, NEW n \in (settled'[q] \cup lost'[q]) \ (settled[q] \cup lost[q])
          PROVE  Safe(q, n, 0)
      BY <1>1, <1>2, <2>1, RoutedSafe
    <2>4. Completes
      BY <1>1, <2>1, <2>2, <2>3 DEF Completes
    <2>5. ASSUME NEW d \in Consumers, NEW l \in Slots, slot'[d][l].pc = "ack",
                 slot'[d][l] # slot[d][l]
          PROVE  Safe(QueueOf[d], TaskEntry(d, l).msg, TaskEntry(d, l).attempt + 1)'
      <3>1. d = c /\ l = k
        BY <1>4, <2>5
      <3>2. TaskEntry(c, k)' = TaskEntry(c, k)
        BY <1>1, <1>4 DEF TaskEntry
      <3>3. TaskEntry(c, k)'.msg \in settled'[h]
        BY <1>2, <2>1, <3>2
      <3> QED
        BY <3>1, <3>3 DEF Safe
    <2>6. Custody
      BY <1>1, <1>5, <2>5 DEF Custody, DelayBindings
    <2> QED
      BY <2>4, <2>6
  <1> QED
    BY <1>6, <1>7

(* The retry is published: taken by the broker, it is ahead of the group   *)
(* because the queue of a running consumer is bound to the exchange; else  *)
(* it is lost, or the delivery is rejected.                                *)
LEMMA RetryEffect ==
    ASSUME LossInv, TypeInv', NEW c \in Consumers, NEW k \in Slots, Retry(c, k)
    PROVE  (Enqueues \/ Completes) /\ Custody
  <1> DEFINE h == QueueOf[c]
             m == TaskEntry(c, k).msg
             n == TaskEntry(c, k).attempt
             e == [TaskEntry(c, k) EXCEPT !.attempt = @ + 1]
  <1>t. /\ slot \in [Consumers -> [Slots -> Task]]
        /\ lost \in [Queues -> SUBSET Msgs]
        /\ slot[c][k].pc = "retry"
        /\ RetryAllowed(TaskEntry(c, k))
        /\ sent \in Seq(Entry) /\ delayed \subseteq Ids
        /\ TypeOK'
    BY DEF Retry, LossInv, TypeInv, TypeOK
  <1>1. UNCHANGED <<bound, delayBound, ready, chan, buffer, hand, routed, settled>>
    BY DEF Retry, chanVars, loopVars
  <1>2. /\ h \in Queues /\ h \in DelayBindings /\ m \in Matches[h] \cap routed[h]
        /\ Safe(h, m, n) /\ n \in Nat /\ TaskEntry(c, k) \in Entry
        /\ slot[c][k].id \in Ids
    BY <1>t, TaskHeld
  <1>3. e \in Entry /\ e.msg = m /\ e.attempt = n + 1
    BY <1>t, <1>2, RetryCopy
  <1>4. PICK res \in Results :
           /\ IF res = "taken" THEN Take(e) /\ delayed' = delayed \cup {Len(sent) + 1}
                               ELSE UNCHANGED <<sent, delayed>>
           /\ lost' = IF res = "refused" THEN [lost EXCEPT ![h] = @ \cup {m}] ELSE lost
           /\ SetTask(c, k, AfterRetry(res))
    BY DEF Retry, SendDelayed
  <1>5. /\ slot'[c][k].pc = AfterRetry(res) /\ slot'[c][k].id = slot[c][k].id
        /\ \A d \in Consumers, l \in Slots :
              ~(d = c /\ l = k) => slot'[d][l] = slot[d][l]
        /\ AfterRetry(res) \in {"ack", "nack"}
    <2>1. AfterRetry(res) \in {"exec", "retry", "ack", "nack"} /\ AfterRetry(res) \in {"ack", "nack"}
      BY DEF AfterRetry
    <2> QED
      BY <1>t, <1>4, <2>1, SetTaskSlot
  <1>6. ASSUME NEW d \in Consumers
        PROVE  Held(d)' = Held(d)
    <2>1. ASSUME NEW j
          PROVE  HeldBy(j, d)' <=> HeldBy(j, d)
      BY <1>t, <1>1, <1>5 DEF HeldBy
    <2> QED
      BY <2>1, HeldMember
  <1> HIDE DEF e
  <1>7. DelayBindings' = DelayBindings
    BY <1>1 DEF DelayBindings
  <1>8. CASE res = "taken"
    <2> DEFINE N == Len(sent) + 1
    <2>1. /\ \A i \in Ids : i \in Ids' /\ sent'[i] = sent[i]
          /\ sent'[N].msg = m /\ sent'[N].attempt = n + 1
          /\ delayed' = delayed \cup {N}
          /\ UNCHANGED lost
      BY <1>t, <1>3, <1>4, <1>8, TakeGrows
    <2> HIDE DEF N
    <2>2. N \in DelayedFor(h)'
      BY <1>1, <1>2, <1>7, <2>1 DEF DelayedFor
    <2>3. N \in Ahead(h)'
      BY <1>2, <2>2, AheadMember
    <2>4. TaskEntry(c, k)' = TaskEntry(c, k)
      BY <1>2, <1>5, <2>1 DEF TaskEntry
    <2>5. Safe(h, m, n + 1)'
      <3>1. n + 1 <= sent'[N].attempt
        BY <1>2, <2>1
      <3> QED
        BY <2>1, <2>3, <2>4, <3>1 DEF Safe, HasCopy
    <2>6. ASSUME NEW d \in Consumers, NEW l \in Slots, slot'[d][l].pc = "ack",
                 slot'[d][l] # slot[d][l]
          PROVE  Safe(QueueOf[d], TaskEntry(d, l).msg, TaskEntry(d, l).attempt + 1)'
      <3>1. d = c /\ l = k
        BY <1>5, <2>6
      <3> QED
        BY <2>5, <3>1
    <2>7. \A q \in Queues : DelayedFor(q) \subseteq delayed'
      BY <2>1 DEF DelayedFor
    <2>8. \A i \in delayed' \ delayed :
             /\ \E q \in Queues : i \in DelayedFor(q)'
             /\ \E g \in Queues : Safe(g, sent'[i].msg, sent'[i].attempt - 1)
      <3>1. n + 1 - 1 = n
        BY <1>2
      <3>2. Safe(h, sent'[N].msg, sent'[N].attempt - 1)
        BY <1>2, <2>1, <3>1
      <3> QED
        BY <1>2, <2>1, <2>2, <3>2
    <2> QED
      BY <1>t, <1>1, <1>6, <1>7, <2>1, <2>6, <2>7, <2>8, GrowEnqueues
  <1>9. CASE res = "error"
    <2>1. \A d \in Consumers, l \in Slots :
             slot'[d][l].pc = "ack" => slot[d][l] = slot'[d][l]
      BY <1>5, <1>9 DEF AfterRetry
    <2> QED
      BY <1>1, <1>4, <1>6, <1>9, <2>1, StillMoves, MovesCompletes
  <1>10. CASE res = "refused"
    <2>1. \A q \in Queues : lost'[q] = IF q = h THEN lost[q] \cup {m} ELSE lost[q]
      BY <1>t, <1>2, <1>4, <1>10
    <2>2. UNCHANGED <<sent, delayed>>
      BY <1>4, <1>10
    <2>3. ASSUME NEW q \in Queues
          PROVE  Ahead(q)' = Ahead(q)
      <3>1. DelayedFor(q)' = DelayedFor(q)
        BY <1>1, <2>2 DEF DelayedFor, DelayBindings
      <3>2. ASSUME NEW i
            PROVE  i \in Ahead(q)' <=> i \in Ahead(q)
        BY <1>1, <1>6, <3>1, AheadMember
      <3> QED
        BY <3>2
    <2>4. ASSUME NEW q \in Queues, NEW l \in (settled'[q] \cup lost'[q]) \ (settled[q] \cup lost[q])
          PROVE  Safe(q, l, 0)
      BY <1>1, <1>2, <2>1, RoutedSafe
    <2>5. Completes
      BY <1>1, <2>1, <2>2, <2>3, <2>4 DEF Completes
    <2>6. ASSUME NEW d \in Consumers, NEW l \in Slots, slot'[d][l].pc = "ack",
                 slot'[d][l] # slot[d][l]
          PROVE  Safe(QueueOf[d], TaskEntry(d, l).msg, TaskEntry(d, l).attempt + 1)'
      <3>1. d = c /\ l = k
        BY <1>5, <2>6
      <3>2. TaskEntry(c, k)' = TaskEntry(c, k)
        BY <1>5, <2>2 DEF TaskEntry
      <3>3. TaskEntry(c, k)'.msg \in lost'[h]
        BY <1>2, <2>1, <3>2
      <3> QED
        BY <3>1, <3>3 DEF Safe
    <2>7. Custody
      BY <1>1, <1>6, <1>7, <2>2, <2>6 DEF Custody
    <2> QED
      BY <2>5, <2>7
  <1> QED
    BY <1>8, <1>9, <1>10 DEF Results

(* An acknowledgement takes the delivery away from the group, which has a  *)
(* later attempt before it, or is through with the message; a rejection    *)
(* puts it back; on a channel that is not open neither changes anything.   *)
LEMMA AnswerEffect ==
    ASSUME LossInv, TypeInv', NEW c \in Consumers, NEW k \in Slots, Answer(c, k)
    PROVE  Completes /\ Custody
  <1> DEFINE h == QueueOf[c]
             i == slot[c][k].id
  <1>t. /\ slot \in [Consumers -> [Slots -> Task]]
        /\ ready \in [Queues -> SUBSET Ids]
        /\ slot[c][k].pc \in {"ack", "nack"}
        /\ TypeOK
    BY DEF Answer, LossInv, TypeInv, TypeOK
  <1>1. UNCHANGED <<sent, bound, delayBound, delayed, chan, buffer, hand, routed, settled,
                    lost>>
    BY DEF Answer, chanVars, loopVars, historyVars
  <1>2. /\ i \in Held(c) /\ i \in Ids /\ h \in Queues
        /\ TaskEntry(c, k).msg \in Matches[h] \cap routed[h]
        /\ TaskEntry(c, k) = sent[i]
        /\ sent[i].attempt \in Nat
    BY <1>t, TaskHeld DEF TaskEntry
  <1>3. /\ slot'[c][k].pc = "free"
        /\ \A d \in Consumers, l \in Slots :
              ~(d = c /\ l = k) => slot'[d][l] = slot[d][l]
    BY <1>t DEF Answer, EndTask, Free
  <1>4. /\ slot[c][k].pc = "nack" /\ chan[c] = "open" =>
              ready' = [ready EXCEPT ![h] = @ \cup {i}]
        /\ ~(slot[c][k].pc = "nack" /\ chan[c] = "open") => ready' = ready
    BY DEF Answer
  <1>5. \A q \in Queues :
           /\ ready[q] \subseteq ready'[q]
           /\ \A j \in ready'[q] \ ready[q] : j = i /\ q = h /\ chan[c] = "open"
    BY <1>t, <1>2, <1>4
  <1> HIDE DEF i
  <1>6. ASSUME NEW d \in Consumers
        PROVE  /\ Held(d)' \subseteq Held(d)
               /\ \A j \in Held(d) \ Held(d)' : d = c /\ j = i
    <2>1. ASSUME NEW j, HeldBy(j, d)'
          PROVE  HeldBy(j, d)
      BY <1>1, <1>3, <2>1 DEF HeldBy
    <2>2. ASSUME NEW j, HeldBy(j, d), ~HeldBy(j, d)'
          PROVE  d = c /\ j = i
      BY <1>1, <1>3, <2>2 DEF HeldBy, i
    <2> QED
      BY <2>1, <2>2, HeldMember
  <1>7. ASSUME NEW q \in Queues
        PROVE  /\ Ahead(q)' \subseteq Ahead(q)
               /\ \A j \in Ahead(q) \ Ahead(q)' :
                     j = i /\ q = h /\ slot[c][k].pc = "ack"
    <2>1. DelayedFor(q)' = DelayedFor(q)
      BY <1>1 DEF DelayedFor, DelayBindings
    <2>2. ASSUME NEW j, j \in Ahead(q)'
          PROVE  j \in Ahead(q)
      BY <1>1, <1>2, <1>5, <1>6, <2>1, <2>2, AheadMember
    <2>3. ASSUME NEW j \in Ahead(q), j \notin Ahead(q)'
          PROVE  j = i /\ q = h /\ slot[c][k].pc = "ack"
      <3>1. j \notin ready'[q] /\ j \notin DelayedFor(q)
        BY <2>1, <2>3, AheadMember
      <3>2. PICK d \in Consumers : QueueOf[d] = q /\ chan[d] = "open" /\ j \in Held(d)
        BY <1>5, <3>1, AheadMember
      <3>3. j \notin Held(d)'
        BY <1>1, <2>3, <3>2, AheadMember
      <3>4. d = c /\ j = i
        BY <1>6, <3>2, <3>3
      <3>5. slot[c][k].pc # "nack"
        BY <1>t, <1>2, <1>4, <3>1, <3>2, <3>4
      <3> QED
        BY <1>t, <3>2, <3>4, <3>5
    <2> QED
      BY <2>2, <2>3
  <1>8. ASSUME NEW q \in Queues, NEW j \in Ahead(q) \ Ahead(q)'
        PROVE  Safe(q, sent[j].msg, sent[j].attempt + 1)'
    <2>1. j = i /\ q = h /\ slot[c][k].pc = "ack"
      BY <1>7
    <2>2. Safe(h, sent[i].msg, sent[i].attempt + 1)
      BY <1>2, <2>1 DEF LossInv, AckSafe
    <2>3. CASE sent[i].msg \in settled[h] \cup lost[h]
      BY <1>1, <2>1, <2>3 DEF Safe
    <2>4. CASE HasCopy(h, sent[i].msg, sent[i].attempt + 1)
      <3>1. PICK w \in Ahead(h) : sent[w].msg = sent[i].msg /\ sent[i].attempt + 1 <= sent[w].attempt
        BY <2>4 DEF HasCopy
      <3>2. w # i
        BY <1>2, <3>1
      <3>3. w \in Ahead(h)'
        BY <1>2, <1>7, <3>2
      <3>4. /\ sent'[w].msg = sent'[j].msg
            /\ sent'[j].attempt + 1 <= sent'[w].attempt
        BY <1>1, <2>1, <3>1
      <3>5. HasCopy(h, sent[j].msg, sent[j].attempt + 1)'
        BY <3>3, <3>4 DEF HasCopy
      <3> QED
        BY <2>1, <3>5 DEF Safe
    <2> QED
      BY <2>2, <2>3, <2>4 DEF Safe
  <1>9. Completes
    BY <1>1, <1>7, <1>8 DEF Completes
  <1>10. ASSUME NEW q \in Queues, NEW j \in ready'[q]
         PROVE  j \in ready[q] \cup QueueUnacked(q)
    BY <1>2, <1>5, UnackedMember
  <1>11. \A d \in Consumers, l \in Slots :
            slot'[d][l].pc = "ack" => slot'[d][l] = slot[d][l]
    BY <1>3
  <1>12. Custody
    BY <1>1, <1>6, <1>10, <1>11 DEF Custody, DelayBindings
  <1> QED
    BY <1>9, <1>12

(* A restart of the broker loses what is in its queues, and says so.       *)
LEMMA RestartEffect ==
    ASSUME LossInv, TypeInv', BrokerRestart
    PROVE  Completes /\ Custody
  <1>t. chan \in [Consumers -> {"none", "open", "broken", "closed"}] /\ TypeOK
    BY DEF LossInv, TypeInv, TypeOK
  <1>1. /\ UNCHANGED <<sent, bound, delayBound, delayed, buffer, hand, slot, routed, settled>>
        /\ \A q \in Queues : ready'[q] = {}
        /\ \A q \in Queues : lost'[q] =
              lost[q] \cup {sent[i].msg : i \in ready[q] \cup QueueUnacked(q)}
        /\ \A c \in Consumers : chan'[c] # "open"
    BY <1>t DEF BrokerRestart, BreakChannels, loopVars
  <1>2. \A c \in Consumers : Held(c)' = Held(c)
    BY <1>1 DEF Held
  <1>3. ASSUME NEW q \in Queues
        PROVE  /\ Ahead(q)' \subseteq Ahead(q)
               /\ \A i \in Ahead(q) \ Ahead(q)' : i \in ready[q] \cup QueueUnacked(q)
    <2>1. DelayedFor(q)' = DelayedFor(q)
      BY <1>1 DEF DelayedFor, DelayBindings
    <2> QED
      BY <1>1, <2>1, AheadMember, UnackedMember
  <1>4. ASSUME NEW q \in Queues, NEW m \in (settled'[q] \cup lost'[q]) \ (settled[q] \cup lost[q])
        PROVE  Safe(q, m, 0)
    <2>1. PICK i \in ready[q] \cup QueueUnacked(q) : m = sent[i].msg
      BY <1>1
    <2>2. i \in Ahead(q)
      BY <2>1 DEF Ahead
    <2>3. 0 <= sent[i].attempt
      BY <1>t, <2>2, AheadType, EntryAt
    <2> QED
      BY <2>1, <2>2, <2>3 DEF Safe, HasCopy
  <1>5. ASSUME NEW q \in Queues, NEW i \in Ahead(q) \ Ahead(q)'
        PROVE  Safe(q, sent[i].msg, sent[i].attempt + 1)'
    BY <1>1, <1>3 DEF Safe
  <1>6. Completes
    BY <1>1, <1>3, <1>4, <1>5 DEF Completes
  <1>7. Custody
    BY <1>1, <1>2 DEF Custody, DelayBindings
  <1> QED
    BY <1>6, <1>7


(* Every step of the adapter and the broker either brings attempts about   *)
(* or ends some, and takes care of what it moves.                          *)
LEMMA StepKinds ==
    ASSUME LossInv, TypeInv', [Next]_vars
    PROVE  (Enqueues \/ Completes) /\ Custody
  <1>t. TypeInv
    BY DEF LossInv
  <1>1. CASE UNCHANGED vars
    BY <1>1, StillMoves, MovesCompletes
       DEF vars, brokerVars, chanVars, loopVars, historyVars, Held
  <1>2. CASE Next
    <2>1. ASSUME NEW c \in Consumers, SetupStep(c) \/ Deliver(c) \/ LoopStep(c)
          PROVE  (Enqueues \/ Completes) /\ Custody
      <3>1. CASE Consume(c) \/ Bind(c)
        BY <3>1, SetupEffect
      <3>2. CASE Deliver(c)
        BY <1>t, <3>2, DeliverMoves, MovesCompletes
      <3>3. CASE Subscribe(c) \/ ConsumeFails(c) \/ LoopStep(c)
        BY <1>t, <3>3, LoopMoves, MovesCompletes
      <3> QED
        BY <2>1, <3>1, <3>2, <3>3 DEF SetupStep
    <2>2. ASSUME NEW c \in Consumers, NEW k \in Slots, TaskStep(c, k)
          PROVE  (Enqueues \/ Completes) /\ Custody
      BY <2>2, HandleEffect, RetryEffect, AnswerEffect DEF TaskStep
    <2>3. ASSUME NEW c \in Consumers,
                 \/ Stop(c) \/ StopReturn(c) \/ StopExpires(c)
                 \/ CancelCtx(c) \/ Panic(c) \/ Notice(c)
          PROVE  (Enqueues \/ Completes) /\ Custody
      <3>1. ProcOf[c] \in Procs /\ (Panic(c) => Die(ProcOf[c]))
        BY ConstantsAssumption DEF Panic
      <3>2. CASE CancelCtx(c) \/ Notice(c) \/ StopReturn(c) \/ StopExpires(c)
        BY <1>t, <3>2, LoopMoves, MovesCompletes
      <3>3. CASE Stop(c) \/ Panic(c)
        BY <1>t, <3>1, <3>3, EndMoves, MovesCompletes
      <3> QED
        BY <2>3, <3>2, <3>3
    <2>4. ASSUME NEW p \in Procs, Restart(p)
          PROVE  (Enqueues \/ Completes) /\ Custody
      BY <2>4, StillMoves, MovesCompletes
         DEF Restart, brokerVars, chanVars, loopVars, historyVars, Held
    <2>5. ASSUME NEW p \in Procs, Close(p) \/ ConnBreak(p) \/ Crash(p)
          PROVE  (Enqueues \/ Completes) /\ Custody
      BY <1>t, <2>5, EndMoves, MovesCompletes DEF Crash
    <2>6. ASSUME NEW c \in Consumers, ChannelBreak(c)
          PROVE  (Enqueues \/ Completes) /\ Custody
      BY <1>t, <2>6, EndMoves, MovesCompletes
    <2>7. CASE \E p \in Procs, m \in Msgs : Publish(p, m) \/ PublishDelay(p, m)
      BY <2>7, PublishEffect, PublishDelayEffect
    <2>8. CASE \E i \in delayed : Due(i)
      BY <2>8, DueEffect
    <2>9. CASE BrokerRestart
      BY <2>9, RestartEffect
    <2> QED
      BY <1>2, <2>1, <2>2, <2>3, <2>4, <2>5, <2>6, <2>7, <2>8, <2>9 DEF Next, FailureStep
  <1> QED
    BY <1>1, <1>2

LEMMA LossInit == Init => LossInv
  <1> SUFFICES ASSUME Init PROVE LossInv
    OBVIOUS
  <1>1. TypeInv
    BY TypeInit
  <1>2. \A c \in Consumers : Held(c) = {} /\ \A k \in Slots : slot[c][k].pc = "free"
    BY DEF Init, Held, Free
  <1> QED
    BY <1>1, <1>2 DEF Init, LossInv, NoLoss, Arrived, HeldSafe, AckSafe, RetryOwned

LEMMA LossNext == LossInv /\ [Next]_vars => LossInv'
  BY TypeNext, StepKinds, LossKept DEF LossInv

(* The adapter loses nothing, whatever channel, connection or process      *)
(* fails, stops or closes, in whatever order: a message once routed to a   *)
(* queue is settled for its group, or ahead of it, unless the broker       *)
(* refused its retry or restarted over it.                                 *)
THEOREM NothingLost == Spec => []NoLoss
  <1>1. LossInv => NoLoss
    BY DEF LossInv
  <1> QED
    BY <1>1, LossInit, LossNext, PTL DEF Spec

-----------------------------------------------------------------------------
(* The adapter implements the MQ interface's contract.                     *)

LEMMA AttemptIsEntry == Contract!Attempt = Entry
  BY DEF Contract!Attempt, Entry

LEMMA OutstandingType ==
    ASSUME TypeOK, NEW q \in Queues
    PROVE  Outstanding(q) \in SUBSET Contract!Attempt
  BY AheadType, EntryAt, AttemptIsEntry DEF Outstanding

(* Has of the contract is HasCopy.                                         *)
LEMMA HasIsHasCopy ==
    ASSUME NEW q \in Queues, NEW m, NEW n
    PROVE  /\ Contract!Has(Outstanding(q), m, n) <=> HasCopy(q, m, n)
           /\ Contract!Has(Outstanding(q)', m, n) <=> HasCopy(q, m, n)'
  BY DEF Contract!Has, HasCopy, Outstanding

LEMMA ContractStart == Init => Contract!Init
  <1> SUFFICES ASSUME Init PROVE Contract!Init
    OBVIOUS
  <1>1. ASSUME NEW q \in Queues
        PROVE  Outstanding(q) = {}
    <2>1. \A c \in Consumers : Held(c) = {}
      BY DEF Init, Held, Free
    <2>2. QueueUnacked(q) = {}
      BY <2>1, UnackedMember
    <2> QED
      BY <2>2 DEF Init, Outstanding, Ahead, DelayedFor
  <1> QED
    BY <1>1 DEF Init, Contract!Init

LEMMA OutstandingNextType ==
    ASSUME TypeOK', NEW q \in Queues
    PROVE  Outstanding(q)' \in SUBSET Contract!Attempt
  <1>1. ASSUME NEW i \in Ahead(q)'
        PROVE  sent'[i] \in Entry
    BY AheadNextType
  <1> QED
    BY <1>1, AttemptIsEntry DEF Outstanding


LEMMA EnqueuesRefines ==
    ASSUME LossInv, TypeOK', Enqueues
    PROVE  Contract!Enqueue
  <1>t. TypeOK
    BY DEF LossInv, TypeInv
  <1>k. \A q \in Queues : \A i \in Ahead(q) : sent'[i] = sent[i]
    BY <1>t, AheadType DEF Enqueues
  <1>1. \A q \in Queues : Outstanding(q)' \in SUBSET Contract!Attempt
    BY OutstandingNextType
  <1>2. \A q \in Queues : routed'[q] \in SUBSET Msgs
    BY DEF TypeOK
  <1>3. ASSUME NEW q \in Queues
        PROVE  Outstanding(q) \subseteq Outstanding(q)'
    BY <1>k DEF Enqueues, Outstanding
  <1>4. ASSUME NEW q \in Queues, NEW e \in Outstanding(q)' \ Outstanding(q)
        PROVE  \/ e.attempt = 0
               \/ \E h \in Queues : \/ e.msg \in settled[h] \cup lost[h]
                                    \/ Contract!Has(Outstanding(h), e.msg, e.attempt - 1)
    <2>1. PICK i \in Ahead(q)' : e = sent'[i]
      BY DEF Outstanding
    <2>2. i \notin Ahead(q)
      BY <1>k, <2>1 DEF Outstanding
    <2>3. CASE e.attempt = 0
      BY <2>3
    <2>4. ASSUME NEW h \in Queues, Safe(h, e.msg, e.attempt - 1)
          PROVE  \/ e.msg \in settled[h] \cup lost[h]
                 \/ Contract!Has(Outstanding(h), e.msg, e.attempt - 1)
      BY <2>4, HasIsHasCopy DEF Safe
    <2> QED
      BY <2>1, <2>2, <2>3, <2>4 DEF Enqueues
  <1>5. ASSUME NEW q \in Queues, NEW m \in routed'[q] \ routed[q]
        PROVE  Contract!Has(Outstanding(q)', m, 0)
    BY HasIsHasCopy DEF Enqueues
  <1> DEFINE pending == [q \in Queues |-> Outstanding(q)]
             through == [q \in Queues |-> settled[q] \cup lost[q]]
  <1>6. /\ pending' \in [Queues -> SUBSET Contract!Attempt]
        /\ routed' \in [Queues -> SUBSET Msgs]
        /\ UNCHANGED through
    BY <1>1 DEF TypeOK, Enqueues
  <1>7. ASSUME NEW q \in Queues
        PROVE  /\ pending[q] \subseteq pending'[q]
               /\ \A e \in pending'[q] \ pending[q] :
                     \/ e.attempt = 0
                     \/ \E h \in Queues :
                           \/ e.msg \in through[h]
                           \/ Contract!Has(pending[h], e.msg, e.attempt - 1)
               /\ routed[q] \subseteq routed'[q]
               /\ \A m \in routed'[q] \ routed[q] :
                     m \in through[q] \/ Contract!Has(pending'[q], m, 0)
    <2>1. pending[q] = Outstanding(q) /\ pending'[q] = Outstanding(q)'
      OBVIOUS
    <2>2. \A h \in Queues :
             pending[h] = Outstanding(h) /\ through[h] = settled[h] \cup lost[h]
      OBVIOUS
    <2> HIDE DEF pending, through
    <2>3. \A e \in pending'[q] \ pending[q] :
             \/ e.attempt = 0
             \/ \E h \in Queues : \/ e.msg \in through[h]
                                  \/ Contract!Has(pending[h], e.msg, e.attempt - 1)
      BY <1>4, <2>1, <2>2
    <2> QED
      BY <1>3, <1>5, <2>1, <2>3 DEF Enqueues
  <1> QED
    BY <1>6, <1>7 DEF Contract!Enqueue

LEMMA CompletesRefines ==
    ASSUME LossInv, TypeOK', Completes
    PROVE  Contract!Complete
  <1>1. \A q \in Queues : Outstanding(q)' \in SUBSET Contract!Attempt
    BY OutstandingNextType
  <1>2. \A q \in Queues : settled'[q] \cup lost'[q] \in SUBSET Msgs
    BY DEF TypeOK
  <1>3. ASSUME NEW q \in Queues
        PROVE  Outstanding(q)' \subseteq Outstanding(q)
    BY DEF Completes, Outstanding
  <1>4. ASSUME NEW q \in Queues, NEW m \in (settled'[q] \cup lost'[q]) \ (settled[q] \cup lost[q])
        PROVE  Contract!Has(Outstanding(q), m, 0)
    BY HasIsHasCopy DEF Completes, Safe
  <1>5. ASSUME NEW q \in Queues, NEW e \in Outstanding(q) \ Outstanding(q)'
        PROVE  \/ e.msg \in settled'[q] \cup lost'[q]
               \/ Contract!Has(Outstanding(q)', e.msg, e.attempt + 1)
    <2>1. PICK i \in Ahead(q) : e = sent[i]
      BY DEF Outstanding
    <2>2. i \notin Ahead(q)' /\ e = sent'[i]
      BY <2>1 DEF Completes, Outstanding
    <2>3. Safe(q, e.msg, e.attempt + 1)'
      BY <2>1, <2>2 DEF Completes
    <2> QED
      BY <2>3, HasIsHasCopy DEF Safe
  <1> QED
    BY <1>1, <1>2, <1>3, <1>4, <1>5 DEF Completes, Contract!Complete

(* Every behaviour of the adapter is one of the contract: publishing,      *)
(* binding and delays bring attempts about, acknowledgements, settling and *)
(* losses end them, and moving a delivery between the queue, a channel, a  *)
(* goroutine and back is nothing the application can see.                  *)
THEOREM ContractImplemented == Spec => ImplementsContract
  <1>1. LossInv /\ [Next]_vars => [Contract!Next]_(Contract!vars)
    BY TypeNext, StepKinds, EnqueuesRefines, CompletesRefines
       DEF LossInv, TypeInv, Contract!Next
  <1> QED
    BY <1>1, ContractStart, LossInit, LossNext, PTL DEF Spec, ImplementsContract, Contract!Spec

-----------------------------------------------------------------------------
(* Stopping.                                                               *)

(* A channel that is closed holds nothing; a loop that is done has no      *)
(* handler left; a stop that waits, or has returned nil, has a closed      *)
(* channel behind it, and the latter the end of the loop.                  *)
QuietAt(c) ==
    /\ chan[c] = "closed" => buffer[c] = {}
    /\ cpc[c] = "done" => \A k \in Slots : slot[c][k].pc = "free"
    /\ stop[c] # "none" => chan[c] = "closed" /\ cpc[c] \in {"select", "token", "drain", "done"}
    /\ stop[c] = "nil" => cpc[c] = "done"

QuietInv == TypeInv /\ \A c \in Consumers : QuietAt(c)

LEMMA QuietTypes ==
    ASSUME QuietInv
    PROVE  /\ slot \in [Consumers -> [Slots -> Task]]
           /\ cpc \in [Consumers -> {"off", "bound", "subscribe", "select", "token", "drain",
                                     "done"}]
           /\ chan \in [Consumers -> {"none", "open", "broken", "closed"}]
           /\ buffer \in [Consumers -> SUBSET Ids]
           /\ stop \in [Consumers -> {"none", "waiting", "nil", "failed", "expired"}]
           /\ \A c \in Consumers : QuietAt(c)
           /\ \A c \in Consumers : cpc[c] = "off" => chan[c] = "none"
  BY DEF QuietInv, TypeInv, TypeOK

(* What leaves a consumer alone, keeps it quiet.                           *)
LEMMA QuietKept ==
    ASSUME QuietInv, UNCHANGED <<chan, buffer, cpc, slot, stop>>
    PROVE  \A c \in Consumers : QuietAt(c)'
  BY DEF QuietInv, QuietAt

LEMMA QuietSetup ==
    ASSUME QuietInv, NEW d \in Consumers, SetupStep(d)
    PROVE  \A c \in Consumers : QuietAt(c)'
  <1>1. CASE Consume(d)
    BY <1>1, QuietTypes DEF QuietAt, Consume
  <1>2. CASE Bind(d) \/ Subscribe(d)
    BY <1>2, QuietTypes DEF QuietAt, Bind, Subscribe, chanVars
  <1>3. CASE ConsumeFails(d)
    BY <1>3, QuietTypes DEF QuietAt, ConsumeFails
  <1> QED
    BY <1>1, <1>2, <1>3 DEF SetupStep

LEMMA QuietLoop ==
    ASSUME QuietInv, NEW d \in Consumers, LoopStep(d) \/ Deliver(d) \/ Notice(d)
    PROVE  \A c \in Consumers : QuietAt(c)'
  <1>1. CASE SelectDone(d) \/ SelectClosed(d)
    BY <1>1, QuietTypes DEF QuietAt, SelectDone, SelectClosed, Goto, chanVars
  <1>2. CASE SelectMsg(d)
    BY <1>2, QuietTypes DEF QuietAt, SelectMsg, Goto
  <1>3. ASSUME NEW l \in Slots, Token(d, l)
        PROVE  \A c \in Consumers : QuietAt(c)'
    BY <1>3, QuietTypes DEF QuietAt, Token, Goto, chanVars
  <1>4. CASE LoopDone(d)
    BY <1>4, QuietTypes DEF QuietAt, LoopDone, Drained, Goto, chanVars
  <1>5. CASE Deliver(d)
    BY <1>5, QuietTypes DEF QuietAt, Deliver, loopVars
  <1>6. CASE Notice(d)
    BY <1>6, QuietTypes DEF QuietAt, Notice, loopVars
  <1> QED
    BY <1>1, <1>2, <1>3, <1>4, <1>5, <1>6 DEF LoopStep

(* A handler goroutine runs only while its loop is not done.               *)
LEMMA QuietTask ==
    ASSUME QuietInv, NEW d \in Consumers, NEW l \in Slots, TaskStep(d, l)
    PROVE  \A c \in Consumers : QuietAt(c)'
  <1>1. slot[d][l].pc # "free" /\ UNCHANGED <<chan, buffer, cpc, stop>>
    BY DEF TaskStep, Handle, Retry, Answer, chanVars, loopVars
  <1>2. slot' = [slot EXCEPT ![d][l] = slot'[d][l]]
    BY QuietTypes DEF TaskStep, Handle, Retry, Answer, SetTask, EndTask
  <1>3. ASSUME NEW c \in Consumers, cpc[c] = "done", NEW k \in Slots
        PROVE  slot'[c][k].pc = "free"
    BY <1>1, <1>2, <1>3, QuietTypes DEF QuietAt
  <1> QED
    BY <1>1, <1>3, QuietTypes DEF QuietAt

(* Closing a channel, on whosever behalf, drops what the client held.      *)
LEMMA QuietClosed ==
    ASSUME QuietInv, NEW cs \in SUBSET Consumers, CloseChannels(cs), UNCHANGED <<cpc, slot>>,
           \A c \in Consumers :
              \/ stop'[c] = stop[c]
              \/ /\ c \in cs /\ stop'[c] = "waiting"
                 /\ cpc[c] \in {"select", "token", "drain", "done"}
    PROVE  \A c \in Consumers : QuietAt(c)'
  BY QuietTypes DEF QuietAt, CloseChannels

(* The three ways stop goes on, and its end.                               *)
LEMMA QuietStop ==
    ASSUME QuietInv, NEW d \in Consumers, Stop(d) \/ StopReturn(d) \/ StopExpires(d)
    PROVE  \A c \in Consumers : QuietAt(c)'
  <1>1. ASSUME Stop(d), chan[d] = "open"
        PROVE  \A c \in Consumers : QuietAt(c)'
    <2>1. /\ CloseChannels({d}) /\ UNCHANGED <<cpc, slot>>
          /\ stop' = [stop EXCEPT ![d] = "waiting"]
          /\ cpc[d] \in {"select", "token", "drain", "done"}
      BY <1>1 DEF Stop, StopChannel
    <2>2. \A c \in Consumers : stop'[c] = stop[c] \/ (c = d /\ stop'[c] = "waiting")
      BY <2>1, QuietTypes
    <2> QED
      BY <2>1, <2>2, QuietClosed
  <1>2. ASSUME Stop(d), chan[d] = "closed"
        PROVE  \A c \in Consumers : QuietAt(c)'
    <2>1. /\ UNCHANGED <<chan, buffer, cpc, slot>>
          /\ stop' = [stop EXCEPT ![d] = "waiting"]
          /\ cpc[d] \in {"select", "token", "drain", "done"}
      BY <1>2 DEF Stop, StopChannel, chanVars
    <2> QED
      BY <1>2, <2>1, QuietTypes DEF QuietAt
  <1>3. ASSUME Stop(d), chan[d] = "broken"
        PROVE  \A c \in Consumers : QuietAt(c)'
    <2>1. /\ UNCHANGED <<cpc, slot>>
          /\ chan' = [chan EXCEPT ![d] = "closed"]
          /\ buffer' = [buffer EXCEPT ![d] = {}]
          /\ stop' = [stop EXCEPT ![d] = "failed"]
          /\ cpc[d] \in {"select", "token", "drain", "done"}
      BY <1>3 DEF Stop, StopChannel
    <2> QED
      BY <2>1, QuietTypes DEF QuietAt
  <1>4. CASE StopReturn(d)
    BY <1>4, QuietTypes DEF QuietAt, StopReturn, chanVars
  <1>5. CASE StopExpires(d)
    BY <1>5, QuietTypes DEF QuietAt, StopExpires, chanVars
  <1> QED
    BY <1>1, <1>2, <1>3, <1>4, <1>5 DEF Stop, StopChannel

(* A channel that breaks was open, so that nobody has stopped its consumer.*)
LEMMA QuietBroken ==
    ASSUME QuietInv, NEW cs \in SUBSET Consumers, BreakChannels(cs),
           \A c \in cs : chan[c] = "open", UNCHANGED <<buffer, cpc, slot, stop>>
    PROVE  \A c \in Consumers : QuietAt(c)'
  BY QuietTypes DEF QuietAt, BreakChannels

LEMMA QuietDie ==
    ASSUME QuietInv, NEW p \in Procs, Die(p)
    PROVE  \A c \in Consumers : QuietAt(c)'
  <1> SUFFICES ASSUME NEW c \in Consumers PROVE QuietAt(c)'
    OBVIOUS
  <1>1. CASE ProcOf[c] = p
    <2>1. chan'[c] = "none" /\ cpc'[c] = "off" /\ stop'[c] = "none"
      BY <1>1 DEF Die
    <2> QED
      BY <2>1 DEF QuietAt
  <1>2. CASE ProcOf[c] # p
    <2>1. /\ chan'[c] = chan[c] /\ buffer'[c] = buffer[c] /\ cpc'[c] = cpc[c]
          /\ slot'[c] = slot[c] /\ stop'[c] = stop[c]
      BY <1>2 DEF Die
    <2> QED
      BY <2>1, QuietTypes DEF QuietAt
  <1> QED
    BY <1>1, <1>2

LEMMA QuietNext == QuietInv /\ [Next]_vars => QuietInv'
  <1> SUFFICES ASSUME QuietInv, [Next]_vars PROVE \A c \in Consumers : QuietAt(c)'
    BY TypeNext DEF QuietInv
  <1>1. CASE UNCHANGED vars
    BY <1>1, QuietKept DEF vars, chanVars, loopVars
  <1>2. CASE \/ \E p \in Procs, m \in Msgs : Publish(p, m) \/ PublishDelay(p, m)
             \/ \E i \in delayed : Due(i)
             \/ \E c \in Consumers : CancelCtx(c)
             \/ \E p \in Procs : Restart(p)
    BY <1>2, QuietKept DEF Publish, PublishDelay, Due, CancelCtx, Restart, chanVars, loopVars
  <1>3. ASSUME NEW d \in Consumers,
               \/ SetupStep(d) \/ Deliver(d) \/ LoopStep(d) \/ Notice(d)
               \/ Stop(d) \/ StopReturn(d) \/ StopExpires(d)
        PROVE  \A c \in Consumers : QuietAt(c)'
    BY <1>3, QuietSetup, QuietLoop, QuietStop
  <1>4. ASSUME NEW d \in Consumers, NEW k \in Slots, TaskStep(d, k)
        PROVE  \A c \in Consumers : QuietAt(c)'
    BY <1>4, QuietTask
  <1>5. CASE (\E d \in Consumers : Panic(d)) \/ (\E p \in Procs : Crash(p))
    BY <1>5, QuietDie, ConstantsAssumption DEF Panic, Crash
  <1>6. ASSUME NEW p \in Procs, Close(p)
        PROVE  \A c \in Consumers : QuietAt(c)'
    <2>1. CloseChannels(Open(p)) /\ Open(p) \in SUBSET Consumers /\ UNCHANGED <<cpc, slot, stop>>
      BY <1>6 DEF Close, Open, loopVars
    <2> QED
      BY <2>1, QuietClosed
  <1>7. ASSUME NEW d \in Consumers, ChannelBreak(d)
        PROVE  \A c \in Consumers : QuietAt(c)'
    <2>1. BreakChannels({d}) /\ chan[d] = "open" /\ UNCHANGED <<buffer, cpc, slot, stop>>
      BY <1>7 DEF ChannelBreak, loopVars
    <2> QED
      BY <2>1, QuietBroken
  <1>8. ASSUME NEW p \in Procs, ConnBreak(p)
        PROVE  \A c \in Consumers : QuietAt(c)'
    <2>1. /\ BreakChannels(Open(p)) /\ UNCHANGED <<buffer, cpc, slot, stop>>
          /\ Open(p) \in SUBSET Consumers /\ \A c \in Open(p) : chan[c] = "open"
      BY <1>8 DEF ConnBreak, loopVars, Open
    <2> QED
      BY <2>1, QuietBroken
  <1>9. CASE BrokerRestart
    <2> DEFINE cs == {c \in Consumers : chan[c] = "open"}
    <2>1. BreakChannels(cs) /\ UNCHANGED <<buffer, cpc, slot, stop>>
      BY <1>9 DEF BrokerRestart, loopVars
    <2> QED
      BY <2>1, QuietBroken
  <1> QED
    BY <1>1, <1>2, <1>3, <1>4, <1>5, <1>6, <1>7, <1>8, <1>9 DEF Next, FailureStep

(* Once stop has returned nil the consumer keeps nothing: what it had been *)
(* given is answered or has gone back to the queue, whether stop, the      *)
(* broker, Close or a cancelled context had ended the loop or the channel, *)
(* for any consumers, concurrency and failures.                            *)
THEOREM StoppedQuietly == Spec => []StopIsQuiet
  <1>1. Init => QuietInv
    BY TypeInit DEF Init, QuietInv, QuietAt
  <1>2. QuietInv => StopIsQuiet
    <2> SUFFICES ASSUME QuietInv, NEW c \in Consumers, stop[c] = "nil"
                 PROVE  Held(c) = {} /\ chan[c] # "open"
      BY DEF StopIsQuiet
    <2>1. /\ chan[c] = "closed" /\ buffer[c] = {} /\ cpc[c] = "done"
          /\ \A k \in Slots : slot[c][k].pc = "free"
      BY DEF QuietInv, QuietAt
    <2>2. hand[c] = 0
      BY <2>1 DEF QuietInv, TypeInv, TypeOK
    <2> QED
      BY <2>1, <2>2 DEF Held
  <1> QED
    BY <1>1, <1>2, QuietNext, PTL DEF Spec
=============================================================================
