--------------------------- MODULE RedisMQ_proofs ---------------------------
(* Theorems about RedisMQ, for every value of its constants.               *)
EXTENDS RedisMQ, Integers, TLAPS

-----------------------------------------------------------------------------
(* Facts about the operators of the model.                                 *)

(* The retry copy of an entry that may be retried is an entry.             *)
LEMMA RetryCopy ==
    ASSUME NEW e \in Entry, RetryAllowed(e)
    PROVE  /\ [e EXCEPT !.attempt = @ + 1] \in Entry
           /\ [e EXCEPT !.attempt = @ + 1].msg = e.msg
           /\ [e EXCEPT !.attempt = @ + 1].attempt = e.attempt + 1
  BY ConstantsAssumption DEF Entry, RetryAllowed

(* What the type invariant says of the entry a busy goroutine works on.    *)
LEMMA TaskEntryType ==
    ASSUME TypeOK, NEW c \in Consumers, NEW k \in Slots, slot[c][k].pc # "free"
    PROVE  TaskEntry(c, k) \in Entry
  BY DEF TypeOK, TaskEntry

(* XADD keeps every entry under its ID and stores the new one last.        *)
LEMMA XAddGrows ==
    ASSUME stream \in Seq(Entry), NEW e \in Entry, XAdd(e)
    PROVE  /\ stream' \in Seq(Entry)
           /\ Len(stream') = Len(stream) + 1
           /\ \A i \in 1..Len(stream) : stream'[i] = stream[i]
           /\ stream'[Len(stream) + 1] = e
  BY DEF XAdd

(* So it keeps what the type invariant says of the variables that hold IDs.*)
LEMMA XAddType ==
    ASSUME TypeOK, NEW e \in Entry, XAdd(e),
           UNCHANGED <<delivered, pel, idle, fetched, slot>>
    PROVE  /\ stream' \in Seq(Entry)
           /\ delivered' \in [Groups -> 0..Len(stream')]
           /\ pel' \in [Groups -> SUBSET (1..Len(stream'))]
           /\ idle' \in [Groups -> SUBSET (1..Len(stream'))]
           /\ fetched' \in [Consumers -> SUBSET (1..Len(stream'))]
           /\ \A c \in Consumers, k \in Slots :
                 slot'[c][k].pc # "free" => slot'[c][k].id \in 1..Len(stream')
           /\ \A c \in Consumers, k \in Slots :
                 slot'[c][k].pc = "retry" => RetryAllowed(TaskEntry(c, k)')
  <1> stream \in Seq(Entry)
    BY DEF TypeOK
  <1>1. /\ stream' \in Seq(Entry)
        /\ Len(stream') = Len(stream) + 1
        /\ Len(stream) \in Nat
        /\ \A i \in 1..Len(stream) : stream'[i] = stream[i]
    BY XAddGrows
  <1>2. 1..Len(stream) \subseteq 1..Len(stream') /\ 0..Len(stream) \subseteq 0..Len(stream')
    BY <1>1
  <1>3. /\ delivered' \in [Groups -> 0..Len(stream')]
        /\ pel' \in [Groups -> SUBSET (1..Len(stream'))]
        /\ idle' \in [Groups -> SUBSET (1..Len(stream'))]
        /\ fetched' \in [Consumers -> SUBSET (1..Len(stream'))]
    BY <1>2 DEF TypeOK
  <1>4. ASSUME NEW c \in Consumers, NEW k \in Slots, slot'[c][k].pc # "free"
        PROVE  slot'[c][k].id \in 1..Len(stream') /\ TaskEntry(c, k)' = TaskEntry(c, k)
    BY <1>1, <1>2, <1>4 DEF TypeOK, TaskEntry
  <1>5. ASSUME NEW c \in Consumers, NEW k \in Slots, slot'[c][k].pc = "retry"
        PROVE  RetryAllowed(TaskEntry(c, k)')
    BY <1>4, <1>5 DEF TypeOK
  <1> QED
    BY <1>1, <1>3, <1>4, <1>5

-----------------------------------------------------------------------------
(* Type correctness.                                                       *)

LEMMA TypeInit == Init => TypeOK
  BY ConstantsAssumption DEF Init, TypeOK, Free, Task, Entry, Slots

LEMMA TypePublish ==
    ASSUME TypeOK, NEW p \in Procs, NEW m \in Msgs, Publish(p, m)
    PROVE  TypeOK'
  <1> DEFINE e == [msg |-> m, attempt |-> 0]
  <1>1. e \in Entry
    BY ConstantsAssumption DEF Entry
  <1>2. PICK res \in Results : IF Applied(res) THEN XAdd(e) ELSE UNCHANGED stream
    BY DEF Publish
  <1>3. /\ UNCHANGED <<groups, delivered, pel, idle, zset, due, schedUp, taken, removing, cpc,
                       cancelled, autoClaim, claimStart, fetched, slot, life, handled,
                       exhausted, swallowed, crashes>>
        /\ accepted' \in [Msgs -> Nat]
        /\ faults' \in Nat
    BY DEF TypeOK, Publish, Call, schedVars, loopVars
  <1> HIDE DEF e
  <1>4. CASE Applied(res)
    <2>1. XAdd(e)
      BY <1>2, <1>4
    <2> QED
      BY <1>1, <1>3, <2>1, XAddType DEF TypeOK
  <1>5. CASE ~Applied(res)
    BY <1>2, <1>3, <1>5 DEF TypeOK, TaskEntry
  <1> QED
    BY <1>4, <1>5

LEMMA TypePublishDelay ==
    ASSUME TypeOK, NEW p \in Procs, NEW m \in Msgs, PublishDelay(p, m)
    PROVE  TypeOK'
  BY ConstantsAssumption DEF TypeOK, PublishDelay, Call, Applied, ZAdd, Entry, TaskEntry,
     schedVars, loopVars

LEMMA TypeSchedStep ==
    ASSUME TypeOK, NEW p \in Procs, SchedStep(p)
    PROVE  TypeOK'
  <1>1. CASE SchedScan(p)
    BY <1>1 DEF TypeOK, SchedScan, TaskEntry, redisVars, loopVars, historyVars
  <1>2. ASSUME NEW e \in taken[p], SchedPublish(p, e)
        PROVE  TypeOK'
    <2>1. e \in Entry
      BY DEF TypeOK
    <2>2. PICK res \in Results :
             /\ IF Applied(res) THEN XAdd(e) ELSE UNCHANGED stream
             /\ swallowed' = IF ~Applied(res) /\ ClientUsable(p)
                             THEN swallowed \cup {e.msg} ELSE swallowed
      BY <1>2 DEF SchedPublish
    <2>3. /\ UNCHANGED <<groups, delivered, pel, idle, zset, due, schedUp, cpc, cancelled,
                         autoClaim, claimStart, fetched, slot, life, accepted, handled,
                         exhausted, crashes>>
          /\ taken' \in [Procs -> SUBSET Entry]
          /\ removing' \in [Procs -> SUBSET Entry]
          /\ faults' \in Nat
      BY <1>2, <2>1 DEF TypeOK, SchedPublish, Call, loopVars
    <2>4. swallowed' \subseteq Msgs
      BY <2>1, <2>2 DEF TypeOK, Entry
    <2>d. \A q \in Procs : life'[q] = "down" => taken'[q] = {} /\ removing'[q] = {}
      BY <1>2 DEF TypeOK, SchedPublish
    <2>5. CASE Applied(res)
      <3>1. XAdd(e)
        BY <2>2, <2>5
      <3> QED
        BY <2>1, <2>3, <2>4, <2>d, <3>1, XAddType DEF TypeOK
    <2>6. CASE ~Applied(res)
      BY <2>2, <2>3, <2>4, <2>d, <2>6 DEF TypeOK, TaskEntry
    <2> QED
      BY <2>5, <2>6
  <1>3. ASSUME NEW e \in removing[p], SchedRemove(p, e)
        PROVE  TypeOK'
    BY <1>3 DEF TypeOK, SchedRemove, Call, ZRem, TaskEntry, loopVars, historyVars
  <1>4. CASE SchedExit(p)
    BY <1>4 DEF TypeOK, SchedExit, TaskEntry, redisVars, loopVars, historyVars
  <1> QED
    BY <1>1, <1>2, <1>3, <1>4 DEF SchedStep

LEMMA TypeConsume ==
    ASSUME TypeOK, NEW c \in Consumers, Consume(c) \/ Stop(c)
    PROVE  TypeOK'
  <1>1. CASE Consume(c)
    <2>1. PICK res \in Results :
             IF Applied(res) /\ GroupOf[c] \notin groups
             THEN /\ groups' = groups \cup {GroupOf[c]}
                  /\ delivered' = [delivered EXCEPT ![GroupOf[c]] = GroupStart]
             ELSE UNCHANGED <<groups, delivered>>
      BY <1>1 DEF Consume
    <2>2. /\ 0 \in 0..Len(stream) /\ GroupOf[c] \in Groups
          /\ groups \subseteq Groups /\ delivered \in [Groups -> 0..Len(stream)]
      BY ConstantsAssumption DEF TypeOK
    <2>3. groups' \subseteq Groups /\ delivered' \in [Groups -> 0..Len(stream)]
      <3>1. CASE Applied(res) /\ GroupOf[c] \notin groups
        BY <2>1, <2>2, <3>1 DEF GroupStart
      <3>2. CASE ~(Applied(res) /\ GroupOf[c] \notin groups)
        BY <2>1, <2>2, <3>2
      <3> QED
        BY <3>1, <3>2
    <2>4. faults' \in Nat
      BY <1>1 DEF Consume, Call, TypeOK
    <2>5. cpc' \in [Consumers -> {"off", "top", "read", "dispatch", "drain", "done"}]
      BY <1>1 DEF Consume, TypeOK
    <2>6. UNCHANGED <<stream, pel, idle, zset, due, schedUp, taken, removing, cancelled,
                      autoClaim, claimStart, fetched, slot, life, accepted, handled,
                      exhausted, swallowed, crashes>>
      BY <1>1 DEF Consume, schedVars, historyVars
    <2> QED
      BY <2>3, <2>4, <2>5, <2>6 DEF TypeOK, TaskEntry
  <1>2. CASE Stop(c)
    BY <1>2 DEF TypeOK, Stop, TaskEntry, redisVars, schedVars, historyVars
  <1> QED
    BY <1>1, <1>2

(* What XREADGROUP and XAUTOCLAIM return are IDs of the stream.            *)
LEMMA IdsType ==
    ASSUME TypeOK, NEW g \in Groups, NEW start \in Nat
    PROVE  NewIds(g) \subseteq 1..Len(stream) /\ ClaimIds(g, start) \subseteq 1..Len(stream)
  <1>1. DOMAIN stream = 1..Len(stream)
    BY DEF TypeOK
  <1> QED
    BY <1>1 DEF TypeOK, NewIds, ClaimIds

LEMMA TypeLoopStep ==
    ASSUME TypeOK, NEW c \in Consumers, LoopStep(c)
    PROVE  TypeOK'
  <1> DEFINE g == GroupOf[c]
  <1>g. g \in Groups
    BY ConstantsAssumption
  <1>l. Len(stream) \in Nat
    BY DEF TypeOK
  <1>1. CASE AutoClaim(c)
    <2> DEFINE ids == ClaimIds(g, claimStart[c])
    <2>1. ids \subseteq 1..Len(stream)
      BY <1>g, IdsType DEF TypeOK
    <2>2. PICK res \in Results :
             /\ idle' = IF Applied(res) THEN [idle EXCEPT ![g] = @ \ ids] ELSE idle
             /\ IF res = "ok"
                THEN /\ \E next \in pel[g] \cup {0} :
                           claimStart' = [claimStart EXCEPT ![c] = next]
                     /\ fetched' = [fetched EXCEPT ![c] = ids]
                     /\ cpc' = [cpc EXCEPT ![c] = IF ids = {} THEN "read" ELSE "dispatch"]
                ELSE /\ cpc' = [cpc EXCEPT ![c] = "read"]
                     /\ UNCHANGED <<claimStart, fetched>>
      BY <1>1 DEF AutoClaim
    <2>3. faults' \in Nat
      BY <1>1 DEF AutoClaim, Call, TypeOK
    <2>4. UNCHANGED <<stream, groups, delivered, pel, zset, due, schedUp, taken, removing,
                      cancelled, autoClaim, slot, life, accepted, handled, exhausted,
                      swallowed, crashes>>
      BY <1>1 DEF AutoClaim, schedVars, historyVars
    <2> HIDE DEF ids
    <2> HIDE DEF g
    <2>5. idle' \in [Groups -> SUBSET (1..Len(stream))]
      BY <1>g, <2>2 DEF TypeOK
    <2>6. fetched' \in [Consumers -> SUBSET (1..Len(stream))]
      BY <2>1, <2>2 DEF TypeOK
    <2>7. claimStart' \in [Consumers -> Nat]
      <3>1. pel[g] \cup {0} \subseteq Nat
        BY <1>g, <1>l DEF TypeOK
      <3> QED
        BY <2>2, <3>1 DEF TypeOK
    <2>8. cpc' \in [Consumers -> {"off", "top", "read", "dispatch", "drain", "done"}]
      BY <2>2 DEF TypeOK
    <2> QED
      BY <2>3, <2>4, <2>5, <2>6, <2>7, <2>8 DEF TypeOK, TaskEntry
  <1>2. CASE AutoClaimUnknown(c)
    BY <1>2 DEF TypeOK, AutoClaimUnknown, TaskEntry, redisVars, schedVars, historyVars
  <1>3. CASE ReadGroup(c)
    <2> DEFINE ids == NewIds(g)
    <2>1. ids \subseteq 1..Len(stream)
      BY <1>g, IdsType DEF TypeOK
    <2>2. PICK res \in Results :
             /\ IF Applied(res) /\ ids # {}
                THEN /\ delivered' = [delivered EXCEPT ![g] =
                                         IF @ + Concurrency <= Len(stream)
                                         THEN @ + Concurrency ELSE Len(stream)]
                     /\ pel' = [pel EXCEPT ![g] = @ \cup ids]
                ELSE UNCHANGED <<delivered, pel>>
             /\ IF res = "ok" /\ ids # {}
                THEN /\ fetched' = [fetched EXCEPT ![c] = ids]
                     /\ cpc' = [cpc EXCEPT ![c] = "dispatch"]
                ELSE /\ cpc' = [cpc EXCEPT ![c] = "top"]
                     /\ UNCHANGED fetched
      BY <1>3 DEF ReadGroup
    <2>3. faults' \in Nat
      BY <1>3 DEF ReadGroup, Call, TypeOK
    <2>4. UNCHANGED <<stream, groups, idle, zset, due, schedUp, taken, removing, cancelled,
                      autoClaim, claimStart, slot, life, accepted, handled, exhausted,
                      swallowed, crashes>>
      BY <1>3 DEF ReadGroup, schedVars, historyVars
    <2> HIDE DEF ids
    <2> HIDE DEF g
    <2>t. /\ delivered \in [Groups -> 0..Len(stream)]
          /\ pel \in [Groups -> SUBSET (1..Len(stream))]
      BY DEF TypeOK
    <2>5. delivered' \in [Groups -> 0..Len(stream)]
      <3>1. (IF delivered[g] + Concurrency <= Len(stream)
             THEN delivered[g] + Concurrency ELSE Len(stream)) \in 0..Len(stream)
        BY <1>g, <1>l, <2>t, ConstantsAssumption
      <3> QED
        BY <2>2, <2>t, <3>1
    <2>6. pel' \in [Groups -> SUBSET (1..Len(stream))]
      <3>1. pel[g] \cup ids \in SUBSET (1..Len(stream))
        BY <1>g, <2>1, <2>t
      <3> QED
        BY <2>2, <2>t, <3>1
    <2>7. fetched' \in [Consumers -> SUBSET (1..Len(stream))]
      BY <2>1, <2>2 DEF TypeOK
    <2>8. cpc' \in [Consumers -> {"off", "top", "read", "dispatch", "drain", "done"}]
      BY <2>2 DEF TypeOK
    <2> QED
      BY <2>3, <2>4, <2>5, <2>6, <2>7, <2>8 DEF TypeOK, TaskEntry
  <1>4. ASSUME NEW k \in Slots, Dispatch(c, k)
        PROVE  TypeOK'
    BY <1>4, <1>l DEF TypeOK, Dispatch, Task, TaskEntry, redisVars, schedVars, historyVars
  <1>5. CASE LoopExit(c)
    BY <1>5 DEF TypeOK, LoopExit, TaskEntry, redisVars, schedVars, historyVars
  <1>6. CASE LoopDone(c)
    BY <1>6 DEF TypeOK, LoopDone, TaskEntry, redisVars, schedVars, historyVars
  <1> QED
    BY <1>1, <1>2, <1>3, <1>4, <1>5, <1>6 DEF LoopStep

(* A goroutine's step writes its own slot only.                            *)
LEMMA SetTaskSlot ==
    ASSUME slot \in [Consumers -> [Slots -> Task]], NEW c \in Consumers, NEW k \in Slots,
           NEW pc \in {"exec", "retry", "ack"}, SetTask(c, k, pc)
    PROVE  /\ slot' \in [Consumers -> [Slots -> Task]]
           /\ slot'[c][k].pc = pc /\ slot'[c][k].id = slot[c][k].id
           /\ \A d \in Consumers, l \in Slots :
                 ~(d = c /\ l = k) => slot'[d][l] = slot[d][l]
  BY DEF SetTask, Task

LEMMA EndTaskSlot ==
    ASSUME slot \in [Consumers -> [Slots -> Task]], NEW c \in Consumers, NEW k \in Slots,
           EndTask(c, k)
    PROVE  /\ slot' \in [Consumers -> [Slots -> Task]]
           /\ slot'[c][k].pc = "free"
           /\ \A d \in Consumers, l \in Slots :
                 ~(d = c /\ l = k) => slot'[d][l] = slot[d][l]
  BY DEF EndTask, Free, Task

(* So the tasks of the next state are typed when the one written is.       *)
LEMMA TaskStepSlots ==
    ASSUME TypeOK, NEW c \in Consumers, NEW k \in Slots, UNCHANGED stream,
           \/ EndTask(c, k)
           \/ slot[c][k].pc # "free" /\ SetTask(c, k, "ack")
           \/ /\ slot[c][k].pc # "free" /\ SetTask(c, k, "retry")
              /\ RetryAllowed(TaskEntry(c, k))
    PROVE  /\ slot' \in [Consumers -> [Slots -> Task]]
           /\ \A d \in Consumers, l \in Slots :
                 slot'[d][l].pc # "free" => slot'[d][l].id \in 1..Len(stream')
           /\ \A d \in Consumers, l \in Slots :
                 slot'[d][l].pc = "retry" => RetryAllowed(TaskEntry(d, l)')
  <1>t. /\ slot \in [Consumers -> [Slots -> Task]]
        /\ \A d \in Consumers, l \in Slots :
              slot[d][l].pc # "free" => slot[d][l].id \in 1..Len(stream)
        /\ \A d \in Consumers, l \in Slots :
              slot[d][l].pc = "retry" => RetryAllowed(stream[slot[d][l].id])
    BY DEF TypeOK, TaskEntry
  <1>1. CASE EndTask(c, k)
    BY <1>t, <1>1, EndTaskSlot DEF TaskEntry
  <1>2. CASE slot[c][k].pc # "free" /\ SetTask(c, k, "ack")
    <2>1. /\ slot' \in [Consumers -> [Slots -> Task]]
          /\ slot'[c][k].id = slot[c][k].id /\ slot'[c][k].pc = "ack"
          /\ \A d \in Consumers, l \in Slots :
                ~(d = c /\ l = k) => slot'[d][l] = slot[d][l]
      BY <1>t, <1>2, SetTaskSlot
    <2>2. \A d \in Consumers, l \in Slots :
             slot'[d][l].pc # "free" => slot'[d][l].id \in 1..Len(stream')
      BY <1>t, <1>2, <2>1
    <2>3. \A d \in Consumers, l \in Slots :
             slot'[d][l].pc = "retry" => RetryAllowed(stream'[slot'[d][l].id])
      BY <1>t, <2>1
    <2> QED
      BY <2>1, <2>2, <2>3 DEF TaskEntry
  <1>3. CASE /\ slot[c][k].pc # "free" /\ SetTask(c, k, "retry")
             /\ RetryAllowed(TaskEntry(c, k))
    <2>1. /\ slot' \in [Consumers -> [Slots -> Task]]
          /\ slot'[c][k].id = slot[c][k].id
          /\ \A d \in Consumers, l \in Slots :
                ~(d = c /\ l = k) => slot'[d][l] = slot[d][l]
      BY <1>t, <1>3, SetTaskSlot
    <2>2. \A d \in Consumers, l \in Slots :
             slot'[d][l].pc # "free" => slot'[d][l].id \in 1..Len(stream')
      BY <1>t, <1>3, <2>1
    <2>3. ASSUME NEW d \in Consumers, NEW l \in Slots, slot'[d][l].pc = "retry"
          PROVE  RetryAllowed(stream[slot'[d][l].id])
      <3>1. CASE d = c /\ l = k
        BY <1>3, <2>1, <3>1 DEF TaskEntry
      <3>2. CASE ~(d = c /\ l = k)
        BY <1>t, <2>1, <2>3, <3>2
      <3> QED
        BY <3>1, <3>2
    <2> QED
      BY <2>1, <2>2, <2>3 DEF TaskEntry
  <1> QED
    BY <1>1, <1>2, <1>3

LEMMA TypeTaskStep ==
    ASSUME TypeOK, NEW c \in Consumers, NEW k \in Slots, TaskStep(c, k)
    PROVE  TypeOK'
  <1>g. GroupOf[c] \in Groups
    BY ConstantsAssumption
  <1>e. TaskEntry(c, k) \in Entry
    BY TaskEntryType DEF TaskStep, HandlerOk, HandlerErr, Retry, Ack
  <1>m. TaskEntry(c, k).msg \in Msgs
    BY <1>e DEF Entry
  <1>s. ASSUME UNCHANGED <<stream, groups, delivered, schedUp, taken, removing, cpc, cancelled,
                           autoClaim, claimStart, fetched, life, accepted, swallowed, crashes>>,
               \/ EndTask(c, k)
               \/ slot[c][k].pc # "free" /\ SetTask(c, k, "ack")
               \/ /\ slot[c][k].pc # "free" /\ SetTask(c, k, "retry")
                  /\ RetryAllowed(TaskEntry(c, k)),
               pel' \in [Groups -> SUBSET (1..Len(stream))],
               idle' \in [Groups -> SUBSET (1..Len(stream))],
               zset' \subseteq Entry /\ due' \subseteq zset',
               handled' \in [Groups -> SUBSET Msgs],
               exhausted' \in [Groups -> SUBSET Msgs],
               faults' \in Nat
        PROVE  TypeOK'
    BY <1>s, TaskStepSlots DEF TypeOK
  <1>1. CASE HandlerOk(c, k)
    <2>1. handled' \in [Groups -> SUBSET Msgs]
      BY <1>1, <1>g, <1>m DEF HandlerOk, TypeOK
    <2> QED
      BY <1>1, <1>s, <2>1 DEF TypeOK, HandlerOk, redisVars, schedVars, loopVars
  <1>2. CASE HandlerErr(c, k)
    <2>1. exhausted' \in [Groups -> SUBSET Msgs]
      <3>1. \/ exhausted' = [exhausted EXCEPT ![GroupOf[c]] = @ \cup {TaskEntry(c, k).msg}]
            \/ UNCHANGED exhausted
        BY <1>2 DEF HandlerErr
      <3>2. exhausted \in [Groups -> SUBSET Msgs]
        BY DEF TypeOK
      <3> QED
        BY <1>g, <1>m, <3>1, <3>2
    <2> QED
      BY <1>2, <1>s, <2>1 DEF TypeOK, HandlerErr, redisVars, schedVars, loopVars
  <1>3. CASE Retry(c, k)
    <2> DEFINE r == [TaskEntry(c, k) EXCEPT !.attempt = @ + 1]
    <2>1. r \in Entry
      BY <1>3, <1>e, RetryCopy DEF Retry, TypeOK
    <2>2. PICK res \in Results :
             /\ IF Applied(res) THEN ZAdd(r) ELSE UNCHANGED <<zset, due>>
             /\ IF RetryStored(res) THEN SetTask(c, k, "ack") ELSE EndTask(c, k)
      BY <1>3 DEF Retry
    <2>3. faults' \in Nat
      BY <1>3 DEF Retry, Call, TypeOK
    <2> HIDE DEF r
    <2>4. zset' \subseteq Entry /\ due' \subseteq zset'
      BY <2>1, <2>2 DEF ZAdd, TypeOK
    <2> QED
      BY <1>3, <1>s, <2>2, <2>3, <2>4 DEF TypeOK, Retry, schedVars, loopVars, historyVars
  <1>4. CASE Ack(c, k)
    <2>1. PICK res \in Results :
             IF Applied(res) THEN XAck(GroupOf[c], slot[c][k].id) ELSE UNCHANGED <<pel, idle>>
      BY <1>4 DEF Ack
    <2>2. /\ pel' \in [Groups -> SUBSET (1..Len(stream))]
          /\ idle' \in [Groups -> SUBSET (1..Len(stream))]
      <3>1. /\ pel \in [Groups -> SUBSET (1..Len(stream))]
            /\ idle \in [Groups -> SUBSET (1..Len(stream))]
        BY DEF TypeOK
      <3> QED
        BY <1>g, <2>1, <3>1 DEF XAck
    <2>3. faults' \in Nat
      BY <1>4 DEF Ack, Call, TypeOK
    <2> QED
      BY <1>4, <1>s, <2>2, <2>3 DEF TypeOK, Ack, schedVars, loopVars, historyVars
  <1> QED
    BY <1>1, <1>2, <1>3, <1>4 DEF TaskStep

LEMMA TypeLifeStep ==
    ASSUME TypeOK, NEW p \in Procs,
           Close(p) \/ CloseDone(p) \/ CloseTimeout(p) \/ Crash(p) \/ Restart(p)
    PROVE  TypeOK'
  <1>1. CASE Close(p)
    BY <1>1 DEF TypeOK, Close, TaskEntry, redisVars, schedVars, loopVars, historyVars
  <1>2. CASE CloseDone(p)
    BY <1>2 DEF TypeOK, CloseDone, TaskEntry, redisVars, schedVars, loopVars, historyVars
  <1>3. CASE CloseTimeout(p)
    BY <1>3 DEF TypeOK, CloseTimeout, TaskEntry, redisVars, schedVars, loopVars, historyVars
  <1>4. CASE Crash(p)
    <2>1. /\ life' \in [Procs -> {"open", "closing", "closed", "down"}]
          /\ schedUp' \in [Procs -> BOOLEAN]
          /\ taken' \in [Procs -> SUBSET Entry]
          /\ removing' \in [Procs -> SUBSET Entry]
          /\ \A q \in Procs : life'[q] = "down" => taken'[q] = {} /\ removing'[q] = {}
      BY <1>4 DEF Crash, TypeOK
    <2>2. /\ cpc' \in [Consumers -> {"off", "top", "read", "dispatch", "drain", "done"}]
          /\ cancelled' \in [Consumers -> BOOLEAN]
          /\ autoClaim' \in [Consumers -> BOOLEAN]
      BY <1>4 DEF Crash, TypeOK
    <2>3. /\ claimStart' \in [Consumers -> Nat]
          /\ fetched' \in [Consumers -> SUBSET (1..Len(stream))]
      BY <1>4 DEF Crash, TypeOK
    <2>4. /\ slot' \in [Consumers -> [Slots -> Task]]
          /\ \A c \in Consumers, k \in Slots : slot'[c][k] = Free \/ slot'[c][k] = slot[c][k]
      <3>1. slot' = [c \in Consumers |-> IF ProcOf[c] = p THEN [k \in Slots |-> Free] ELSE slot[c]]
        BY <1>4 DEF Crash
      <3>2. Free \in Task
        BY DEF Free, Task
      <3> QED
        BY <3>1, <3>2 DEF TypeOK
    <2>5. /\ UNCHANGED <<stream, groups, delivered, pel, idle, zset, due, accepted, handled,
                         exhausted, swallowed, faults>>
          /\ crashes' \in Nat
      BY <1>4 DEF Crash, TypeOK, redisVars, historyVars
    <2>6. /\ \A c \in Consumers, k \in Slots :
                slot'[c][k].pc # "free" => slot'[c][k].id \in 1..Len(stream)
          /\ \A c \in Consumers, k \in Slots :
                slot'[c][k].pc = "retry" => RetryAllowed(stream[slot'[c][k].id])
      <3>1. \A c \in Consumers, k \in Slots :
               slot'[c][k].pc # "free" => slot'[c][k] = slot[c][k]
        BY <2>4 DEF Free
      <3>2. /\ \A c \in Consumers, k \in Slots :
                  slot[c][k].pc # "free" => slot[c][k].id \in 1..Len(stream)
            /\ \A c \in Consumers, k \in Slots :
                  slot[c][k].pc = "retry" => RetryAllowed(stream[slot[c][k].id])
        BY DEF TypeOK, TaskEntry
      <3> QED
        BY <3>1, <3>2
    <2> QED
      BY <2>1, <2>2, <2>3, <2>4, <2>5, <2>6 DEF TypeOK, TaskEntry
  <1>5. CASE Restart(p)
    BY <1>5 DEF TypeOK, Restart, TaskEntry, redisVars, loopVars, historyVars
  <1> QED
    BY <1>1, <1>2, <1>3, <1>4, <1>5

LEMMA TypeTimeStep ==
    ASSUME TypeOK, TimeStep
    PROVE  TypeOK'
  <1>1. ASSUME NEW e \in zset, BecomeDue(e) PROVE TypeOK'
    BY <1>1 DEF TypeOK, BecomeDue, TaskEntry, schedVars, loopVars, historyVars
  <1>2. ASSUME NEW g \in Groups, NEW i \in pel[g], BecomeIdle(g, i) PROVE TypeOK'
    BY <1>2 DEF TypeOK, BecomeIdle, TaskEntry, schedVars, loopVars, historyVars
  <1> QED
    BY <1>1, <1>2 DEF TimeStep

(* Every step of the adapter preserves the type invariant.                 *)
LEMMA TypeNext == TypeOK /\ [Next]_vars => TypeOK'
  <1> SUFFICES ASSUME TypeOK, [Next]_vars PROVE TypeOK'
    OBVIOUS
  <1>1. CASE UNCHANGED vars
    BY <1>1 DEF TypeOK, TaskEntry, vars, redisVars, schedVars, loopVars, historyVars
  <1>2. CASE Next
    BY <1>2, TypePublish, TypePublishDelay, TypeSchedStep, TypeConsume, TypeLoopStep,
       TypeTaskStep, TypeLifeStep, TypeTimeStep DEF Next
  <1> QED
    BY <1>1, <1>2

(* In every behaviour of the adapter retry counts stay within MaxRetries,  *)
(* pending entries exist in the stream, and a goroutine that publishes a   *)
(* retry works on an entry that has an attempt left.                       *)
THEOREM TypeCorrect == Spec => []TypeOK
  BY TypeInit, TypeNext, PTL DEF Spec

-----------------------------------------------------------------------------
(* No message is lost.                                                     *)

(* The inductive invariant.                                                *)
NoLossInv == TypeOK /\ NoLoss /\ AckSafe /\ RemoveSafe

(* A step after which everything stored is still stored.                   *)
Grows ==
    /\ \A i \in DOMAIN stream : i \in DOMAIN stream' /\ stream'[i] = stream[i]
    /\ \A g \in Groups, i \in DOMAIN stream :
          delivered[g] < i \/ i \in pel[g] => delivered'[g] < i \/ i \in pel'[g]
    /\ zset \subseteq zset'
    /\ swallowed \subseteq swallowed'
    /\ \A g \in Groups : handled[g] \subseteq handled'[g] /\ exhausted[g] \subseteq exhausted'[g]

(* Such a step keeps a message where it is.                                *)
LEMMA SafeGrows ==
    ASSUME Grows, NEW g \in Groups, NEW m, NEW n
    PROVE  /\ Settled(g, m) => Settled(g, m)'
           /\ m \in swallowed => m \in swallowed'
           /\ HasCopy(g, m, n) => HasCopy(g, m, n)'
           /\ IsDelayed(m, n) => IsDelayed(m, n)'
           /\ Safe(g, m, n) => Safe(g, m, n)'
  BY DEF Grows, Settled, HasCopy, IsDelayed, Safe

(* A later attempt also counts for an earlier one.                         *)
LEMMA SafeWeaken ==
    ASSUME TypeOK, NEW g \in Groups, NEW m, NEW n \in Nat, NEW l \in Nat, l <= n
    PROVE  /\ HasCopy(g, m, n) => HasCopy(g, m, l)
           /\ IsDelayed(m, n) => IsDelayed(m, l)
           /\ Safe(g, m, n) => Safe(g, m, l)
  <1>e. \A e \in Entry : e.attempt \in Nat
    BY ConstantsAssumption DEF Entry
  <1>1. \A i \in DOMAIN stream : stream[i].attempt \in Nat
    BY <1>e DEF TypeOK
  <1>2. \A e \in zset : e.attempt \in Nat
    BY <1>e DEF TypeOK
  <1>3. HasCopy(g, m, n) => HasCopy(g, m, l)
    BY <1>1 DEF HasCopy
  <1>4. IsDelayed(m, n) => IsDelayed(m, l)
    BY <1>2 DEF IsDelayed
  <1> QED
    BY <1>3, <1>4 DEF Safe

(* Growing steps preserve each part when they start no new obligation.     *)
LEMMA NoLossKept ==
    ASSUME Grows, NoLoss, UNCHANGED accepted
    PROVE  NoLoss'
  BY SafeGrows DEF NoLoss, Subscribed

LEMMA AckSafeKept ==
    ASSUME TypeOK, Grows, AckSafe,
           \A c \in Consumers, k \in Slots :
              slot'[c][k].pc = "ack" => slot[c][k] = slot'[c][k]
    PROVE  AckSafe'
  <1> SUFFICES ASSUME NEW c \in Consumers, NEW k \in Slots, slot'[c][k].pc = "ack",
                      Subscribed(GroupOf[c], TaskEntry(c, k)'.msg)
               PROVE  Safe(GroupOf[c], TaskEntry(c, k).msg, TaskEntry(c, k).attempt + 1)'
    BY DEF AckSafe, Subscribed
  <1>1. GroupOf[c] \in Groups
    BY ConstantsAssumption
  <1>2. slot[c][k] = slot'[c][k] /\ slot[c][k].pc = "ack" /\ slot[c][k].id \in DOMAIN stream
    BY DEF TypeOK
  <1>3. TaskEntry(c, k)' = TaskEntry(c, k)
    BY <1>2 DEF Grows, TaskEntry
  <1>4. Safe(GroupOf[c], TaskEntry(c, k).msg, TaskEntry(c, k).attempt + 1)
    BY <1>2, <1>3 DEF AckSafe
  <1>5. \A m, n : Safe(GroupOf[c], m, n) => Safe(GroupOf[c], m, n)'
    BY <1>1, SafeGrows
  <1> QED
    BY <1>3, <1>4, <1>5

LEMMA RemoveSafeKept ==
    ASSUME Grows, RemoveSafe,
           \A p \in Procs : life'[p] # "closed" =>
              \/ removing'[p] = {}
              \/ life[p] # "closed" /\ removing'[p] \subseteq removing[p]
    PROVE  RemoveSafe'
  BY SafeGrows DEF RemoveSafe, Subscribed

(* A step that leaves the storage, the tasks about to acknowledge and the  *)
(* members about to be removed alone.                                      *)
LEMMA QuietStep ==
    ASSUME NoLossInv,
           UNCHANGED <<stream, delivered, pel, zset, swallowed, handled, exhausted, accepted,
                       removing, life, slot>>
    PROVE  NoLoss' /\ AckSafe' /\ RemoveSafe'
  <1>1. Grows
    BY DEF Grows
  <1> QED
    BY <1>1, NoLossKept, AckSafeKept, RemoveSafeKept DEF NoLossInv

LEMMA NoLossInit == Init => NoLossInv
  <1> SUFFICES ASSUME Init PROVE NoLossInv
    OBVIOUS
  <1>1. NoLoss
    BY DEF Init, NoLoss
  <1>2. AckSafe
    BY DEF Init, AckSafe, Free
  <1>3. RemoveSafe
    BY DEF Init, RemoveSafe
  <1> QED
    BY <1>1, <1>2, <1>3, TypeInit DEF NoLossInv

(* XADD: the new entry is not delivered to any group.                      *)
LEMMA XAddStored ==
    ASSUME TypeOK, NEW e \in Entry, XAdd(e),
           UNCHANGED <<delivered, pel, zset, handled, exhausted>>,
           swallowed \subseteq swallowed'
    PROVE  Grows /\ \A g \in Groups : HasCopy(g, e.msg, e.attempt)'
  <1> stream \in Seq(Entry)
    BY DEF TypeOK
  <1>1. /\ Len(stream') = Len(stream) + 1 /\ Len(stream) \in Nat
        /\ DOMAIN stream = 1..Len(stream) /\ DOMAIN stream' = 1..Len(stream')
        /\ \A i \in 1..Len(stream) : stream'[i] = stream[i]
        /\ stream'[Len(stream) + 1] = e
    BY XAddGrows
  <1>2. Grows
    BY <1>1 DEF Grows
  <1>3. ASSUME NEW g \in Groups PROVE HasCopy(g, e.msg, e.attempt)'
    <2>1. delivered[g] \in 0..Len(stream) /\ e.attempt \in Nat
      BY ConstantsAssumption DEF TypeOK, Entry
    <2>2. Len(stream) + 1 \in DOMAIN stream' /\ delivered'[g] < Len(stream) + 1
      BY <1>1, <2>1
    <2> QED
      BY <1>1, <2>1, <2>2 DEF HasCopy
  <1> QED
    BY <1>2, <1>3

LEMMA NoLossPublish ==
    ASSUME NoLossInv, NEW p \in Procs, NEW m \in Msgs, Publish(p, m)
    PROVE  NoLoss' /\ AckSafe' /\ RemoveSafe'
  <1> TypeOK
    BY DEF NoLossInv
  <1> DEFINE e == [msg |-> m, attempt |-> 0]
  <1>e. e \in Entry /\ e.msg = m /\ e.attempt = 0
    BY ConstantsAssumption DEF Entry
  <1>1. PICK res \in Results :
           /\ IF Applied(res) THEN XAdd(e) ELSE UNCHANGED stream
           /\ accepted' = IF res = "ok" THEN [accepted EXCEPT ![m] = @ + 1] ELSE accepted
    BY DEF Publish
  <1>2. UNCHANGED <<delivered, pel, zset, handled, exhausted, swallowed, removing, life, slot>>
    BY DEF Publish, schedVars
  <1> HIDE DEF e
  <1>3. CASE Applied(res)
    <2>1. Grows /\ \A g \in Groups : HasCopy(g, m, 0)'
      BY <1>e, <1>1, <1>2, <1>3, XAddStored
    <2>2. NoLoss'
      <3> SUFFICES ASSUME NEW g \in Groups, NEW n \in Msgs, accepted'[n] > 0, Subscribed(g, n)
                   PROVE  Safe(g, n, 0)'
        BY DEF NoLoss, Subscribed
      <3>1. CASE n = m
        BY <2>1, <3>1 DEF Safe
      <3>2. CASE n # m
        <4>1. accepted[n] > 0
          BY <1>1, <3>2 DEF TypeOK
        <4>2. Safe(g, n, 0)
          BY <4>1 DEF NoLossInv, NoLoss
        <4> QED
          BY <2>1, <4>2, SafeGrows
      <3> QED
        BY <3>1, <3>2
    <2> QED
      BY <1>2, <2>1, <2>2, AckSafeKept, RemoveSafeKept DEF NoLossInv
  <1>4. CASE ~Applied(res)
    BY <1>1, <1>2, <1>4, QuietStep DEF Applied
  <1> QED
    BY <1>3, <1>4

LEMMA NoLossPublishDelay ==
    ASSUME NoLossInv, NEW p \in Procs, NEW m \in Msgs, PublishDelay(p, m)
    PROVE  NoLoss' /\ AckSafe' /\ RemoveSafe'
  <1> TypeOK
    BY DEF NoLossInv
  <1> DEFINE e == [msg |-> m, attempt |-> 0]
  <1>1. PICK res \in Results :
           /\ IF Applied(res) THEN ZAdd(e) ELSE UNCHANGED <<zset, due>>
           /\ accepted' = IF res = "ok" THEN [accepted EXCEPT ![m] = @ + 1] ELSE accepted
    BY DEF PublishDelay
  <1>2. UNCHANGED <<stream, delivered, pel, handled, exhausted, swallowed, removing, life, slot>>
    BY DEF PublishDelay, schedVars
  <1>3. CASE Applied(res)
    <2>1. Grows /\ IsDelayed(m, 0)'
      <3>1. zset' = zset \cup {e}
        BY <1>1, <1>3 DEF ZAdd
      <3>2. Grows
        BY <1>2, <3>1 DEF Grows
      <3>3. e \in zset' /\ e.msg = m /\ 0 <= e.attempt
        BY <3>1
      <3>4. IsDelayed(m, 0)'
        BY <3>3 DEF IsDelayed
      <3> QED
        BY <3>2, <3>4
    <2>2. NoLoss'
      <3> SUFFICES ASSUME NEW g \in Groups, NEW n \in Msgs, accepted'[n] > 0, Subscribed(g, n)
                   PROVE  Safe(g, n, 0)'
        BY DEF NoLoss, Subscribed
      <3>1. CASE n = m
        BY <2>1, <3>1 DEF Safe
      <3>2. CASE n # m
        <4>1. accepted[n] > 0
          BY <1>1, <3>2 DEF TypeOK
        <4>2. Safe(g, n, 0)
          BY <4>1 DEF NoLossInv, NoLoss
        <4> QED
          BY <2>1, <4>2, SafeGrows
      <3> QED
        BY <3>1, <3>2
    <2> QED
      BY <1>2, <2>1, <2>2, AckSafeKept, RemoveSafeKept DEF NoLossInv
  <1>4. CASE ~Applied(res)
    BY <1>1, <1>2, <1>4, QuietStep DEF Applied
  <1> QED
    BY <1>3, <1>4

LEMMA NoLossSchedStep ==
    ASSUME NoLossInv, NEW p \in Procs, SchedStep(p)
    PROVE  NoLoss' /\ AckSafe' /\ RemoveSafe'
  <1> TypeOK
    BY DEF NoLossInv
  <1>1. CASE SchedScan(p)
    BY <1>1, QuietStep DEF SchedScan, redisVars, historyVars
  <1>2. ASSUME NEW e \in taken[p], SchedPublish(p, e)
        PROVE  NoLoss' /\ AckSafe' /\ RemoveSafe'
    <2>e. e \in Entry
      BY DEF TypeOK
    <2>1. PICK res \in Results :
             /\ Call("xadd", ClientUsable(p), res)
             /\ IF Applied(res) THEN XAdd(e) ELSE UNCHANGED stream
             /\ swallowed' = IF ~Applied(res) /\ ClientUsable(p)
                             THEN swallowed \cup {e.msg} ELSE swallowed
      BY <1>2 DEF SchedPublish
    <2>2. /\ UNCHANGED <<delivered, pel, zset, handled, exhausted, accepted, life, slot>>
          /\ removing' = [removing EXCEPT ![p] = {e}]
      BY <1>2 DEF SchedPublish, loopVars
    <2>3. swallowed \subseteq swallowed'
      BY <2>1
    <2>4. /\ Grows
          /\ Applied(res) => \A g \in Groups : HasCopy(g, e.msg, e.attempt)'
      <3>1. CASE Applied(res)
        BY <2>e, <2>1, <2>2, <2>3, <3>1, XAddStored
      <3>2. CASE ~Applied(res)
        BY <2>1, <2>2, <2>3, <3>2 DEF Grows
      <3> QED
        BY <3>1, <3>2
    <2>5. RemoveSafe'
      <3> SUFFICES ASSUME NEW q \in Procs, life'[q] # "closed", NEW f \in removing'[q],
                          NEW g \in Groups, Subscribed(g, f.msg)
                   PROVE  \/ Settled(g, f.msg)'
                          \/ f.msg \in swallowed'
                          \/ HasCopy(g, f.msg, f.attempt)'
                          \/ IsDelayed(f.msg, f.attempt + 1)'
        BY DEF RemoveSafe, Subscribed
      <3>1. CASE q = p
        <4>1. f = e
          BY <2>2, <3>1 DEF TypeOK
        <4>2. CASE Applied(res)
          BY <2>4, <4>1, <4>2
        <4>3. CASE ~Applied(res)
          <5>1. ClientUsable(p)
            BY <2>2, <3>1 DEF ClientUsable, TypeOK
          <5> QED
            BY <2>1, <4>1, <4>3, <5>1
        <4> QED
          BY <4>2, <4>3
      <3>2. CASE q # p
        <4>1. f \in removing[q] /\ life[q] # "closed"
          BY <2>2, <3>2 DEF TypeOK
        <4>2. \/ Settled(g, f.msg)
              \/ f.msg \in swallowed
              \/ HasCopy(g, f.msg, f.attempt)
              \/ IsDelayed(f.msg, f.attempt + 1)
          BY <4>1 DEF NoLossInv, RemoveSafe
        <4> QED
          BY <2>4, <4>2, SafeGrows
      <3> QED
        BY <3>1, <3>2
    <2> QED
      BY <2>2, <2>4, <2>5, NoLossKept, AckSafeKept DEF NoLossInv
  <1>3. ASSUME NEW e \in removing[p], SchedRemove(p, e)
        PROVE  NoLoss' /\ AckSafe' /\ RemoveSafe'
    <2>e. e \in Entry /\ e.attempt \in Nat /\ e.attempt + 1 \in Nat
      BY ConstantsAssumption DEF TypeOK, Entry
    <2>1. PICK res \in Results :
             /\ Call("zrem", ClientUsable(p), res)
             /\ IF Applied(res) THEN ZRem(e) ELSE UNCHANGED <<zset, due>>
      BY <1>3 DEF SchedRemove
    <2>2. /\ UNCHANGED <<stream, delivered, pel, handled, exhausted, swallowed, accepted, life,
                         slot>>
          /\ removing' = [removing EXCEPT ![p] = {}]
      BY <1>3 DEF SchedRemove, loopVars, historyVars
    <2>r. \A q \in Procs : removing'[q] \subseteq removing[q]
      BY <2>2 DEF TypeOK
    <2>3. CASE ~Applied(res)
      <3>1. Grows
        BY <2>1, <2>2, <2>3 DEF Grows
      <3> QED
        BY <2>2, <2>r, <3>1, NoLossKept, AckSafeKept, RemoveSafeKept DEF NoLossInv
    <2>4. CASE Applied(res)
      <3>1. life[p] # "closed" /\ zset' = zset \ {e}
        BY <2>1, <2>4 DEF Call, Applied, ClientUsable, ZRem
      (* What RemoveSafe promises about e survives its removal.            *)
      <3>2. ASSUME NEW g \in Groups, Subscribed(g, e.msg)
            PROVE  \/ Settled(g, e.msg)
                   \/ e.msg \in swallowed
                   \/ HasCopy(g, e.msg, e.attempt)
                   \/ \E f \in zset' : f.msg = e.msg /\ e.attempt + 1 <= f.attempt
        <4>1. \/ Settled(g, e.msg)
              \/ e.msg \in swallowed
              \/ HasCopy(g, e.msg, e.attempt)
              \/ IsDelayed(e.msg, e.attempt + 1)
          BY <3>1, <3>2 DEF NoLossInv, RemoveSafe
        <4>2. IsDelayed(e.msg, e.attempt + 1) =>
                 \E f \in zset' : f.msg = e.msg /\ e.attempt + 1 <= f.attempt
          BY <2>e, <3>1 DEF IsDelayed
        <4> QED
          BY <4>1, <4>2
      (* So a delayed copy at attempt n may be e only where e can go.      *)
      <3>3. ASSUME NEW g \in Groups, NEW m, NEW n \in Nat, Subscribed(g, m), IsDelayed(m, n)
            PROVE  Settled(g, m) \/ m \in swallowed \/ HasCopy(g, m, n) \/ IsDelayed(m, n)'
        <4>1. PICK f \in zset : f.msg = m /\ n <= f.attempt
          BY <3>3 DEF IsDelayed
        <4>2. CASE f # e
          BY <3>1, <4>1, <4>2 DEF IsDelayed
        <4>3. CASE f = e
          <5>1. HasCopy(g, m, e.attempt) => HasCopy(g, m, n)
            BY <2>e, <4>1, <4>3, SafeWeaken
          <5>2. ASSUME NEW h \in zset', h.msg = e.msg, e.attempt + 1 <= h.attempt
                PROVE  IsDelayed(m, n)'
            <6>1. h \in Entry
              BY <3>1 DEF TypeOK
            <6>2. n <= h.attempt
              BY <2>e, <4>1, <4>3, <5>2, <6>1, ConstantsAssumption DEF Entry
            <6> QED
              BY <4>1, <4>3, <5>2, <6>2 DEF IsDelayed
          <5> QED
            BY <3>2, <3>3, <4>1, <4>3, <5>1, <5>2
        <4> QED
          BY <4>2, <4>3
      <3>4. \A g \in Groups : \A m, n :
               /\ Settled(g, m)' = Settled(g, m)
               /\ HasCopy(g, m, n)' = HasCopy(g, m, n)
        BY <2>2 DEF Settled, HasCopy
      <3>5. ASSUME NEW g \in Groups, NEW m, NEW n \in Nat, Subscribed(g, m), Safe(g, m, n)
            PROVE  Safe(g, m, n)'
        BY <2>2, <3>3, <3>4, <3>5 DEF Safe
      <3>6. NoLoss'
        BY <2>2, <3>5 DEF NoLossInv, NoLoss, Subscribed
      <3>7. AckSafe'
        <4> SUFFICES ASSUME NEW c \in Consumers, NEW k \in Slots, slot[c][k].pc = "ack",
                            Subscribed(GroupOf[c], TaskEntry(c, k).msg)
                     PROVE  Safe(GroupOf[c], TaskEntry(c, k).msg, TaskEntry(c, k).attempt + 1)'
          BY <2>2 DEF AckSafe, Subscribed, TaskEntry
        <4>1. GroupOf[c] \in Groups /\ TaskEntry(c, k).attempt + 1 \in Nat
          BY ConstantsAssumption, TaskEntryType DEF Entry
        <4>2. Safe(GroupOf[c], TaskEntry(c, k).msg, TaskEntry(c, k).attempt + 1)
          BY DEF NoLossInv, AckSafe
        <4>3. TaskEntry(c, k)' = TaskEntry(c, k)
          BY <2>2 DEF TaskEntry
        <4> QED
          BY <3>5, <4>1, <4>2, <4>3
      <3>8. RemoveSafe'
        <4> SUFFICES ASSUME NEW q \in Procs, life[q] # "closed", NEW f \in removing[q],
                            NEW g \in Groups, Subscribed(g, f.msg)
                     PROVE  \/ Settled(g, f.msg)'
                            \/ f.msg \in swallowed'
                            \/ HasCopy(g, f.msg, f.attempt)'
                            \/ IsDelayed(f.msg, f.attempt + 1)'
          BY <2>2, <2>r DEF RemoveSafe, Subscribed
        <4>1. f.attempt \in Nat /\ f.attempt + 1 \in Nat
          BY ConstantsAssumption DEF TypeOK, Entry
        <4>2. \/ Settled(g, f.msg)
              \/ f.msg \in swallowed
              \/ HasCopy(g, f.msg, f.attempt)
              \/ IsDelayed(f.msg, f.attempt + 1)
          BY DEF NoLossInv, RemoveSafe
        <4>3. HasCopy(g, f.msg, f.attempt + 1) => HasCopy(g, f.msg, f.attempt)
          BY <4>1, SafeWeaken
        <4> QED
          BY <2>2, <3>3, <3>4, <4>1, <4>2, <4>3
      <3> QED
        BY <3>6, <3>7, <3>8
    <2> QED
      BY <2>3, <2>4
  <1>4. CASE SchedExit(p)
    BY <1>4, QuietStep DEF SchedExit, redisVars, historyVars
  <1> QED
    BY <1>1, <1>2, <1>3, <1>4 DEF SchedStep

LEMMA NoLossConsume ==
    ASSUME NoLossInv, NEW c \in Consumers, Consume(c) \/ Stop(c)
    PROVE  NoLoss' /\ AckSafe' /\ RemoveSafe'
  <1> TypeOK
    BY DEF NoLossInv
  <1>1. CASE Consume(c)
    <2>1. UNCHANGED <<stream, pel, zset, swallowed, handled, exhausted, accepted, removing, life,
                      slot>>
      BY <1>1 DEF Consume, schedVars, historyVars
    <2>2. \A g \in Groups : delivered'[g] <= delivered[g] /\ delivered'[g] \in Nat
      <3>1. \/ UNCHANGED delivered
            \/ delivered' = [delivered EXCEPT ![GroupOf[c]] = 0]
        BY <1>1 DEF Consume, GroupStart
      <3>2. /\ delivered \in [Groups -> 0..Len(stream)]
            /\ \A g \in Groups : delivered[g] \in Nat /\ 0 <= delivered[g]
        BY DEF TypeOK
      <3>3. \A g \in Groups : delivered'[g] = delivered[g] \/ delivered'[g] = 0
        BY <3>1, <3>2
      <3> QED
        BY <3>2, <3>3
    <2>3. Grows
      <3>1. \A g \in Groups, i \in DOMAIN stream : delivered[g] < i => delivered'[g] < i
        <4>1. \A i \in DOMAIN stream : i \in Nat
          BY DEF TypeOK
        <4>2. \A g \in Groups : delivered[g] \in Nat
          BY DEF TypeOK
        <4> QED
          BY <2>2, <4>1, <4>2
      <3> QED
        BY <2>1, <3>1 DEF Grows
    <2> QED
      BY <2>1, <2>3, NoLossKept, AckSafeKept, RemoveSafeKept DEF NoLossInv
  <1>2. CASE Stop(c)
    BY <1>2, QuietStep DEF Stop, redisVars, schedVars, historyVars
  <1> QED
    BY <1>1, <1>2

LEMMA NoLossLoopStep ==
    ASSUME NoLossInv, NEW c \in Consumers, LoopStep(c)
    PROVE  NoLoss' /\ AckSafe' /\ RemoveSafe'
  <1> TypeOK
    BY DEF NoLossInv
  <1>1. CASE AutoClaim(c)
    BY <1>1, QuietStep DEF AutoClaim, schedVars, historyVars
  <1>2. CASE AutoClaimUnknown(c)
    BY <1>2, QuietStep DEF AutoClaimUnknown, redisVars, schedVars, historyVars
  <1>3. CASE ReadGroup(c)
    <2> DEFINE g == GroupOf[c]
    <2>g. g \in Groups
      BY ConstantsAssumption
    <2>1. UNCHANGED <<stream, zset, swallowed, handled, exhausted, accepted, removing, life, slot>>
      BY <1>3 DEF ReadGroup, schedVars, historyVars
    <2>2. \/ UNCHANGED <<delivered, pel>>
          \/ /\ delivered' = [delivered EXCEPT ![g] =
                                 IF @ + Concurrency <= Len(stream)
                                 THEN @ + Concurrency ELSE Len(stream)]
             /\ pel' = [pel EXCEPT ![g] = @ \cup NewIds(g)]
      BY <1>3 DEF ReadGroup
    <2> HIDE DEF g
    (* What is delivered becomes pending in the same command.              *)
    <2>3. ASSUME NEW h \in Groups, NEW i \in DOMAIN stream, delivered[h] < i \/ i \in pel[h]
          PROVE  delivered'[h] < i \/ i \in pel'[h]
      <3>t. /\ delivered \in [Groups -> 0..Len(stream)]
            /\ pel \in [Groups -> SUBSET (1..Len(stream))]
            /\ i \in 1..Len(stream) /\ Len(stream) \in Nat
        BY DEF TypeOK
      <3>1. CASE UNCHANGED <<delivered, pel>> \/ h # g
        BY <2>2, <2>3, <3>1, <3>t
      <3>2. CASE /\ h = g
                 /\ delivered' = [delivered EXCEPT ![g] =
                                    IF @ + Concurrency <= Len(stream)
                                    THEN @ + Concurrency ELSE Len(stream)]
                 /\ pel' = [pel EXCEPT ![g] = @ \cup NewIds(g)]
        <4>1. pel'[g] = pel[g] \cup NewIds(g)
          BY <2>g, <3>2, <3>t
        <4>2. delivered'[g] <= delivered[g] + Concurrency /\ delivered'[g] \in Nat
          BY <2>g, <3>2, <3>t, ConstantsAssumption
        <4>3. CASE delivered[g] < i /\ i <= delivered[g] + Concurrency
          BY <3>2, <4>1, <4>3 DEF NewIds
        <4>4. CASE delivered[g] + Concurrency < i
          BY <2>g, <3>2, <3>t, <4>2, <4>4, ConstantsAssumption
        <4>5. CASE i \in pel[g]
          BY <3>2, <4>1, <4>5
        <4> QED
          BY <2>g, <2>3, <3>2, <3>t, <4>3, <4>4, <4>5, ConstantsAssumption
      <3> QED
        BY <2>2, <3>1, <3>2
    <2>4. Grows
      BY <2>1, <2>3 DEF Grows
    <2> QED
      BY <2>1, <2>4, NoLossKept, AckSafeKept, RemoveSafeKept DEF NoLossInv
  <1>4. ASSUME NEW k \in Slots, Dispatch(c, k)
        PROVE  NoLoss' /\ AckSafe' /\ RemoveSafe'
    <2>1. UNCHANGED <<stream, delivered, pel, zset, swallowed, handled, exhausted, accepted,
                      removing, life>>
      BY <1>4 DEF Dispatch, redisVars, schedVars, historyVars
    <2>2. Grows
      BY <2>1 DEF Grows
    <2>3. PICK i \in fetched[c] : slot' = [slot EXCEPT ![c][k] =
                [pc |-> IF stream[i].msg \in Matches[c] THEN "exec" ELSE "ack", id |-> i]]
      BY <1>4 DEF Dispatch
    <2>4. AckSafe'
      <3> SUFFICES ASSUME NEW d \in Consumers, NEW l \in Slots, slot'[d][l].pc = "ack",
                          Subscribed(GroupOf[d], TaskEntry(d, l)'.msg)
                   PROVE  Safe(GroupOf[d], TaskEntry(d, l).msg, TaskEntry(d, l).attempt + 1)'
        BY DEF AckSafe, Subscribed
      <3>1. CASE d = c /\ l = k
        <4>1. slot'[d][l] = [pc |-> IF stream[i].msg \in Matches[c] THEN "exec" ELSE "ack",
                             id |-> i]
          BY <2>3, <3>1 DEF TypeOK
        <4>2. stream[i].msg \notin Matches[c]
          BY <4>1
        <4>3. TaskEntry(d, l)' = stream[i]
          BY <2>1, <4>1 DEF TaskEntry
        <4> QED
          BY <3>1, <4>2, <4>3 DEF Subscribed
      <3>2. CASE ~(d = c /\ l = k)
        <4>1. slot'[d][l] = slot[d][l]
          BY <2>3, <3>2 DEF TypeOK
        <4>2. TaskEntry(d, l)' = TaskEntry(d, l)
          BY <2>1, <4>1 DEF TaskEntry
        <4>3. Safe(GroupOf[d], TaskEntry(d, l).msg, TaskEntry(d, l).attempt + 1)
          BY <4>1, <4>2 DEF NoLossInv, AckSafe
        <4>4. GroupOf[d] \in Groups
          BY ConstantsAssumption
        <4>5. \A m, n : Safe(GroupOf[d], m, n) => Safe(GroupOf[d], m, n)'
          BY <2>2, <4>4, SafeGrows
        <4> QED
          BY <4>2, <4>3, <4>5
      <3> QED
        BY <3>1, <3>2
    <2> QED
      BY <2>1, <2>2, <2>4, NoLossKept, RemoveSafeKept DEF NoLossInv
  <1>5. CASE LoopExit(c)
    BY <1>5, QuietStep DEF LoopExit, redisVars, schedVars, historyVars
  <1>6. CASE LoopDone(c)
    BY <1>6, QuietStep DEF LoopDone, redisVars, schedVars, historyVars
  <1> QED
    BY <1>1, <1>2, <1>3, <1>4, <1>5, <1>6 DEF LoopStep

LEMMA NoLossLifeStep ==
    ASSUME NoLossInv, NEW p \in Procs,
           Close(p) \/ CloseDone(p) \/ CloseTimeout(p) \/ Crash(p) \/ Restart(p)
    PROVE  NoLoss' /\ AckSafe' /\ RemoveSafe'
  <1> TypeOK
    BY DEF NoLossInv
  <1>1. UNCHANGED <<stream, delivered, pel, zset, swallowed, handled, exhausted, accepted>>
    BY DEF Close, CloseDone, CloseTimeout, Crash, Restart, redisVars, historyVars
  <1>2. Grows
    BY <1>1 DEF Grows
  <1>3. \A c \in Consumers, k \in Slots : slot'[c][k].pc = "ack" => slot[c][k] = slot'[c][k]
    <2>1. CASE Crash(p)
      <3>1. slot' = [c \in Consumers |-> IF ProcOf[c] = p THEN [k \in Slots |-> Free] ELSE slot[c]]
        BY <2>1 DEF Crash
      <3> QED
        BY <3>1 DEF Free
    <2>2. CASE ~Crash(p)
      BY <2>2 DEF Close, CloseDone, CloseTimeout, Restart
    <2> QED
      BY <2>1, <2>2
  <1>4. \A q \in Procs : life'[q] # "closed" =>
           removing'[q] = {} \/ (life[q] # "closed" /\ removing'[q] \subseteq removing[q])
    <2>1. CASE Crash(p)
      BY <2>1 DEF Crash, TypeOK
    <2>2. CASE ~Crash(p)
      BY <2>2 DEF Close, CloseDone, CloseTimeout, Restart, schedVars, TypeOK
    <2> QED
      BY <2>1, <2>2
  <1> QED
    BY <1>1, <1>2, <1>3, <1>4, NoLossKept, AckSafeKept, RemoveSafeKept DEF NoLossInv

LEMMA NoLossTimeStep ==
    ASSUME NoLossInv, TimeStep
    PROVE  NoLoss' /\ AckSafe' /\ RemoveSafe'
  BY QuietStep DEF TimeStep, BecomeDue, BecomeIdle, schedVars, historyVars

(* A goroutine's step that keeps what is stored and goes on to acknowledge *)
(* only a message that is safe without its entry.                          *)
LEMMA TaskGrows ==
    ASSUME NoLossInv, Grows, NEW c \in Consumers, NEW k \in Slots,
           UNCHANGED <<stream, accepted, removing, life>>,
           slot[c][k].pc # "free",
           \/ EndTask(c, k)
           \/ SetTask(c, k, "retry")
           \/ /\ SetTask(c, k, "ack")
              /\ Safe(GroupOf[c], TaskEntry(c, k).msg, TaskEntry(c, k).attempt + 1)'
    PROVE  NoLoss' /\ AckSafe' /\ RemoveSafe'
  <1> TypeOK
    BY DEF NoLossInv
  <1>t. slot \in [Consumers -> [Slots -> Task]]
    BY DEF TypeOK
  <1>1. AckSafe'
    <2> SUFFICES ASSUME NEW d \in Consumers, NEW l \in Slots, slot'[d][l].pc = "ack",
                        Subscribed(GroupOf[d], TaskEntry(d, l)'.msg)
                 PROVE  Safe(GroupOf[d], TaskEntry(d, l).msg, TaskEntry(d, l).attempt + 1)'
      BY DEF AckSafe, Subscribed
    <2>1. CASE d = c /\ l = k
      <3>1. SetTask(c, k, "ack")
        BY <1>t, <2>1, EndTaskSlot, SetTaskSlot
      <3>2. ~EndTask(c, k) /\ ~SetTask(c, k, "retry")
        BY <1>t, <2>1, EndTaskSlot, SetTaskSlot
      <3> QED
        BY <2>1, <3>2
    <2>2. CASE ~(d = c /\ l = k)
      <3>1. slot'[d][l] = slot[d][l]
        BY <1>t, <2>2, EndTaskSlot, SetTaskSlot
      <3>2. TaskEntry(d, l)' = TaskEntry(d, l)
        BY <3>1 DEF TaskEntry
      <3>3. Safe(GroupOf[d], TaskEntry(d, l).msg, TaskEntry(d, l).attempt + 1)
        BY <3>1, <3>2 DEF NoLossInv, AckSafe
      <3>4. GroupOf[d] \in Groups
        BY ConstantsAssumption
      <3>5. \A m, n : Safe(GroupOf[d], m, n) => Safe(GroupOf[d], m, n)'
        BY <3>4, SafeGrows
      <3> QED
        BY <3>2, <3>3, <3>5
    <2> QED
      BY <2>1, <2>2
  <1> QED
    BY <1>1, NoLossKept, RemoveSafeKept DEF NoLossInv

LEMMA NoLossHandler ==
    ASSUME NoLossInv, NEW c \in Consumers, NEW k \in Slots,
           HandlerOk(c, k) \/ HandlerErr(c, k) \/ Retry(c, k)
    PROVE  NoLoss' /\ AckSafe' /\ RemoveSafe'
  <1> TypeOK
    BY DEF NoLossInv
  <1>b. slot[c][k].pc # "free"
    BY DEF HandlerOk, HandlerErr, Retry
  <1>e. TaskEntry(c, k) \in Entry /\ GroupOf[c] \in Groups
    BY <1>b, TaskEntryType, ConstantsAssumption
  <1>i. SetTask(c, k, "ack") /\ UNCHANGED stream => TaskEntry(c, k)' = TaskEntry(c, k)
    BY SetTaskSlot DEF TypeOK, TaskEntry
  <1>1. CASE HandlerOk(c, k)
    <2>1. /\ UNCHANGED <<stream, delivered, pel, zset, swallowed, exhausted, accepted, removing,
                         life>>
          /\ handled' = [handled EXCEPT ![GroupOf[c]] = @ \cup {TaskEntry(c, k).msg}]
          /\ SetTask(c, k, "ack")
      BY <1>1 DEF HandlerOk, redisVars, schedVars
    <2>2. Grows
      BY <2>1 DEF Grows, TypeOK
    <2>3. TaskEntry(c, k).msg \in handled'[GroupOf[c]]
      BY <1>e, <2>1 DEF TypeOK
    <2>4. Safe(GroupOf[c], TaskEntry(c, k).msg, TaskEntry(c, k).attempt + 1)'
      BY <1>i, <2>1, <2>3 DEF Safe, Settled
    <2> QED
      BY <1>b, <2>1, <2>2, <2>4, TaskGrows
  <1>2. CASE HandlerErr(c, k)
    <2>1. UNCHANGED <<stream, delivered, pel, zset, swallowed, handled, accepted, removing, life>>
      BY <1>2 DEF HandlerErr, redisVars, schedVars
    <2>2. CASE RetryAllowed(TaskEntry(c, k))
      <3>1. SetTask(c, k, "retry") /\ UNCHANGED exhausted
        BY <1>2, <2>2 DEF HandlerErr
      <3>2. Grows
        BY <2>1, <3>1 DEF Grows
      <3> QED
        BY <1>b, <2>1, <3>1, <3>2, TaskGrows
    <2>3. CASE ~RetryAllowed(TaskEntry(c, k))
      <3>1. /\ SetTask(c, k, "ack")
            /\ exhausted' = [exhausted EXCEPT ![GroupOf[c]] = @ \cup {TaskEntry(c, k).msg}]
        BY <1>2, <2>3 DEF HandlerErr
      <3>2. Grows
        BY <2>1, <3>1 DEF Grows, TypeOK
      <3>3. TaskEntry(c, k).msg \in exhausted'[GroupOf[c]]
        BY <1>e, <3>1 DEF TypeOK
      <3>4. Safe(GroupOf[c], TaskEntry(c, k).msg, TaskEntry(c, k).attempt + 1)'
        BY <1>i, <2>1, <3>1, <3>3 DEF Safe, Settled
      <3> QED
        BY <1>b, <2>1, <3>1, <3>2, <3>4, TaskGrows
    <2> QED
      BY <2>2, <2>3
  <1>3. CASE Retry(c, k)
    <2> DEFINE r == [TaskEntry(c, k) EXCEPT !.attempt = @ + 1]
    <2>1. PICK res \in Results :
             /\ IF Applied(res) THEN ZAdd(r) ELSE UNCHANGED <<zset, due>>
             /\ IF RetryStored(res) THEN SetTask(c, k, "ack") ELSE EndTask(c, k)
      BY <1>3 DEF Retry
    <2>2. UNCHANGED <<stream, delivered, pel, swallowed, handled, exhausted, accepted, removing,
                      life>>
      BY <1>3 DEF Retry, schedVars, historyVars
    <2>3. r.msg = TaskEntry(c, k).msg /\ r.attempt = TaskEntry(c, k).attempt + 1 /\ r.attempt \in Nat
      <3>1. RetryAllowed(TaskEntry(c, k))
        BY <1>3 DEF Retry, TypeOK
      <3> QED
        BY <1>e, <3>1, RetryCopy, ConstantsAssumption DEF Entry
    <2> HIDE DEF r
    <2>4. Grows
      BY <2>1, <2>2 DEF ZAdd, Grows
    <2>5. CASE RetryStored(res)
      <3>1. r \in zset' /\ SetTask(c, k, "ack")
        BY <2>1, <2>5 DEF RetryStored, Applied, ZAdd
      <3>2. \E e \in zset' : /\ e.msg = TaskEntry(c, k).msg
                             /\ TaskEntry(c, k).attempt + 1 <= e.attempt
        BY <2>3, <3>1
      <3>3. Safe(GroupOf[c], TaskEntry(c, k).msg, TaskEntry(c, k).attempt + 1)'
        BY <1>i, <2>2, <3>1, <3>2 DEF Safe, IsDelayed
      <3> QED
        BY <1>b, <2>2, <2>4, <3>1, <3>3, TaskGrows
    <2>6. CASE ~RetryStored(res)
      BY <1>b, <2>1, <2>2, <2>4, <2>6, TaskGrows
    <2> QED
      BY <2>5, <2>6
  <1> QED
    BY <1>1, <1>2, <1>3

LEMMA NoLossAck ==
    ASSUME NoLossInv, NEW c \in Consumers, NEW k \in Slots, Ack(c, k)
    PROVE  NoLoss' /\ AckSafe' /\ RemoveSafe'
  <1> TypeOK
    BY DEF NoLossInv
  <1> DEFINE g == GroupOf[c]
             i == slot[c][k].id
             x == stream[i]
  <1>b. slot[c][k].pc = "ack"
    BY DEF Ack
  <1>e. /\ g \in Groups /\ x \in Entry /\ x = TaskEntry(c, k)
        /\ x.attempt \in Nat /\ x.attempt + 1 \in Nat
    BY <1>b, TaskEntryType, ConstantsAssumption DEF Entry, TaskEntry
  <1>1. PICK res \in Results : IF Applied(res) THEN XAck(g, i) ELSE UNCHANGED <<pel, idle>>
    BY DEF Ack
  <1>2. /\ UNCHANGED <<stream, delivered, zset, swallowed, handled, exhausted, accepted, removing,
                       life>>
        /\ EndTask(c, k)
    BY DEF Ack, schedVars, historyVars
  <1>3. CASE ~Applied(res)
    <2>1. Grows
      BY <1>1, <1>2, <1>3 DEF Grows
    <2> QED
      BY <1>b, <1>2, <2>1, TaskGrows
  <1>4. CASE Applied(res)
    <2>1. pel' = [pel EXCEPT ![g] = @ \ {i}]
      BY <1>1, <1>4 DEF XAck
    <2>a. Subscribed(g, x.msg) => Safe(g, x.msg, x.attempt + 1)
      BY <1>b, <1>e DEF NoLossInv, AckSafe
    <2> HIDE DEF g, i
    (* Only copy i of group g goes away.                                   *)
    <2>2. ASSUME NEW h \in Groups, NEW m, NEW n \in Nat, Subscribed(h, m), HasCopy(h, m, n),
                 ~HasCopy(h, m, n)'
          PROVE  h = g /\ m = x.msg /\ n <= x.attempt
      <3>1. PICK j \in DOMAIN stream :
               /\ delivered[h] < j \/ j \in pel[h]
               /\ stream[j].msg = m
               /\ n <= stream[j].attempt
        BY <2>2 DEF HasCopy
      <3>2. ~(delivered[h] < j) /\ j \in pel[h] /\ j \notin pel'[h]
        BY <1>2, <2>2, <3>1 DEF HasCopy
      <3>3. h = g /\ j = i
        BY <1>e, <2>1, <3>2 DEF TypeOK
      <3> QED
        BY <3>1, <3>3
    (* A copy of a later attempt than i's is another one.                  *)
    <2>3. ASSUME NEW h \in Groups, NEW m, NEW n \in Nat, x.attempt < n, Subscribed(h, m),
                 HasCopy(h, m, n)
          PROVE  HasCopy(h, m, n)'
      BY <1>e, <2>2, <2>3
    <2>4. \A h \in Groups : \A m, n :
             Settled(h, m)' = Settled(h, m) /\ IsDelayed(m, n)' = IsDelayed(m, n)
      BY <1>2 DEF Settled, IsDelayed
    (* So HasCopy(n) gives a copy that stays or a later attempt.           *)
    <2>5. ASSUME NEW h \in Groups, NEW m, NEW n \in Nat, Subscribed(h, m), HasCopy(h, m, n)
          PROVE  \/ Settled(h, m) \/ m \in swallowed \/ HasCopy(h, m, n)'
                 \/ IsDelayed(m, n + 1)
      <3>1. CASE HasCopy(h, m, n)'
        BY <3>1
      <3>2. CASE ~HasCopy(h, m, n)'
        <4>1. h = g /\ m = x.msg /\ n <= x.attempt
          BY <2>2, <2>5, <3>2
        <4>n. PICK l \in Nat : l = x.attempt + 1 /\ x.attempt < l /\ n + 1 <= l /\ n <= l
          BY <1>e, <4>1
        <4>2. Safe(h, m, l)
          BY <2>a, <2>5, <4>1, <4>n
        <4>3. /\ HasCopy(h, m, l) => HasCopy(h, m, l)'
              /\ IsDelayed(m, l) => IsDelayed(m, n + 1)
          <5>1. n + 1 \in Nat
            OBVIOUS
          <5> QED
            BY <2>3, <2>5, <4>n, <5>1, SafeWeaken
        <4>4. HasCopy(h, m, l)' => HasCopy(h, m, n)'
          <5>1. \A j \in DOMAIN stream' : stream'[j].attempt \in Nat
            <6>1. \A f \in Entry : f.attempt \in Nat
              BY ConstantsAssumption DEF Entry
            <6> QED
              BY <1>2, <6>1 DEF TypeOK
          <5>2. \A a \in Nat : l <= a => n <= a
            BY <4>n
          <5> QED
            BY <5>1, <5>2 DEF HasCopy
        <4> QED
          BY <3>2, <4>2, <4>3, <4>4 DEF Safe
      <3> QED
        BY <3>1, <3>2
    <2>6. ASSUME NEW h \in Groups, NEW m, NEW n \in Nat, Subscribed(h, m), Safe(h, m, n)
          PROVE  Safe(h, m, n)'
      <3>1. IsDelayed(m, n + 1) => IsDelayed(m, n)
        BY SafeWeaken, <2>6
      <3> QED
        BY <1>2, <2>4, <2>5, <2>6, <3>1 DEF Safe
    <2>7. NoLoss'
      BY <1>2, <2>6 DEF NoLossInv, NoLoss, Subscribed
    <2>8. AckSafe'
      <3> SUFFICES ASSUME NEW d \in Consumers, NEW l \in Slots, slot'[d][l].pc = "ack",
                          Subscribed(GroupOf[d], TaskEntry(d, l)'.msg)
                   PROVE  Safe(GroupOf[d], TaskEntry(d, l).msg, TaskEntry(d, l).attempt + 1)'
        BY DEF AckSafe, Subscribed
      <3>1. slot'[d][l] = slot[d][l]
        BY <1>2, EndTaskSlot DEF TypeOK
      <3>2. TaskEntry(d, l)' = TaskEntry(d, l) /\ slot[d][l].pc = "ack"
        BY <1>2, <3>1 DEF TaskEntry
      <3>3. Safe(GroupOf[d], TaskEntry(d, l).msg, TaskEntry(d, l).attempt + 1)
        BY <3>2 DEF NoLossInv, AckSafe
      <3>4. GroupOf[d] \in Groups /\ TaskEntry(d, l).attempt + 1 \in Nat
        BY <3>2, TaskEntryType, ConstantsAssumption DEF Entry
      <3> QED
        BY <2>6, <3>2, <3>3, <3>4
    <2>9. RemoveSafe'
      <3> SUFFICES ASSUME NEW q \in Procs, life[q] # "closed", NEW f \in removing[q],
                          NEW h \in Groups, Subscribed(h, f.msg)
                   PROVE  \/ Settled(h, f.msg)'
                          \/ f.msg \in swallowed'
                          \/ HasCopy(h, f.msg, f.attempt)'
                          \/ IsDelayed(f.msg, f.attempt + 1)'
        BY <1>2 DEF RemoveSafe, Subscribed
      <3>1. f.attempt \in Nat
        BY ConstantsAssumption DEF TypeOK, Entry
      <3>2. \/ Settled(h, f.msg)
            \/ f.msg \in swallowed
            \/ HasCopy(h, f.msg, f.attempt)
            \/ IsDelayed(f.msg, f.attempt + 1)
        BY DEF NoLossInv, RemoveSafe
      <3> QED
        BY <1>2, <2>4, <2>5, <3>1, <3>2
    <2> QED
      BY <2>7, <2>8, <2>9
  <1> QED
    BY <1>3, <1>4

LEMMA NoLossNext == NoLossInv /\ [Next]_vars => NoLossInv'
  <1> SUFFICES ASSUME NoLossInv, [Next]_vars PROVE NoLossInv'
    OBVIOUS
  <1>1. TypeOK'
    BY TypeNext DEF NoLossInv
  <1>2. CASE UNCHANGED vars
    BY <1>1, <1>2, QuietStep DEF NoLossInv, vars, redisVars, schedVars, historyVars
  <1>3. CASE Next
    <2>1. ASSUME NEW c \in Consumers, NEW k \in Slots, TaskStep(c, k)
          PROVE  NoLoss' /\ AckSafe' /\ RemoveSafe'
      BY <2>1, NoLossHandler, NoLossAck DEF TaskStep
    <2>2. NoLoss' /\ AckSafe' /\ RemoveSafe'
      BY <1>3, <2>1, NoLossPublish, NoLossPublishDelay, NoLossSchedStep, NoLossConsume,
         NoLossLoopStep, NoLossLifeStep, NoLossTimeStep DEF Next
    <2> QED
      BY <1>1, <2>2 DEF NoLossInv
  <1> QED
    BY <1>2, <1>3

(* In every behaviour of the adapter, with any number of instances, groups *)
(* and consumers and any failures, crashes, redeliveries and stops, a      *)
(* message whose publish returned nil is not lost for a group that         *)
(* subscribes to it, except by a failing XADD of the delay scheduler.      *)
THEOREM NothingLost == Spec => []NoLoss
  <1>1. NoLossInv => NoLoss
    BY DEF NoLossInv
  <1> QED
    BY <1>1, NoLossInit, NoLossNext, PTL DEF Spec

-----------------------------------------------------------------------------
(* The attempts a group has before it.                                     *)

(* A copy of entry e the group still has to receive or to acknowledge.     *)
InStream(g, e) ==
    \E i \in DOMAIN stream : (delivered[g] < i \/ i \in pel[g]) /\ stream[i] = e

LEMMA OutstandingMember ==
    ASSUME NEW g \in Groups, NEW e
    PROVE  /\ e \in Outstanding(g) <=> InStream(g, e) \/ e \in zset
           /\ e \in Outstanding(g)' <=> InStream(g, e)' \/ e \in zset'
  BY DEF Outstanding, InStream

LEMMA OutstandingType ==
    ASSUME TypeOK, NEW g \in Groups
    PROVE  Outstanding(g) \subseteq Entry
  BY DEF Outstanding, TypeOK

LEMMA OutstandingNextType ==
    ASSUME TypeOK', NEW g \in Groups
    PROVE  Outstanding(g)' \subseteq Entry
  BY DEF Outstanding, TypeOK

LEMMA EntryAttempt ==
    ASSUME NEW e \in Entry
    PROVE  e.msg \in Msgs /\ e.attempt \in Nat
  BY ConstantsAssumption DEF Entry

(* The messages a group is through with.                                   *)
Through(g, m) == Settled(g, m) \/ m \in swallowed

HasAttempt(g, m, n) == \E e \in Outstanding(g) : e.msg = m /\ n <= e.attempt

LEMMA HasAttemptMeans ==
    ASSUME NEW g \in Groups, NEW m, NEW n
    PROVE  /\ HasAttempt(g, m, n) <=> HasCopy(g, m, n) \/ IsDelayed(m, n)
           /\ HasAttempt(g, m, n)' <=> HasCopy(g, m, n)' \/ IsDelayed(m, n)'
  BY OutstandingMember DEF HasAttempt, HasCopy, IsDelayed, InStream

LEMMA SafeMeans ==
    ASSUME NEW g \in Groups, NEW m, NEW n
    PROVE  /\ Safe(g, m, n) <=> Through(g, m) \/ HasAttempt(g, m, n)
           /\ Safe(g, m, n)' <=> Through(g, m)' \/ HasAttempt(g, m, n)'
  BY HasAttemptMeans DEF Safe, Through

LEMMA HasAttemptWeaken ==
    ASSUME TypeOK, NEW g \in Groups, NEW m, NEW n \in Int, NEW l \in Int, l <= n
    PROVE  HasAttempt(g, m, n) => HasAttempt(g, m, l)
  <1>1. \A e \in Outstanding(g) : e.attempt \in Nat
    BY OutstandingType, EntryAttempt
  <1> QED
    BY <1>1 DEF HasAttempt

LEMMA HasAttemptWeakenNext ==
    ASSUME TypeOK', NEW g \in Groups, NEW m, NEW n \in Int, NEW l \in Int, l <= n
    PROVE  HasAttempt(g, m, n)' => HasAttempt(g, m, l)'
  <1>1. \A e \in Outstanding(g)' : e.attempt \in Nat
    BY OutstandingNextType, EntryAttempt
  <1> QED
    BY <1>1 DEF HasAttempt

-----------------------------------------------------------------------------
(* The two kinds of steps of the contract, in the adapter's terms.         *)

(* Attempts begin, each that of a message just published or the next one   *)
(* of a message the group has the attempt before of, or is through with.   *)
Enqueues ==
    /\ UNCHANGED <<handled, exhausted, swallowed>>
    /\ \A m \in Msgs : accepted[m] > 0 => accepted'[m] > 0
    /\ \A g \in Groups :
          /\ Outstanding(g) \subseteq Outstanding(g)'
          /\ \A e \in Outstanding(g)' \ Outstanding(g) :
                Subscribed(g, e.msg) =>
                    e.attempt = 0 \/ Safe(g, e.msg, e.attempt - 1)

(* Attempts end, and the group is through with the message or has a later  *)
(* one before it.                                                          *)
Completes ==
    /\ UNCHANGED accepted
    /\ \A g \in Groups :
          /\ \A m : Through(g, m) => Through(g, m)'
          /\ \A m : Through(g, m)' /\ ~Through(g, m) /\ Subscribed(g, m) =>
                HasAttempt(g, m, 0)
          /\ Outstanding(g)' \subseteq Outstanding(g)
          /\ \A e \in Outstanding(g) \ Outstanding(g)' :
                Subscribed(g, e.msg) =>
                    Through(g, e.msg)' \/ HasAttempt(g, e.msg, e.attempt + 1)'

FullInv == NoLossInv /\ StreamSafe /\ TakenSafe

(* A step of either kind keeps a message where it is, or further.          *)
LEMMA SafeKept ==
    ASSUME TypeOK, TypeOK', Enqueues \/ Completes,
           NEW g \in Groups, NEW m, Subscribed(g, m), NEW n \in Int, Safe(g, m, n)
    PROVE  Safe(g, m, n)'
  <1>1. CASE Through(g, m)
    <2>1. Through(g, m)'
      BY <1>1 DEF Enqueues, Completes, Through, Settled
    <2> QED
      BY <2>1, SafeMeans
  <1>2. CASE HasAttempt(g, m, n)
    <2>1. PICK e \in Outstanding(g) : e.msg = m /\ n <= e.attempt
      BY <1>2 DEF HasAttempt
    <2>2. e.attempt \in Nat
      BY OutstandingType, EntryAttempt
    <2>3. CASE e \in Outstanding(g)'
      <3>1. HasAttempt(g, m, n)'
        BY <2>1, <2>3 DEF HasAttempt
      <3> QED
        BY <3>1, SafeMeans
    <2>4. CASE e \notin Outstanding(g)'
      <3>1. Through(g, m)' \/ HasAttempt(g, m, e.attempt + 1)'
        BY <2>1, <2>4 DEF Enqueues, Completes
      <3>2. HasAttempt(g, m, e.attempt + 1)' => HasAttempt(g, m, n)'
        BY <2>1, <2>2, HasAttemptWeakenNext
      <3> QED
        BY <3>1, <3>2, SafeMeans
    <2> QED
      BY <2>3, <2>4
  <1> QED
    BY <1>1, <1>2, SafeMeans

(* What entered the stream is safe, with the message as a term of its own. *)
LEMMA StreamEntrySafe ==
    ASSUME FullInv, NEW g \in Groups, NEW i \in DOMAIN stream, Subscribed(g, stream[i].msg)
    PROVE  /\ Safe(g, stream[i].msg, stream[i].attempt)
           /\ Safe(g, stream[i].msg, 0)
  <1>1. stream[i] \in Entry
    BY DEF FullInv, NoLossInv, TypeOK
  <1>2. stream[i].attempt \in Nat /\ 0 <= stream[i].attempt
    BY <1>1, EntryAttempt
  <1>3. Safe(g, stream[i].msg, stream[i].attempt)
    BY DEF FullInv, StreamSafe
  <1> QED
    BY <1>2, <1>3, SafeWeaken DEF FullInv, NoLossInv

(* Steps that leave the attempts alone.                                    *)
LEMMA StillCompletes ==
    ASSUME UNCHANGED <<stream, delivered, pel, zset, accepted, handled, exhausted, swallowed>>
    PROVE  Completes
  <1>1. \A g \in Groups : Outstanding(g)' = Outstanding(g)
    BY DEF Outstanding
  <1> QED
    BY <1>1 DEF Completes, Through, Settled

(* Steps after which everything stored is still stored.                    *)
LEMMA GrowEnqueues ==
    ASSUME FullInv, Grows, UNCHANGED <<handled, exhausted, swallowed>>,
           \A m \in Msgs : accepted[m] > 0 => accepted'[m] > 0,
           \A g \in Groups : \A e \in Outstanding(g)' \ Outstanding(g) :
              Subscribed(g, e.msg) => e.attempt = 0 \/ Safe(g, e.msg, e.attempt - 1)
    PROVE  Enqueues
  <1>1. ASSUME NEW g \in Groups, NEW e \in Outstanding(g)
        PROVE  e \in Outstanding(g)'
    BY OutstandingMember DEF Grows, InStream
  <1> QED
    BY <1>1 DEF Enqueues

-----------------------------------------------------------------------------
(* The steps, one kind after the other.                                    *)

(* XADD brings one entry about.                                            *)
LEMMA XAddOutstanding ==
    ASSUME TypeOK, NEW e \in Entry, XAdd(e), UNCHANGED <<delivered, pel, zset>>,
           NEW g \in Groups, NEW f \in Outstanding(g)' \ Outstanding(g)
    PROVE  f = e
  <1>t. stream \in Seq(Entry)
    BY DEF TypeOK
  <1>1. InStream(g, f)' /\ ~InStream(g, f)
    BY OutstandingMember
  <1>2. PICK i \in DOMAIN stream' :
           (delivered'[g] < i \/ i \in pel'[g]) /\ stream'[i] = f
    BY <1>1 DEF InStream
  <1>3. i \notin DOMAIN stream
    BY <1>t, <1>1, <1>2, XAddGrows DEF InStream
  <1> QED
    BY <1>t, <1>2, <1>3, XAddGrows

LEMMA PublishEffect ==
    ASSUME FullInv, NEW p \in Procs, NEW m \in Msgs, Publish(p, m)
    PROVE  Enqueues \/ Completes
  <1> DEFINE e == [msg |-> m, attempt |-> 0]
  <1>t. TypeOK /\ accepted \in [Msgs -> Nat]
    BY DEF FullInv, NoLossInv, TypeOK
  <1>e. e \in Entry /\ e.attempt = 0
    BY ConstantsAssumption DEF Entry
  <1>1. PICK res \in Results :
           /\ IF Applied(res) THEN XAdd(e) ELSE UNCHANGED stream
           /\ accepted' = IF res = "ok" THEN [accepted EXCEPT ![m] = @ + 1] ELSE accepted
    BY DEF Publish
  <1>2. UNCHANGED <<delivered, pel, zset, handled, exhausted, swallowed>>
    BY DEF Publish
  <1> HIDE DEF e
  <1>3. CASE Applied(res)
    <2>1. Grows
      BY <1>t, <1>e, <1>1, <1>2, <1>3, XAddStored
    <2>2. \A n \in Msgs : accepted[n] > 0 => accepted'[n] > 0
      BY <1>t, <1>1
    <2>3. \A g \in Groups : \A f \in Outstanding(g)' \ Outstanding(g) : f.attempt = 0
      BY <1>t, <1>e, <1>1, <1>2, <1>3, XAddOutstanding
    <2> QED
      BY <1>2, <2>1, <2>2, <2>3, GrowEnqueues
  <1>4. CASE ~Applied(res)
    <2>1. UNCHANGED <<stream, accepted>>
      BY <1>1, <1>4 DEF Applied
    <2> QED
      BY <1>2, <2>1, StillCompletes
  <1> QED
    BY <1>3, <1>4

(* ZADD brings one member about, for every group.                          *)
LEMMA ZAddOutstanding ==
    ASSUME NEW e, zset' = zset \cup {e}, UNCHANGED <<stream, delivered, pel>>,
           NEW g \in Groups, NEW f \in Outstanding(g)' \ Outstanding(g)
    PROVE  f = e
  BY OutstandingMember DEF InStream

LEMMA PublishDelayEffect ==
    ASSUME FullInv, NEW p \in Procs, NEW m \in Msgs, PublishDelay(p, m)
    PROVE  Enqueues \/ Completes
  <1> DEFINE e == [msg |-> m, attempt |-> 0]
  <1>t. accepted \in [Msgs -> Nat]
    BY DEF FullInv, NoLossInv, TypeOK
  <1>e. e.attempt = 0
    OBVIOUS
  <1>1. PICK res \in Results :
           /\ IF Applied(res) THEN ZAdd(e) ELSE UNCHANGED <<zset, due>>
           /\ accepted' = IF res = "ok" THEN [accepted EXCEPT ![m] = @ + 1] ELSE accepted
    BY DEF PublishDelay
  <1>2. UNCHANGED <<stream, delivered, pel, handled, exhausted, swallowed>>
    BY DEF PublishDelay
  <1> HIDE DEF e
  <1>3. CASE Applied(res)
    <2>1. zset' = zset \cup {e}
      BY <1>1, <1>3 DEF ZAdd
    <2>2. Grows
      BY <1>2, <2>1 DEF Grows
    <2>3. \A n \in Msgs : accepted[n] > 0 => accepted'[n] > 0
      BY <1>t, <1>1
    <2>4. \A g \in Groups : \A f \in Outstanding(g)' \ Outstanding(g) : f.attempt = 0
      BY <1>e, <1>2, <2>1, ZAddOutstanding
    <2> QED
      BY <1>2, <2>2, <2>3, <2>4, GrowEnqueues
  <1>4. CASE ~Applied(res)
    <2>1. UNCHANGED <<zset, accepted>>
      BY <1>1, <1>4 DEF Applied
    <2> QED
      BY <1>2, <2>1, StillCompletes
  <1> QED
    BY <1>3, <1>4

(* The scheduler's XADD: every group has had the member's attempt before   *)
(* it, or is through with it.  When it fails the group has the member to   *)
(* be through with.                                                        *)
LEMMA SchedPublishEffect ==
    ASSUME FullInv, NEW p \in Procs, NEW e \in taken[p], SchedPublish(p, e)
    PROVE  Enqueues \/ Completes
  <1>t. TypeOK
    BY DEF FullInv, NoLossInv
  <1>e. e \in Entry /\ e.attempt \in Nat
    BY <1>t, EntryAttempt DEF TypeOK
  <1>1. PICK res \in Results :
           /\ IF Applied(res) THEN XAdd(e) ELSE UNCHANGED stream
           /\ swallowed' = IF ~Applied(res) /\ ClientUsable(p)
                           THEN swallowed \cup {e.msg} ELSE swallowed
    BY DEF SchedPublish
  <1>2. UNCHANGED <<delivered, pel, zset, handled, exhausted, accepted>>
    BY DEF SchedPublish
  <1>3. ASSUME NEW g \in Groups, Subscribed(g, e.msg)
        PROVE  Safe(g, e.msg, e.attempt)
    BY <1>3 DEF FullInv, TakenSafe
  <1>4. CASE Applied(res)
    <2>1. UNCHANGED swallowed
      BY <1>1, <1>4
    <2>2. Grows
      BY <1>t, <1>e, <1>1, <1>2, <1>4, <2>1, XAddStored
    <2>3. ASSUME NEW g \in Groups, NEW f \in Outstanding(g)' \ Outstanding(g),
                 Subscribed(g, f.msg)
          PROVE  f.attempt = 0 \/ Safe(g, f.msg, f.attempt - 1)
      <3>1. f = e
        BY <1>t, <1>e, <1>1, <1>2, <1>4, XAddOutstanding
      <3>2. e.attempt # 0 => e.attempt - 1 \in Nat /\ e.attempt - 1 <= e.attempt
        BY <1>e
      <3> QED
        BY <1>t, <1>e, <1>3, <2>3, <3>1, <3>2, SafeWeaken
    <2> QED
      BY <1>2, <2>1, <2>2, <2>3, GrowEnqueues
  <1>5. CASE ~Applied(res)
    <2>1. UNCHANGED stream /\ swallowed \subseteq swallowed'
          /\ swallowed' \subseteq swallowed \cup {e.msg}
      BY <1>1, <1>5
    <2>2. \A g \in Groups : Outstanding(g)' = Outstanding(g)
      BY <1>2, <2>1 DEF Outstanding
    <2>3. ASSUME NEW g \in Groups, NEW m, Through(g, m)', ~Through(g, m), Subscribed(g, m)
          PROVE  HasAttempt(g, m, 0)
      <3>1. m = e.msg
        BY <1>2, <2>1, <2>3 DEF Through, Settled
      <3>2. HasAttempt(g, m, e.attempt)
        BY <1>3, <2>3, <3>1, SafeMeans
      <3>3. 0 <= e.attempt
        BY <1>e
      <3> QED
        BY <1>t, <1>e, <3>2, <3>3, HasAttemptWeaken
    <2>4. ASSUME NEW g \in Groups, NEW m, Through(g, m)
          PROVE  Through(g, m)'
      BY <1>2, <2>1, <2>4 DEF Through, Settled
    <2> QED
      BY <1>2, <2>2, <2>3, <2>4 DEF Completes
  <1> QED
    BY <1>4, <1>5

(* Its ZREM: the stream has the member, or a later attempt is somewhere.   *)
LEMMA SchedRemoveEffect ==
    ASSUME FullInv, NEW p \in Procs, NEW e \in removing[p], SchedRemove(p, e)
    PROVE  Completes
  <1>t. TypeOK
    BY DEF FullInv, NoLossInv
  <1>e. e \in Entry /\ e.attempt \in Nat /\ e.attempt + 1 \in Nat
    BY <1>t, EntryAttempt DEF TypeOK
  <1>1. PICK res \in Results :
           /\ Call("zrem", ClientUsable(p), res)
           /\ IF Applied(res) THEN ZRem(e) ELSE UNCHANGED <<zset, due>>
    BY DEF SchedRemove
  <1>2. UNCHANGED <<stream, delivered, pel, handled, exhausted, swallowed, accepted>>
    BY DEF SchedRemove, historyVars
  <1>3. CASE ~Applied(res)
    BY <1>1, <1>2, <1>3, StillCompletes
  <1>4. CASE Applied(res)
    <2>1. life[p] # "closed" /\ zset' = zset \ {e}
      BY <1>1, <1>4 DEF Call, Applied, ClientUsable, ZRem
    <2>2. \A g \in Groups : \A f : InStream(g, f)' = InStream(g, f)
      BY <1>2 DEF InStream
    <2>3. ASSUME NEW g \in Groups
          PROVE  /\ Outstanding(g)' \subseteq Outstanding(g)
                 /\ Outstanding(g) \ {e} \subseteq Outstanding(g)'
                 /\ \A m : Through(g, m)' = Through(g, m)
      BY <1>2, <2>1, <2>2, OutstandingMember DEF Through, Settled
    <2>4. ASSUME NEW g \in Groups, e \in Outstanding(g), e \notin Outstanding(g)',
                 Subscribed(g, e.msg)
          PROVE  Through(g, e.msg)' \/ HasAttempt(g, e.msg, e.attempt + 1)'
      <3>1. \/ Through(g, e.msg)
            \/ HasCopy(g, e.msg, e.attempt)
            \/ IsDelayed(e.msg, e.attempt + 1)
        BY <2>1, <2>4 DEF FullInv, NoLossInv, RemoveSafe, Through
      <3>2. ASSUME NEW f \in Outstanding(g), f # e, f.msg = e.msg, e.attempt + 1 <= f.attempt
            PROVE  HasAttempt(g, e.msg, e.attempt + 1)'
        <4>1. f \in Outstanding(g)'
          BY <2>3, <3>2
        <4> QED
          BY <3>2, <4>1 DEF HasAttempt
      <3>3. CASE Through(g, e.msg)
        BY <2>3, <3>3
      <3>4. CASE HasCopy(g, e.msg, e.attempt)
        <4>1. PICK f \in Entry : InStream(g, f) /\ f.msg = e.msg /\ e.attempt <= f.attempt
          BY <1>t, <3>4 DEF HasCopy, InStream, TypeOK
        <4>2. f # e
          BY <2>2, <2>4, <4>1, OutstandingMember
        <4>3. f.attempt # e.attempt
          BY <1>e, <4>1, <4>2 DEF Entry
        <4>4. e.attempt + 1 <= f.attempt
          BY <1>e, <4>1, <4>3, EntryAttempt
        <4> QED
          BY <3>2, <4>1, <4>2, <4>4, OutstandingMember
      <3>5. CASE IsDelayed(e.msg, e.attempt + 1)
        <4>1. PICK f \in zset : f.msg = e.msg /\ e.attempt + 1 <= f.attempt
          BY <3>5 DEF IsDelayed
        <4>2. f # e
          BY <1>e, <4>1
        <4> QED
          BY <3>2, <4>1, <4>2, OutstandingMember
      <3> QED
        BY <3>1, <3>3, <3>4, <3>5
    <2> QED
      BY <1>2, <2>3, <2>4 DEF Completes
  <1> QED
    BY <1>3, <1>4

(* A group that is created reads the stream from its beginning: what it    *)
(* gets to read was in the stream.                                         *)
LEMMA ConsumeEffect ==
    ASSUME FullInv, NEW c \in Consumers, Consume(c)
    PROVE  Enqueues
  <1>t. TypeOK /\ \A g \in Groups : delivered[g] \in Nat
    BY DEF FullInv, NoLossInv, TypeOK
  <1>1. UNCHANGED <<stream, pel, zset, swallowed, handled, exhausted, accepted>>
    BY DEF Consume, historyVars
  <1>2. \A g \in Groups : delivered'[g] = delivered[g] \/ delivered'[g] = 0
    <2>1. UNCHANGED delivered \/ delivered' = [delivered EXCEPT ![GroupOf[c]] = 0]
      BY DEF Consume, GroupStart
    <2> QED
      BY <1>t, <2>1 DEF TypeOK
  <1>3. \A g \in Groups, i \in DOMAIN stream : delivered[g] < i => delivered'[g] < i
    <2>1. \A i \in DOMAIN stream : i \in Nat
      BY <1>t DEF TypeOK
    <2> QED
      BY <1>t, <1>2, <2>1
  <1>4. Grows
    BY <1>1, <1>3 DEF Grows
  <1>5. ASSUME NEW g \in Groups, NEW e \in Outstanding(g)' \ Outstanding(g),
               Subscribed(g, e.msg)
        PROVE  e.attempt = 0 \/ Safe(g, e.msg, e.attempt - 1)
    <2>1. PICK i \in DOMAIN stream : stream[i] = e
      BY <1>1, OutstandingMember DEF InStream
    <2>2. e.attempt \in Nat
      BY <1>t, <2>1, EntryAttempt DEF TypeOK
    <2>3. Safe(g, e.msg, e.attempt)
      BY <1>5, <2>1, StreamEntrySafe
    <2>4. e.attempt # 0 => e.attempt - 1 \in Nat /\ e.attempt - 1 <= e.attempt
      BY <2>2
    <2> QED
      BY <1>t, <2>2, <2>3, <2>4, SafeWeaken
  <1> QED
    BY <1>1, <1>4, <1>5, GrowEnqueues

(* The loop's steps move entries between the stream, the pending list and  *)
(* the goroutines.                                                         *)
LEMMA LoopEffect ==
    ASSUME FullInv, NEW c \in Consumers, LoopStep(c)
    PROVE  Completes
  <1>t. TypeOK
    BY DEF FullInv, NoLossInv
  <1>1. CASE ReadGroup(c)
    <2> DEFINE h == GroupOf[c]
    <2>t. /\ h \in Groups /\ Len(stream) \in Nat /\ DOMAIN stream = 1..Len(stream)
          /\ delivered \in [Groups -> 0..Len(stream)]
          /\ pel \in [Groups -> SUBSET (1..Len(stream))]
          /\ Concurrency \in Nat
      BY <1>t, ConstantsAssumption DEF TypeOK
    <2>1. UNCHANGED <<stream, zset, swallowed, handled, exhausted, accepted>>
      BY <1>1 DEF ReadGroup, historyVars
    <2>2. \/ UNCHANGED <<delivered, pel>>
          \/ /\ delivered' = [delivered EXCEPT ![h] =
                                 IF @ + Concurrency <= Len(stream)
                                 THEN @ + Concurrency ELSE Len(stream)]
             /\ pel' = [pel EXCEPT ![h] = @ \cup NewIds(h)]
      BY <1>1 DEF ReadGroup
    <2> HIDE DEF h
    <2>3. ASSUME NEW g \in Groups, NEW i \in DOMAIN stream
          PROVE  delivered'[g] < i \/ i \in pel'[g] <=> delivered[g] < i \/ i \in pel[g]
      <3>1. CASE UNCHANGED <<delivered, pel>> \/ g # h
        BY <2>t, <2>2, <3>1
      <3>2. CASE g = h /\ ~UNCHANGED <<delivered, pel>>
        <4>1. /\ delivered'[h] = IF delivered[h] + Concurrency <= Len(stream)
                                 THEN delivered[h] + Concurrency ELSE Len(stream)
              /\ pel'[h] = pel[h] \cup NewIds(h)
          BY <2>t, <2>2, <3>2
        <4>2. i \in NewIds(h) <=> delivered[h] < i /\ i <= delivered[h] + Concurrency
          BY DEF NewIds
        <4>3. delivered[h] \in Nat /\ i \in Nat /\ i <= Len(stream)
          BY <2>t
        <4> QED
          BY <2>t, <3>2, <4>1, <4>2, <4>3
      <3> QED
        BY <3>1, <3>2
    <2>4. ASSUME NEW g \in Groups
          PROVE  Outstanding(g)' = Outstanding(g)
      BY <2>1, <2>3, OutstandingMember DEF InStream
    <2> QED
      BY <2>1, <2>4 DEF Completes, Through, Settled
  <1>2. CASE ~ReadGroup(c)
    <2>1. UNCHANGED <<stream, delivered, pel, zset, accepted, handled, exhausted, swallowed>>
      BY <1>2 DEF LoopStep, AutoClaim, AutoClaimUnknown, Dispatch, LoopExit, LoopDone,
                  redisVars, historyVars
    <2> QED
      BY <2>1, StillCompletes
  <1> QED
    BY <1>1, <1>2

(* What a goroutine works on is an entry of the stream.                    *)
LEMMA TaskInStream ==
    ASSUME TypeOK, NEW c \in Consumers, NEW k \in Slots, slot[c][k].pc # "free"
    PROVE  /\ slot[c][k].id \in DOMAIN stream
           /\ TaskEntry(c, k) = stream[slot[c][k].id]
           /\ TaskEntry(c, k) \in Entry
           /\ GroupOf[c] \in Groups
  <1>1. slot[c][k].id \in 1..Len(stream) /\ stream \in Seq(Entry)
    BY DEF TypeOK
  <1> QED
    BY <1>1, ConstantsAssumption DEF TaskEntry

(* A handler ends for good: the group had the message before it.           *)
LEMMA HandlerEffect ==
    ASSUME FullInv, NEW c \in Consumers, NEW k \in Slots, HandlerOk(c, k) \/ HandlerErr(c, k)
    PROVE  Completes
  <1> DEFINE h == GroupOf[c]
             n == TaskEntry(c, k).msg
  <1>t. TypeOK /\ handled \in [Groups -> SUBSET Msgs] /\ exhausted \in [Groups -> SUBSET Msgs]
    BY DEF FullInv, NoLossInv, TypeOK
  <1>1. h \in Groups /\ slot[c][k].id \in DOMAIN stream
    BY <1>t, TaskInStream DEF HandlerOk, HandlerErr
  <1>2. UNCHANGED <<stream, delivered, pel, zset, accepted, swallowed>>
    BY DEF HandlerOk, HandlerErr, redisVars
  <1>3. \A g \in Groups : Outstanding(g)' = Outstanding(g)
    BY <1>2 DEF Outstanding
  <1>4. /\ handled' \in {handled, [handled EXCEPT ![h] = @ \cup {n}]}
        /\ exhausted' \in {exhausted, [exhausted EXCEPT ![h] = @ \cup {n}]}
    BY DEF HandlerOk, HandlerErr
  <1> HIDE DEF h, n
  <1>5. ASSUME NEW g \in Groups, NEW m
        PROVE  /\ Through(g, m) => Through(g, m)'
               /\ Through(g, m)' => Through(g, m) \/ (g = h /\ m = n)
    BY <1>t, <1>1, <1>2, <1>4 DEF Through, Settled
  <1>6. ASSUME ~Through(h, n), Subscribed(h, n)
        PROVE  HasAttempt(h, n, 0)
    BY <1>1, <1>6, StreamEntrySafe, SafeMeans DEF n, TaskEntry
  <1> QED
    BY <1>2, <1>3, <1>5, <1>6 DEF Completes

(* A retry is stored: every group that subscribes to the message has had   *)
(* the attempt before it, because it entered the stream.                   *)
LEMMA RetryEffect ==
    ASSUME FullInv, NEW c \in Consumers, NEW k \in Slots, Retry(c, k)
    PROVE  Enqueues \/ Completes
  <1> DEFINE e == TaskEntry(c, k)
             r == [e EXCEPT !.attempt = @ + 1]
  <1>t. TypeOK
    BY DEF FullInv, NoLossInv
  <1>1. /\ slot[c][k].id \in DOMAIN stream /\ e = stream[slot[c][k].id]
        /\ e \in Entry /\ RetryAllowed(e)
    <2>1. slot[c][k].pc = "retry"
      BY DEF Retry
    <2> QED
      BY <1>t, <2>1, TaskInStream DEF TypeOK
  <1>2. r.msg = e.msg /\ r.attempt = e.attempt + 1 /\ e.attempt \in Nat
    BY <1>1, RetryCopy, EntryAttempt
  <1>3. PICK res \in Results : IF Applied(res) THEN ZAdd(r) ELSE UNCHANGED <<zset, due>>
    BY DEF Retry
  <1>4. UNCHANGED <<stream, delivered, pel, handled, exhausted, swallowed, accepted>>
    BY DEF Retry, historyVars
  <1>5. ASSUME NEW g \in Groups, Subscribed(g, e.msg)
        PROVE  Safe(g, e.msg, e.attempt)
    BY <1>1, <1>5, StreamEntrySafe
  <1> HIDE DEF e, r
  <1>6. CASE Applied(res)
    <2>1. zset' = zset \cup {r}
      BY <1>3, <1>6 DEF ZAdd
    <2>2. Grows
      BY <1>4, <2>1 DEF Grows
    <2>3. ASSUME NEW g \in Groups, NEW f \in Outstanding(g)' \ Outstanding(g),
                 Subscribed(g, f.msg)
          PROVE  Safe(g, f.msg, f.attempt - 1)
      <3>1. f = r
        BY <1>4, <2>1, ZAddOutstanding
      <3>2. f.msg = e.msg /\ f.attempt - 1 = e.attempt
        BY <1>2, <3>1
      <3> QED
        BY <1>5, <2>3, <3>2
    <2> QED
      BY <1>4, <2>2, <2>3, GrowEnqueues
  <1>7. CASE ~Applied(res)
    BY <1>3, <1>4, <1>7, StillCompletes
  <1> QED
    BY <1>6, <1>7

(* XACK takes one entry away from the group.                               *)
LEMMA AckEffect ==
    ASSUME FullInv, NEW c \in Consumers, NEW k \in Slots, Ack(c, k)
    PROVE  Completes
  <1> DEFINE h == GroupOf[c]
             i == slot[c][k].id
             x == stream[i]
  <1>t. TypeOK /\ pel \in [Groups -> SUBSET (1..Len(stream))]
    BY DEF FullInv, NoLossInv, TypeOK
  <1>1. PICK res \in Results : IF Applied(res) THEN XAck(h, i) ELSE UNCHANGED <<pel, idle>>
    BY DEF Ack
  <1>2. UNCHANGED <<stream, delivered, zset, swallowed, handled, exhausted, accepted>>
    BY DEF Ack, historyVars
  <1>3. /\ h \in Groups /\ i \in DOMAIN stream /\ x \in Entry /\ x = TaskEntry(c, k)
        /\ x.attempt \in Nat /\ slot[c][k].pc = "ack"
    <2>1. slot[c][k].pc = "ack"
      BY DEF Ack
    <2> QED
      BY <1>t, <2>1, TaskInStream, EntryAttempt
  <1>4. CASE ~Applied(res)
    BY <1>1, <1>2, <1>4, StillCompletes
  <1>5. CASE Applied(res)
    <2>1. pel' = [pel EXCEPT ![h] = @ \ {i}]
      BY <1>1, <1>5 DEF XAck
    <2>a. Subscribed(h, x.msg) => Safe(h, x.msg, x.attempt + 1)
      BY <1>3 DEF FullInv, NoLossInv, AckSafe
    <2> HIDE DEF h, i
    <2>2. ASSUME NEW g \in Groups, NEW j \in DOMAIN stream
          PROVE  /\ j \in pel'[g] => j \in pel[g]
                 /\ j \in pel[g] /\ ~(g = h /\ j = i) => j \in pel'[g]
      BY <1>t, <1>3, <2>1
    <2>3. ASSUME NEW g \in Groups, NEW e
          PROVE  /\ e \in Outstanding(g)' => e \in Outstanding(g)
                 /\ e \in Outstanding(g) /\ ~(g = h /\ e = x) => e \in Outstanding(g)'
      BY <1>2, <1>3, <2>2, OutstandingMember DEF InStream
    <2>4. \A g \in Groups : \A m : Through(g, m)' = Through(g, m)
      BY <1>2 DEF Through, Settled
    <2>5. ASSUME NEW g \in Groups, NEW e \in Outstanding(g) \ Outstanding(g)',
                 Subscribed(g, e.msg)
          PROVE  Through(g, e.msg)' \/ HasAttempt(g, e.msg, e.attempt + 1)'
      <3>1. g = h /\ e = x
        BY <2>3
      <3>2. CASE Through(g, e.msg)
        BY <2>4, <3>2
      <3>3. CASE HasAttempt(g, e.msg, e.attempt + 1)
        <4>1. PICK f \in Outstanding(g) : f.msg = e.msg /\ e.attempt + 1 <= f.attempt
          BY <3>3 DEF HasAttempt
        <4>2. f # x
          BY <1>3, <3>1, <4>1
        <4>3. f \in Outstanding(g)'
          BY <2>3, <4>2
        <4> QED
          BY <4>1, <4>3 DEF HasAttempt
      <3> QED
        BY <2>5, <2>a, <3>1, <3>2, <3>3, SafeMeans
    <2> QED
      BY <1>2, <2>3, <2>4, <2>5 DEF Completes
  <1> QED
    BY <1>4, <1>5

LEMMA StepKinds ==
    ASSUME FullInv, [Next]_vars
    PROVE  Enqueues \/ Completes
  <1>1. CASE UNCHANGED vars
    BY <1>1, StillCompletes DEF vars, redisVars, historyVars
  <1>2. ASSUME NEW p \in Procs, SchedStep(p)
        PROVE  Enqueues \/ Completes
    <2>1. CASE SchedScan(p) \/ SchedExit(p)
      BY <2>1, StillCompletes DEF SchedScan, SchedExit, redisVars, historyVars
    <2> QED
      BY <1>2, <2>1, SchedPublishEffect, SchedRemoveEffect DEF SchedStep
  <1>3. ASSUME NEW c \in Consumers, Consume(c) \/ LoopStep(c) \/ Stop(c)
        PROVE  Enqueues \/ Completes
    <2>1. CASE Stop(c)
      BY <2>1, StillCompletes DEF Stop, redisVars, historyVars
    <2> QED
      BY <1>3, <2>1, ConsumeEffect, LoopEffect
  <1>4. ASSUME NEW c \in Consumers, NEW k \in Slots, TaskStep(c, k)
        PROVE  Enqueues \/ Completes
    BY <1>4, HandlerEffect, RetryEffect, AckEffect DEF TaskStep
  <1>5. ASSUME NEW p \in Procs,
               Close(p) \/ CloseDone(p) \/ CloseTimeout(p) \/ Crash(p) \/ Restart(p)
        PROVE  Enqueues \/ Completes
    BY <1>5, StillCompletes
       DEF Close, CloseDone, CloseTimeout, Crash, Restart, redisVars, historyVars
  <1>6. CASE TimeStep
    BY <1>6, StillCompletes DEF TimeStep, BecomeDue, BecomeIdle, historyVars
  <1> QED
    BY <1>1, <1>2, <1>3, <1>4, <1>5, <1>6, PublishEffect, PublishDelayEffect DEF Next

-----------------------------------------------------------------------------
(* The invariant.                                                          *)

(* The stream only grows, at its end.                                      *)
LEMMA StreamStep ==
    ASSUME TypeOK, [Next]_vars
    PROVE  \/ UNCHANGED stream
           \/ \E e \in Entry : XAdd(e) /\ UNCHANGED <<delivered, pel, zset>>
  <1>1. CASE UNCHANGED vars
    BY <1>1 DEF vars, redisVars
  <1>2. ASSUME NEW p \in Procs, NEW m \in Msgs, Publish(p, m)
        PROVE  \/ UNCHANGED stream
               \/ \E e \in Entry : XAdd(e) /\ UNCHANGED <<delivered, pel, zset>>
    <2>1. [msg |-> m, attempt |-> 0] \in Entry
      BY ConstantsAssumption DEF Entry
    <2> QED
      BY <1>2, <2>1 DEF Publish
  <1>3. ASSUME NEW p \in Procs, NEW e \in taken[p], SchedPublish(p, e)
        PROVE  \/ UNCHANGED stream
               \/ \E f \in Entry : XAdd(f) /\ UNCHANGED <<delivered, pel, zset>>
    BY <1>3 DEF SchedPublish, TypeOK
  <1>4. ASSUME NEW p \in Procs, SchedScan(p) \/ SchedExit(p)
                                \/ \E e \in removing[p] : SchedRemove(p, e)
        PROVE  UNCHANGED stream
    BY <1>4 DEF SchedScan, SchedExit, SchedRemove, redisVars
  <1>5. ASSUME NEW c \in Consumers, Consume(c) \/ LoopStep(c) \/ Stop(c)
        PROVE  UNCHANGED stream
    BY <1>5 DEF Consume, LoopStep, AutoClaim, AutoClaimUnknown, ReadGroup, Dispatch, LoopExit,
                LoopDone, Stop, redisVars
  <1>6. ASSUME NEW c \in Consumers, NEW k \in Slots, TaskStep(c, k)
        PROVE  UNCHANGED stream
    BY <1>6 DEF TaskStep, HandlerOk, HandlerErr, Retry, Ack, redisVars
  <1>7. ASSUME NEW p \in Procs,
               Close(p) \/ CloseDone(p) \/ CloseTimeout(p) \/ Crash(p) \/ Restart(p)
        PROVE  UNCHANGED stream
    BY <1>7 DEF Close, CloseDone, CloseTimeout, Crash, Restart, redisVars
  <1>8. CASE TimeStep
    BY <1>8 DEF TimeStep, BecomeDue, BecomeIdle
  <1>9. CASE \E p \in Procs, m \in Msgs : PublishDelay(p, m)
    BY <1>9 DEF PublishDelay
  <1> QED
    BY <1>1, <1>2, <1>3, <1>4, <1>5, <1>6, <1>7, <1>8, <1>9 DEF Next, SchedStep

(* A scheduler takes members of the delay set, and gives them up again.    *)
LEMMA TakenStep ==
    ASSUME TypeOK, [Next]_vars, NEW p \in Procs, NEW e \in taken'[p]
    PROVE  e \in taken[p] \/ (e \in zset /\ UNCHANGED zset)
  <1>t. taken \in [Procs -> SUBSET Entry] /\ due \subseteq zset
    BY DEF TypeOK
  <1>1. CASE UNCHANGED taken
    BY <1>1
  <1>2. ASSUME NEW q \in Procs, SchedScan(q)
        PROVE  e \in taken[p] \/ (e \in zset /\ UNCHANGED zset)
    BY <1>t, <1>2 DEF SchedScan, redisVars
  <1>3. ASSUME NEW q \in Procs, NEW f \in taken[q], SchedPublish(q, f)
        PROVE  e \in taken[p]
    BY <1>t, <1>3 DEF SchedPublish
  <1>4. ASSUME NEW q \in Procs, Crash(q)
        PROVE  e \in taken[p]
    BY <1>t, <1>4 DEF Crash
  <1>5. CASE UNCHANGED vars
    BY <1>1, <1>5 DEF vars, schedVars
  <1>6. ASSUME NEW q \in Procs, SchedExit(q) \/ \E f \in removing[q] : SchedRemove(q, f)
        PROVE  UNCHANGED taken
    BY <1>6 DEF SchedExit, SchedRemove
  <1>7. ASSUME NEW c \in Consumers, Consume(c) \/ LoopStep(c) \/ Stop(c)
        PROVE  UNCHANGED taken
    BY <1>7 DEF Consume, LoopStep, AutoClaim, AutoClaimUnknown, ReadGroup, Dispatch, LoopExit,
                LoopDone, Stop, schedVars
  <1>8. ASSUME NEW c \in Consumers, NEW k \in Slots, TaskStep(c, k)
        PROVE  UNCHANGED taken
    BY <1>8 DEF TaskStep, HandlerOk, HandlerErr, Retry, Ack, schedVars
  <1>9. ASSUME NEW q \in Procs, Close(q) \/ CloseDone(q) \/ CloseTimeout(q) \/ Restart(q)
        PROVE  UNCHANGED taken
    BY <1>9 DEF Close, CloseDone, CloseTimeout, Restart, schedVars
  <1>10. CASE TimeStep
    BY <1>1, <1>10 DEF TimeStep, BecomeDue, BecomeIdle, schedVars
  <1>11. CASE \E q \in Procs, m \in Msgs : Publish(q, m) \/ PublishDelay(q, m)
    BY <1>1, <1>11 DEF Publish, PublishDelay, schedVars
  <1> QED
    BY <1>1, <1>2, <1>3, <1>4, <1>5, <1>6, <1>7, <1>8, <1>9, <1>10, <1>11 DEF Next, SchedStep

LEMMA FullInit == Init => FullInv
  BY NoLossInit DEF Init, FullInv, StreamSafe, TakenSafe

LEMMA FullNext == FullInv /\ [Next]_vars => FullInv'
  <1> SUFFICES ASSUME FullInv, [Next]_vars PROVE FullInv'
    OBVIOUS
  <1>t. TypeOK /\ TypeOK' /\ stream \in Seq(Entry)
    BY TypeNext DEF FullInv, NoLossInv, TypeOK
  <1>s. Enqueues \/ Completes
    BY StepKinds
  <1>1. NoLossInv'
    BY NoLossNext DEF FullInv
  <1>2. StreamSafe'
    <2> SUFFICES ASSUME NEW g \in Groups, NEW i \in DOMAIN stream',
                        NEW m, m = stream'[i].msg, NEW n, n = stream'[i].attempt,
                        Subscribed(g, m)
                 PROVE  Safe(g, m, n)'
      BY DEF StreamSafe, Subscribed
    <2>1. CASE i \in DOMAIN stream /\ stream'[i] = stream[i]
      <3>1. Safe(g, m, n)
        BY <2>1, StreamEntrySafe
      <3>2. n \in Int
        BY <1>t, <2>1, EntryAttempt
      <3> QED
        BY <1>t, <1>s, <3>1, <3>2, SafeKept
    <2>2. ASSUME NEW e \in Entry, XAdd(e), UNCHANGED <<delivered, pel, zset>>,
                 ~(i \in DOMAIN stream /\ stream'[i] = stream[i])
          PROVE  Safe(g, m, n)'
      <3>1. i = Len(stream) + 1 /\ stream'[i] = e /\ Len(stream) \in Nat
        BY <1>t, <2>2, XAddGrows
      <3>2. delivered'[g] < i
        BY <1>t, <2>2, <3>1 DEF TypeOK
      <3>3. e \in Outstanding(g)'
        BY <3>1, <3>2, OutstandingMember DEF InStream
      <3>4. n <= e.attempt /\ e.msg = m
        BY <3>1, EntryAttempt
      <3>5. HasAttempt(g, m, n)'
        BY <3>3, <3>4 DEF HasAttempt
      <3> QED
        BY <3>5, SafeMeans
    <2> QED
      BY <1>t, <2>1, <2>2, StreamStep
  <1>3. TakenSafe'
    <2> SUFFICES ASSUME NEW p \in Procs, NEW e \in taken'[p], NEW g \in Groups,
                        Subscribed(g, e.msg)
                 PROVE  Safe(g, e.msg, e.attempt)'
      BY DEF TakenSafe, Subscribed
    <2>1. e.attempt \in Nat
      BY <1>t, EntryAttempt DEF TypeOK
    <2>2. CASE e \in taken[p]
      <3>1. Safe(g, e.msg, e.attempt)
        BY <2>2 DEF FullInv, TakenSafe
      <3> QED
        BY <1>t, <1>s, <2>1, <3>1, SafeKept
    <2>3. CASE e \in zset /\ UNCHANGED zset
      BY <2>1, <2>3 DEF Safe, IsDelayed
    <2> QED
      BY <1>t, <2>2, <2>3, TakenStep
  <1> QED
    BY <1>1, <1>2, <1>3 DEF FullInv

-----------------------------------------------------------------------------
(* The refinement.                                                         *)

pendingOf == [g \in Groups |-> {e \in Outstanding(g) : Subscribed(g, e.msg)}]
owedOf == [g \in Groups |-> {m \in Msgs : accepted[m] > 0 /\ Subscribed(g, m)}]
settledOf == [g \in Groups |-> {m \in handled[g] \cup exhausted[g] \cup swallowed :
                                   Subscribed(g, m)}]

LEMMA ContractTypes ==
    /\ Contract!Attempt = Entry
    /\ TypeOK => /\ pendingOf \in [Groups -> SUBSET Entry]
                 /\ owedOf \in [Groups -> SUBSET Msgs]
                 /\ settledOf \in [Groups -> SUBSET Msgs]
    /\ TypeOK' => /\ pendingOf' \in [Groups -> SUBSET Entry]
                  /\ owedOf' \in [Groups -> SUBSET Msgs]
                  /\ settledOf' \in [Groups -> SUBSET Msgs]
  <1>1. Contract!Attempt = Entry
    BY DEF Contract!Attempt, Entry
  <1>2. ASSUME TypeOK
        PROVE  /\ pendingOf \in [Groups -> SUBSET Entry]
               /\ owedOf \in [Groups -> SUBSET Msgs]
               /\ settledOf \in [Groups -> SUBSET Msgs]
    <2>1. \A g \in Groups : handled[g] \cup exhausted[g] \cup swallowed \subseteq Msgs
      BY <1>2 DEF TypeOK
    <2> QED
      BY <1>2, <2>1, OutstandingType DEF pendingOf, owedOf, settledOf
  <1>3. ASSUME TypeOK'
        PROVE  /\ pendingOf' \in [Groups -> SUBSET Entry]
               /\ owedOf' \in [Groups -> SUBSET Msgs]
               /\ settledOf' \in [Groups -> SUBSET Msgs]
    <2>1. \A g \in Groups : handled'[g] \cup exhausted'[g] \cup swallowed' \subseteq Msgs
      BY <1>3 DEF TypeOK
    <2> QED
      BY <1>3, <2>1, OutstandingNextType DEF pendingOf, owedOf, settledOf
  <1> QED
    BY <1>1, <1>2, <1>3

(* The members of the three sets, in this state and the next.              *)
LEMMA ContractMembers ==
    ASSUME NEW g \in Groups
    PROVE  /\ pendingOf[g] = {e \in Outstanding(g) : Subscribed(g, e.msg)}
           /\ pendingOf'[g] = {e \in Outstanding(g)' : Subscribed(g, e.msg)}
           /\ \A m : m \in settledOf[g] <=> Through(g, m) /\ Subscribed(g, m)
           /\ \A m : m \in settledOf'[g] <=> Through(g, m)' /\ Subscribed(g, m)
           /\ \A m : m \in owedOf[g] <=> m \in Msgs /\ accepted[m] > 0 /\ Subscribed(g, m)
           /\ \A m : m \in owedOf'[g] <=> m \in Msgs /\ accepted'[m] > 0 /\ Subscribed(g, m)
  BY DEF pendingOf, settledOf, owedOf, Through, Settled, Subscribed

LEMMA ContractHas ==
    ASSUME NEW g \in Groups, NEW m, Subscribed(g, m), NEW n
    PROVE  /\ Contract!Has(pendingOf[g], m, n) <=> HasAttempt(g, m, n)
           /\ Contract!Has(pendingOf'[g], m, n) <=> HasAttempt(g, m, n)'
  BY ContractMembers DEF Contract!Has, HasAttempt

LEMMA ContractStart == Init => Contract!Init
  <1> SUFFICES ASSUME Init PROVE Contract!Init
    OBVIOUS
  <1>1. /\ \A g \in Groups : Outstanding(g) = {}
        /\ \A m \in Msgs : ~(accepted[m] > 0)
        /\ \A g \in Groups : handled[g] \cup exhausted[g] \cup swallowed = {}
    BY DEF Init, Outstanding
  <1> QED
    BY <1>1 DEF Contract!Init

LEMMA EnqueuesRefines ==
    ASSUME FullInv, FullInv', Enqueues
    PROVE  /\ pendingOf' \in [Groups -> SUBSET Contract!Attempt]
           /\ owedOf' \in [Groups -> SUBSET Msgs]
           /\ \A g \in Groups :
                 /\ pendingOf[g] \subseteq pendingOf'[g]
                 /\ \A e \in pendingOf'[g] \ pendingOf[g] :
                       \/ e.attempt = 0
                       \/ \E h \in Groups :
                             \/ e.msg \in settledOf[h]
                             \/ Contract!Has(pendingOf[h], e.msg, e.attempt - 1)
                 /\ owedOf[g] \subseteq owedOf'[g]
                 /\ \A m \in owedOf'[g] \ owedOf[g] :
                       m \in settledOf[g] \/ Contract!Has(pendingOf'[g], m, 0)
           /\ UNCHANGED settledOf
  <1>t. TypeOK'
    BY DEF FullInv, NoLossInv
  <1>1. ASSUME NEW g \in Groups
        PROVE  /\ pendingOf[g] \subseteq pendingOf'[g]
               /\ owedOf[g] \subseteq owedOf'[g]
    BY ContractMembers DEF Enqueues
  <1>2. ASSUME NEW g \in Groups, NEW e \in pendingOf'[g] \ pendingOf[g]
        PROVE  \/ e.attempt = 0
               \/ e.msg \in settledOf[g]
               \/ Contract!Has(pendingOf[g], e.msg, e.attempt - 1)
    <2>1. e \in Outstanding(g)' \ Outstanding(g) /\ Subscribed(g, e.msg)
      BY ContractMembers
    <2>2. e.attempt = 0 \/ Safe(g, e.msg, e.attempt - 1)
      BY <2>1 DEF Enqueues
    <2> QED
      BY <2>1, <2>2, SafeMeans, ContractMembers, ContractHas
  <1>3. ASSUME NEW g \in Groups, NEW m \in owedOf'[g] \ owedOf[g]
        PROVE  m \in settledOf[g] \/ Contract!Has(pendingOf'[g], m, 0)
    <2>1. m \in Msgs /\ accepted'[m] > 0 /\ Subscribed(g, m)
      BY ContractMembers
    <2>2. Safe(g, m, 0)'
      BY <2>1 DEF FullInv, NoLossInv, NoLoss, Subscribed
    <2>3. Through(g, m)' = Through(g, m)
      BY DEF Enqueues, Through, Settled
    <2> QED
      BY <2>1, <2>2, <2>3, SafeMeans, ContractMembers, ContractHas
  <1>4. UNCHANGED settledOf
    BY DEF Enqueues, settledOf, Subscribed
  <1> QED
    BY <1>t, <1>1, <1>2, <1>3, <1>4, ContractTypes

LEMMA CompletesRefines ==
    ASSUME FullInv, FullInv', Completes
    PROVE  /\ pendingOf' \in [Groups -> SUBSET Contract!Attempt]
           /\ settledOf' \in [Groups -> SUBSET Msgs]
           /\ \A g \in Groups :
                 /\ settledOf[g] \subseteq settledOf'[g]
                 /\ \A m \in settledOf'[g] \ settledOf[g] :
                       Contract!Has(pendingOf[g], m, 0)
                 /\ pendingOf'[g] \subseteq pendingOf[g]
                 /\ \A e \in pendingOf[g] \ pendingOf'[g] :
                       \/ e.msg \in settledOf'[g]
                       \/ Contract!Has(pendingOf'[g], e.msg, e.attempt + 1)
           /\ UNCHANGED owedOf
  <1>t. TypeOK'
    BY DEF FullInv, NoLossInv
  <1>1. ASSUME NEW g \in Groups
        PROVE  /\ settledOf[g] \subseteq settledOf'[g]
               /\ pendingOf'[g] \subseteq pendingOf[g]
    BY ContractMembers DEF Completes
  <1>2. ASSUME NEW g \in Groups, NEW m \in settledOf'[g] \ settledOf[g]
        PROVE  Contract!Has(pendingOf[g], m, 0)
    BY ContractMembers, ContractHas DEF Completes
  <1>3. ASSUME NEW g \in Groups, NEW e \in pendingOf[g] \ pendingOf'[g]
        PROVE  \/ e.msg \in settledOf'[g]
               \/ Contract!Has(pendingOf'[g], e.msg, e.attempt + 1)
    <2>1. e \in Outstanding(g) \ Outstanding(g)' /\ Subscribed(g, e.msg)
      BY ContractMembers
    <2>2. Through(g, e.msg)' \/ HasAttempt(g, e.msg, e.attempt + 1)'
      BY <2>1 DEF Completes
    <2> QED
      BY <2>1, <2>2, ContractMembers, ContractHas
  <1>4. UNCHANGED owedOf
    BY DEF Completes, owedOf, Subscribed
  <1> QED
    BY <1>t, <1>1, <1>2, <1>3, <1>4, ContractTypes

(* Every behaviour of the adapter, its servers and its failures is one of  *)
(* the contract, in every group for the messages all its consumers         *)
(* subscribe to: XADD and ZADD bring attempts about, an acknowledgement    *)
(* ends one, and being read, claimed, held by a goroutine or left pending  *)
(* is nothing the application can see.                                     *)
THEOREM ContractImplemented == Spec => ImplementsContract
  <1>1. FullInv /\ [Next]_vars => [Contract!Next]_(Contract!vars)
    <2> SUFFICES ASSUME FullInv, [Next]_vars PROVE Contract!Next
      OBVIOUS
    <2>1. FullInv'
      BY FullNext
    <2>2. CASE Enqueues
      <3>1. Contract!Enqueue
        BY <2>1, <2>2, EnqueuesRefines DEF Contract!Enqueue, pendingOf, owedOf, settledOf
      <3> QED
        BY <3>1 DEF Contract!Next
    <2>3. CASE Completes
      <3>1. Contract!Complete
        BY <2>1, <2>3, CompletesRefines DEF Contract!Complete, pendingOf, owedOf, settledOf
      <3> QED
        BY <3>1 DEF Contract!Next
    <2> QED
      BY <2>2, <2>3, StepKinds
  <1> QED
    BY <1>1, ContractStart, FullInit, FullNext, PTL DEF Spec, ImplementsContract, Contract!Spec
=============================================================================
