------------------------ MODULE RedisExecution_proofs -----------------------
(* Proofs about RedisMQ: nothing of an instance runs when Close returned,  *)
(* and what is delivered once is executed once.                            *)
EXTENDS RedisMQ_proofs

-----------------------------------------------------------------------------
(* When Close returns nothing of the instance runs.                        *)

(* What CloseDone does not look at and relies on: the scheduler goroutine  *)
(* ends between two scans, and a loop that is over has no goroutine left.  *)
SchedOver == \A p \in Procs : ~schedUp[p] => SchedIdle(p)

LoopOver ==
    \A c \in Consumers : cpc[c] \in {"off", "done"} =>
        \A k \in Slots : slot[c][k].pc = "free"

(* What it does look at stays so: only an open instance starts a loop.     *)
StaysClosed ==
    \A p \in Procs : life[p] = "closed" =>
        /\ ~schedUp[p]
        /\ \A c \in Consumers : ProcOf[c] = p => cpc[c] \in {"off", "done"}

ShutdownInv == TypeOK /\ SchedOver /\ LoopOver /\ StaysClosed

LEMMA ShutdownQuiet == ShutdownInv => CloseIsQuiet
  BY DEF ShutdownInv, SchedOver, LoopOver, StaysClosed, CloseIsQuiet

LEMMA ShutdownInit == Init => ShutdownInv
  <1> SUFFICES ASSUME Init PROVE ShutdownInv
    OBVIOUS
  <1>1. \A c \in Consumers, k \in Slots : slot[c][k].pc = "free"
    BY DEF Init, Free
  <1> QED
    BY <1>1, TypeInit DEF Init, ShutdownInv, SchedOver, LoopOver, StaysClosed

(* The scheduler of an instance that runs is not one of a closed instance. *)
LEMMA ShutdownSchedStep ==
    ASSUME ShutdownInv, NEW p \in Procs, SchedStep(p)
    PROVE  SchedOver' /\ LoopOver' /\ StaysClosed'
  <1>t. /\ schedUp \in [Procs -> BOOLEAN]
        /\ taken \in [Procs -> SUBSET Entry]
        /\ removing \in [Procs -> SUBSET Entry]
    BY DEF ShutdownInv, TypeOK
  <1>1. UNCHANGED <<cpc, slot, life>>
    BY DEF SchedStep, SchedScan, SchedPublish, SchedRemove, SchedExit, loopVars
  <1>2. LoopOver'
    BY <1>1 DEF LoopOver, ShutdownInv
  <1>3. CASE SchedScan(p)
    <2>1. schedUp[p] /\ UNCHANGED <<schedUp, removing>>
          /\ \E items : taken' = [taken EXCEPT ![p] = items]
      BY <1>3 DEF SchedScan
    <2> QED
      BY <1>t, <1>1, <1>2, <2>1 DEF ShutdownInv, SchedOver, StaysClosed, SchedIdle
  <1>4. ASSUME NEW e \in taken[p], SchedPublish(p, e) PROVE SchedOver' /\ StaysClosed'
    <2>1. /\ UNCHANGED schedUp
          /\ taken' = [taken EXCEPT ![p] = @ \ {e}]
          /\ removing' = [removing EXCEPT ![p] = {e}]
      BY <1>4 DEF SchedPublish
    <2>2. schedUp[p]
      BY DEF ShutdownInv, SchedOver, SchedIdle
    <2> QED
      BY <1>t, <1>1, <2>1, <2>2 DEF ShutdownInv, SchedOver, StaysClosed, SchedIdle
  <1>5. ASSUME NEW e \in removing[p], SchedRemove(p, e) PROVE SchedOver' /\ StaysClosed'
    <2>1. UNCHANGED <<schedUp, taken>> /\ removing' = [removing EXCEPT ![p] = {}]
      BY <1>5 DEF SchedRemove
    <2> QED
      BY <1>t, <1>1, <2>1 DEF ShutdownInv, SchedOver, StaysClosed, SchedIdle
  <1>6. CASE SchedExit(p)
    <2>1. /\ taken[p] = {} /\ removing[p] = {}
          /\ schedUp' = [schedUp EXCEPT ![p] = FALSE]
          /\ UNCHANGED <<taken, removing>>
      BY <1>6 DEF SchedExit, SchedIdle
    <2>2. \A q \in Procs : schedUp'[q] => schedUp[q]
      BY <1>t, <2>1
    <2>3. SchedOver'
      BY <1>t, <2>1 DEF ShutdownInv, SchedOver, SchedIdle
    <2>4. StaysClosed'
      BY <1>1, <2>2 DEF ShutdownInv, StaysClosed
    <2> QED
      BY <1>2, <2>3, <2>4
  <1> QED
    BY <1>2, <1>3, <1>4, <1>5, <1>6 DEF SchedStep

(* A loop starts on an open instance only, and takes steps only while it   *)
(* is not over; it is over when its last goroutine has ended.              *)
LEMMA ShutdownLoopStep ==
    ASSUME ShutdownInv, NEW c \in Consumers, Consume(c) \/ LoopStep(c) \/ Stop(c)
    PROVE  SchedOver' /\ LoopOver' /\ StaysClosed'
  <1>t. /\ cpc \in [Consumers -> {"off", "top", "read", "dispatch", "drain", "done"}]
        /\ slot \in [Consumers -> [Slots -> Task]]
        /\ ProcOf[c] \in Procs
    BY ConstantsAssumption DEF ShutdownInv, TypeOK
  <1>1. UNCHANGED <<schedUp, taken, removing, life>>
    BY DEF Consume, LoopStep, AutoClaim, AutoClaimUnknown, ReadGroup, Dispatch, LoopExit,
       LoopDone, Stop, schedVars
  <1>2. SchedOver'
    BY <1>1 DEF ShutdownInv, SchedOver, SchedIdle
  <1>3. /\ \A d \in Consumers : d # c => cpc'[d] = cpc[d] /\ slot'[d] = slot[d]
        /\ cpc'[c] # cpc[c] => life[ProcOf[c]] = "open" \/ cpc[c] \notin {"off", "done"}
        /\ cpc'[c] \in {"off", "done"} => \A k \in Slots : slot'[c][k].pc = "free"
    <2>1. CASE Consume(c)
      BY <1>t, <2>1 DEF Consume
    <2>2. CASE AutoClaim(c) \/ AutoClaimUnknown(c) \/ ReadGroup(c)
      <3>1. UNCHANGED slot
        BY <2>2 DEF AutoClaim, AutoClaimUnknown, ReadGroup
      <3>2. PICK pc \in {"read", "dispatch", "top"} : cpc' = [cpc EXCEPT ![c] = pc]
        BY <2>2 DEF AutoClaim, AutoClaimUnknown, ReadGroup
      <3>3. cpc[c] \in {"top", "read"}
        BY <2>2 DEF AutoClaim, AutoClaimUnknown, ReadGroup
      <3> QED
        BY <1>t, <3>1, <3>2, <3>3
    <2>3. ASSUME NEW k \in Slots, Dispatch(c, k)
          PROVE  /\ \A d \in Consumers : d # c => cpc'[d] = cpc[d] /\ slot'[d] = slot[d]
                 /\ cpc[c] = "dispatch" /\ cpc'[c] \in {"top", "dispatch"}
      <3>1. cpc[c] = "dispatch" /\ \E pc \in {"top", "dispatch"} : cpc' = [cpc EXCEPT ![c] = pc]
        BY <2>3 DEF Dispatch
      <3>2. \E t : slot' = [slot EXCEPT ![c][k] = t]
        BY <2>3 DEF Dispatch
      <3> QED
        BY <1>t, <3>1, <3>2
    <2>4. CASE LoopExit(c)
      BY <1>t, <2>4 DEF LoopExit
    <2>5. CASE LoopDone(c)
      BY <1>t, <2>5 DEF LoopDone, Drained
    <2>6. CASE Stop(c)
      BY <1>t, <2>6 DEF Stop
    <2> QED
      BY <2>1, <2>2, <2>3, <2>4, <2>5, <2>6 DEF LoopStep
  <1>4. LoopOver'
    BY <1>3 DEF ShutdownInv, LoopOver
  <1>5. StaysClosed'
    BY <1>t, <1>1, <1>3 DEF ShutdownInv, StaysClosed
  <1> QED
    BY <1>2, <1>4, <1>5

(* A goroutine that takes a step belongs to a loop that is not over.       *)
LEMMA ShutdownTaskStep ==
    ASSUME ShutdownInv, NEW c \in Consumers, NEW k \in Slots, TaskStep(c, k)
    PROVE  SchedOver' /\ LoopOver' /\ StaysClosed'
  <1>t. slot \in [Consumers -> [Slots -> Task]]
    BY DEF ShutdownInv, TypeOK
  <1>1. UNCHANGED <<schedUp, taken, removing, life, cpc>>
    BY DEF TaskStep, HandlerOk, HandlerErr, Retry, Ack, schedVars, loopVars
  <1>2. slot[c][k].pc # "free"
    BY DEF TaskStep, HandlerOk, HandlerErr, Retry, Ack
  <1>3. cpc[c] \notin {"off", "done"}
    BY <1>2 DEF ShutdownInv, LoopOver
  <1>4. \A d \in Consumers : d # c => slot'[d] = slot[d]
    <2>1. \/ \E pc : SetTask(c, k, pc)
          \/ EndTask(c, k)
      BY DEF TaskStep, HandlerOk, HandlerErr, Retry, Ack
    <2> QED
      BY <1>t, <2>1 DEF SetTask, EndTask
  <1> QED
    BY <1>1, <1>3, <1>4 DEF ShutdownInv, SchedOver, SchedIdle, LoopOver, StaysClosed

(* Close waits for the scheduler and the loops; without a deadline nothing *)
(* else closes the client.  A crash empties the process.                   *)
LEMMA ShutdownLifeStep ==
    ASSUME ShutdownInv, CloseDeadline = FALSE, NEW p \in Procs,
           Close(p) \/ CloseDone(p) \/ CloseTimeout(p) \/ Crash(p) \/ Restart(p)
    PROVE  SchedOver' /\ LoopOver' /\ StaysClosed'
  <1>t. /\ life \in [Procs -> {"open", "closing", "closed", "down"}]
        /\ schedUp \in [Procs -> BOOLEAN]
        /\ taken \in [Procs -> SUBSET Entry]
        /\ removing \in [Procs -> SUBSET Entry]
    BY DEF ShutdownInv, TypeOK
  <1>1. CASE Close(p) \/ CloseDone(p)
    <2>1. UNCHANGED <<schedUp, taken, removing, cpc, slot>>
      BY <1>1 DEF Close, CloseDone, schedVars, loopVars
    <2>2. CASE Close(p)
      BY <1>t, <2>1, <2>2 DEF Close, ShutdownInv, SchedOver, SchedIdle, LoopOver, StaysClosed
    <2>3. CASE CloseDone(p)
      BY <1>t, <2>1, <2>3 DEF CloseDone, ShutdownInv, SchedOver, SchedIdle, LoopOver,
         StaysClosed
    <2> QED
      BY <1>1, <2>2, <2>3
  <1>2. CASE CloseTimeout(p)
    BY <1>2 DEF CloseTimeout
  <1>3. CASE Crash(p)
    <2>1. /\ life' = [life EXCEPT ![p] = "down"]
          /\ schedUp' = [schedUp EXCEPT ![p] = FALSE]
          /\ taken' = [taken EXCEPT ![p] = {}]
          /\ removing' = [removing EXCEPT ![p] = {}]
          /\ cpc' = [c \in Consumers |-> IF ProcOf[c] = p THEN "off" ELSE cpc[c]]
          /\ slot' = [c \in Consumers |-> IF ProcOf[c] = p THEN [k \in Slots |-> Free]
                                                           ELSE slot[c]]
      BY <1>3 DEF Crash
    <2>2. SchedOver'
      BY <1>t, <2>1 DEF ShutdownInv, SchedOver, SchedIdle
    <2>3. LoopOver'
      BY <2>1 DEF ShutdownInv, LoopOver, Free
    <2>4. StaysClosed'
      BY <1>t, <2>1 DEF ShutdownInv, StaysClosed
    <2> QED
      BY <2>2, <2>3, <2>4
  <1>4. CASE Restart(p)
    <2>1. /\ life' = [life EXCEPT ![p] = "open"]
          /\ schedUp' = [schedUp EXCEPT ![p] = TRUE]
          /\ UNCHANGED <<taken, removing, cpc, slot>>
      BY <1>4 DEF Restart, loopVars
    <2> QED
      BY <1>t, <2>1 DEF ShutdownInv, SchedOver, SchedIdle, LoopOver, StaysClosed
  <1> QED
    BY <1>1, <1>2, <1>3, <1>4

LEMMA ShutdownNext ==
    ASSUME CloseDeadline = FALSE
    PROVE  ShutdownInv /\ [Next]_vars => ShutdownInv'
  <1> SUFFICES ASSUME ShutdownInv, [Next]_vars PROVE SchedOver' /\ LoopOver' /\ StaysClosed'
    BY TypeNext DEF ShutdownInv
  <1>1. CASE UNCHANGED <<schedUp, taken, removing, life, cpc, slot>>
    BY <1>1 DEF ShutdownInv, SchedOver, SchedIdle, LoopOver, StaysClosed
  <1>2. CASE UNCHANGED vars
    BY <1>1, <1>2 DEF vars, schedVars, loopVars
  <1>3. ASSUME NEW p \in Procs, NEW m \in Msgs, Publish(p, m) \/ PublishDelay(p, m)
        PROVE  UNCHANGED <<schedUp, taken, removing, life, cpc, slot>>
    BY <1>3 DEF Publish, PublishDelay, schedVars, loopVars
  <1>4. CASE TimeStep
    BY <1>1, <1>4 DEF TimeStep, BecomeDue, BecomeIdle, schedVars, loopVars
  <1>5. CASE Next
    BY <1>1, <1>3, <1>4, <1>5, ShutdownSchedStep, ShutdownLoopStep, ShutdownTaskStep,
       ShutdownLifeStep DEF Next
  <1> QED
    BY <1>2, <1>5

(* With any number of instances and consumers, and whatever fails, crashes *)
(* and restarts on the way: once Close has returned because everything had *)
(* ended (no deadline cut it short), no scheduler, no loop and no handler  *)
(* goroutine of that instance runs, and none starts again.                 *)
THEOREM ClosedQuietly ==
    ASSUME CloseDeadline = FALSE
    PROVE  Spec => []CloseIsQuiet
  <1>1. ShutdownInv /\ [Next]_vars => ShutdownInv'
    BY ShutdownNext
  <1> QED
    BY <1>1, ShutdownInit, ShutdownQuiet, PTL DEF Spec

-----------------------------------------------------------------------------
(* An entry is held once.                                                  *)

(* Pending entries were delivered, idle entries are pending, and a group   *)
(* that does not exist has not received anything.                          *)
PendingInv ==
    \A g \in Groups :
        /\ idle[g] \subseteq pel[g]
        /\ \A i \in pel[g] : i <= delivered[g]
        /\ g \notin groups => delivered[g] = 0

(* What can be claimed is in nobody's hand.                                *)
IdleFree == \A g \in Groups : \A i \in idle[g] : ~InHand(g, i)

HoldInv == TypeOK /\ PendingInv /\ HeldOnce /\ IdleFree


(* Hands only let go.                                                      *)
HandsShrink ==
    /\ \A c \in Consumers, k \in Slots :
          slot'[c][k].pc # "free" =>
              slot[c][k].pc # "free" /\ slot'[c][k].id = slot[c][k].id
    /\ \A c \in Consumers : fetched'[c] \subseteq fetched[c]

LEMMA HoldKept ==
    ASSUME HoldInv, HandsShrink,
           \A c \in Consumers, k \in Slots :
              slot'[c][k].pc # "free" => slot'[c][k].id \in pel'[GroupOf[c]],
           \A c \in Consumers : fetched'[c] \subseteq pel'[GroupOf[c]],
           \A g \in Groups : idle'[g] \subseteq idle[g]
    PROVE  HeldOnce' /\ IdleFree'
  <1>1. \A c, d \in Consumers, k, l \in Slots :
           /\ slot'[c][k].pc # "free" /\ slot'[d][l].pc # "free"
           /\ slot'[c][k].id = slot'[d][l].id
           /\ GroupOf[c] = GroupOf[d]
           => <<c, k>> = <<d, l>>
    BY DEF HandsShrink, HoldInv, HeldOnce
  <1>2. \A c, d \in Consumers :
           c # d /\ GroupOf[c] = GroupOf[d] => fetched'[c] \cap fetched'[d] = {}
    BY DEF HandsShrink, HoldInv, HeldOnce
  <1>3. \A c, d \in Consumers, k \in Slots :
           slot'[c][k].pc # "free" /\ GroupOf[c] = GroupOf[d] =>
               slot'[c][k].id \notin fetched'[d]
    BY DEF HandsShrink, HoldInv, HeldOnce
  <1>4. IdleFree'
    BY DEF HandsShrink, HoldInv, IdleFree, InHand
  <1> QED
    BY <1>1, <1>2, <1>3, <1>4 DEF HeldOnce

LEMMA HoldQuiet ==
    ASSUME HoldInv, UNCHANGED <<groups, delivered, pel, idle, fetched, slot>>
    PROVE  PendingInv' /\ HeldOnce' /\ IdleFree'
  BY DEF HoldInv, PendingInv, HeldOnce, IdleFree, InHand

LEMMA HoldInit == Init => HoldInv
  <1> SUFFICES ASSUME Init PROVE PendingInv /\ HeldOnce /\ IdleFree
    BY TypeInit DEF HoldInv
  <1>1. \A c \in Consumers : fetched[c] = {} /\ \A k \in Slots : slot[c][k].pc = "free"
    BY DEF Init, Free
  <1>2. \A g \in Groups : pel[g] = {} /\ idle[g] = {} /\ delivered[g] = 0
    BY DEF Init
  <1> QED
    BY <1>1, <1>2, ConstantsAssumption DEF PendingInv, HeldOnce, IdleFree

(* XGROUP CREATE makes a group that has received nothing.                  *)
LEMMA HoldConsume ==
    ASSUME HoldInv, NEW c \in Consumers, Consume(c)
    PROVE  PendingInv' /\ HeldOnce' /\ IdleFree'
  <1>1. UNCHANGED <<pel, idle, fetched, slot>>
    BY DEF Consume
  <1>2. /\ groups \subseteq groups'
        /\ \A g \in Groups : delivered'[g] = delivered[g]
    <2>1. \/ UNCHANGED <<groups, delivered>>
          \/ /\ GroupOf[c] \notin groups
             /\ groups' = groups \cup {GroupOf[c]}
             /\ delivered' = [delivered EXCEPT ![GroupOf[c]] = 0]
      BY DEF Consume, GroupStart
    <2>2. GroupOf[c] \notin groups => delivered[GroupOf[c]] = 0
      BY ConstantsAssumption DEF HoldInv, PendingInv
    <2>3. delivered \in [Groups -> 0..Len(stream)]
      BY DEF HoldInv, TypeOK
    <2> QED
      BY <2>1, <2>2, <2>3
  <1> QED
    BY <1>1, <1>2 DEF HoldInv, PendingInv, HeldOnce, IdleFree, InHand

(* XAUTOCLAIM hands over what nobody holds.                                *)
LEMMA HoldAutoClaim ==
    ASSUME HoldInv, NEW c \in Consumers, AutoClaim(c)
    PROVE  PendingInv' /\ HeldOnce' /\ IdleFree'
  <1> DEFINE g == GroupOf[c]
             ids == ClaimIds(g, claimStart[c])
  <1>t. /\ idle \in [Groups -> SUBSET (1..Len(stream))]
        /\ fetched \in [Consumers -> SUBSET (1..Len(stream))]
    BY DEF HoldInv, TypeOK
  <1>g. g \in Groups /\ \A d \in Consumers : GroupOf[d] \in Groups
    BY ConstantsAssumption
  <1>1. ids \subseteq idle[g]
    BY DEF ClaimIds
  <1>2. PICK res \in Results :
           /\ idle' = IF Applied(res) THEN [idle EXCEPT ![g] = @ \ ids] ELSE idle
           /\ IF res = "ok" THEN fetched' = [fetched EXCEPT ![c] = ids]
                            ELSE UNCHANGED fetched
    BY DEF AutoClaim
  <1>3. UNCHANGED <<groups, delivered, pel, slot>>
    BY DEF AutoClaim
  <1>4. \A i \in ids : i \in pel[g] /\ ~InHand(g, i)
    BY <1>1, <1>g DEF HoldInv, PendingInv, IdleFree
  <1> HIDE DEF ids
  <1>5. /\ \A h \in Groups : idle'[h] \subseteq idle[h]
        /\ Applied(res) => idle'[g] \cap ids = {}
    BY <1>t, <1>g, <1>2
  <1>6. PendingInv'
    BY <1>3, <1>5 DEF HoldInv, PendingInv
  <1>7. CASE res # "ok"
    BY <1>2, <1>3, <1>5, <1>6, <1>7, <1>g, HoldKept DEF HoldInv, HeldOnce, HandsShrink
  <1>8. CASE res = "ok"
    <2>1. fetched'[c] = ids /\ \A d \in Consumers : d # c => fetched'[d] = fetched[d]
      BY <1>t, <1>2, <1>8
    <2>2. \A d \in Consumers, i \in ids : GroupOf[d] = g =>
             /\ i \notin fetched[d]
             /\ \A k \in Slots : slot[d][k].pc # "free" => slot[d][k].id # i
      BY <1>4 DEF InHand
    <2>3. idle'[g] \cap ids = {}
      BY <1>5, <1>8 DEF Applied
    <2>4. IdleFree'
      <3>1. ASSUME NEW h \in Groups, NEW i \in idle'[h] PROVE ~InHand(h, i)'
        <4>1. ~InHand(h, i)
          BY <1>5 DEF HoldInv, IdleFree
        <4>2. h = g => i \notin ids
          BY <2>3
        <4> QED
          BY <1>3, <2>1, <4>1, <4>2 DEF InHand
      <3> QED
        BY <3>1 DEF IdleFree
    <2>5. \A a, b \in Consumers :
             a # b /\ GroupOf[a] = GroupOf[b] => fetched'[a] \cap fetched'[b] = {}
      BY <2>1, <2>2 DEF HoldInv, HeldOnce
    <2>6. \A a, b \in Consumers, k \in Slots :
             slot'[a][k].pc # "free" /\ GroupOf[a] = GroupOf[b] =>
                 slot'[a][k].id \notin fetched'[b]
      BY <1>3, <2>1, <2>2 DEF HoldInv, HeldOnce
    <2>7. \A a \in Consumers : fetched'[a] \subseteq pel'[GroupOf[a]]
      BY <1>3, <1>4, <2>1 DEF HoldInv, HeldOnce
    <2> QED
      BY <1>3, <1>6, <2>4, <2>5, <2>6, <2>7 DEF HoldInv, HeldOnce
  <1> QED
    BY <1>7, <1>8

(* XREADGROUP hands over what nobody has received.                         *)
LEMMA HoldReadGroup ==
    ASSUME HoldInv, NEW c \in Consumers, ReadGroup(c)
    PROVE  PendingInv' /\ HeldOnce' /\ IdleFree'
  <1> DEFINE g == GroupOf[c]
             ids == NewIds(g)
  <1>t. /\ pel \in [Groups -> SUBSET (1..Len(stream))]
        /\ delivered \in [Groups -> 0..Len(stream)]
        /\ fetched \in [Consumers -> SUBSET (1..Len(stream))]
        /\ Len(stream) \in Nat
    BY DEF HoldInv, TypeOK
  <1>g. g \in Groups /\ \A d \in Consumers : GroupOf[d] \in Groups
    BY ConstantsAssumption
  <1>1. PICK res \in Results :
           /\ Call("xreadgroup", CtxUsable(c) /\ g \in groups, res)
           /\ IF Applied(res) /\ ids # {}
              THEN /\ delivered' = [delivered EXCEPT ![g] =
                                       IF @ + Concurrency <= Len(stream)
                                       THEN @ + Concurrency ELSE Len(stream)]
                   /\ pel' = [pel EXCEPT ![g] = @ \cup ids]
              ELSE UNCHANGED <<delivered, pel>>
           /\ IF res = "ok" /\ ids # {}
              THEN fetched' = [fetched EXCEPT ![c] = ids]
              ELSE UNCHANGED fetched
    BY DEF ReadGroup
  <1>2. UNCHANGED <<groups, idle, slot>>
    BY DEF ReadGroup
  <1>3. CASE ~(Applied(res) /\ ids # {})
    BY <1>1, <1>2, <1>3, HoldQuiet DEF Applied
  <1>4. CASE Applied(res) /\ ids # {}
    <2>1. g \in groups
      BY <1>1, <1>4 DEF Call, Applied
    <2>2. \A i \in ids : i \in 1..Len(stream) /\ delivered[g] < i /\ i <= delivered[g] + Concurrency
      BY <1>t DEF NewIds, HoldInv, TypeOK
    <2> HIDE DEF ids
    <2> HIDE DEF g
    <2>3. /\ \A h \in Groups : h # g => pel'[h] = pel[h] /\ delivered'[h] = delivered[h]
          /\ pel'[g] = pel[g] \cup ids
          /\ delivered'[g] = IF delivered[g] + Concurrency <= Len(stream)
                             THEN delivered[g] + Concurrency ELSE Len(stream)
      BY <1>t, <1>g, <1>1, <1>4
    <2>4. /\ \A i \in ids : i \notin pel[g]
          /\ \A h \in Groups : pel[h] \subseteq pel'[h]
      BY <1>t, <1>g, <2>2, <2>3 DEF HoldInv, PendingInv
    <2>5. PendingInv'
      <3>1. \A i \in pel'[g] : i <= delivered'[g]
        <4>1. delivered[g] \in 0..Len(stream) /\ pel[g] \subseteq 1..Len(stream)
          BY <1>t, <1>g
        <4>2. \A i \in pel[g] : i <= delivered[g]
          BY <1>g DEF HoldInv, PendingInv
        <4> QED
          BY <1>t, <2>2, <2>3, <4>1, <4>2, ConstantsAssumption
      <3> QED
        BY <1>g, <1>2, <2>1, <2>3, <2>4, <3>1 DEF HoldInv, PendingInv
    <2>6. \A d \in Consumers, i \in ids : GroupOf[d] = g =>
             /\ i \notin fetched[d]
             /\ \A k \in Slots : slot[d][k].pc # "free" => slot[d][k].id # i
      BY <2>4 DEF HoldInv, HeldOnce
    <2>7. \A d \in Consumers : d # c => fetched'[d] = fetched[d]
      BY <1>t, <1>1
    <2>8. fetched'[c] \subseteq ids \/ fetched'[c] = fetched[c]
      BY <1>t, <1>1
    <2>c. GroupOf[c] = g
      BY DEF g
    <2>9. IdleFree'
      <3>1. ASSUME NEW h \in Groups, NEW i \in idle[h] PROVE ~InHand(h, i)'
        <4>1. ~InHand(h, i)
          BY DEF HoldInv, IdleFree
        <4>2. h = g => i \notin ids
          BY <2>4 DEF HoldInv, PendingInv
        <4> QED
          BY <1>2, <2>7, <2>8, <2>c, <4>1, <4>2 DEF InHand
      <3> QED
        BY <1>2, <3>1 DEF IdleFree
    <2>10. \A a, b \in Consumers :
              a # b /\ GroupOf[a] = GroupOf[b] => fetched'[a] \cap fetched'[b] = {}
      BY <2>6, <2>7, <2>8, <2>c DEF HoldInv, HeldOnce
    <2>11. \A a, b \in Consumers, k \in Slots :
              slot'[a][k].pc # "free" /\ GroupOf[a] = GroupOf[b] =>
                  slot'[a][k].id \notin fetched'[b]
      BY <1>2, <2>6, <2>7, <2>8, <2>c DEF HoldInv, HeldOnce
    <2>12. \A a \in Consumers : fetched'[a] \subseteq pel'[GroupOf[a]]
      BY <1>g, <2>3, <2>4, <2>7, <2>8, <2>c DEF HoldInv, HeldOnce
    <2>13. \A a \in Consumers, k \in Slots :
              slot'[a][k].pc # "free" => slot'[a][k].id \in pel'[GroupOf[a]]
      BY <1>g, <1>2, <2>4 DEF HoldInv, HeldOnce
    <2> QED
      BY <1>2, <2>5, <2>9, <2>10, <2>11, <2>12, <2>13 DEF HoldInv, HeldOnce
  <1> QED
    BY <1>3, <1>4

(* dispatch passes an entry from the loop to a goroutine.                  *)
LEMMA HoldDispatch ==
    ASSUME HoldInv, NEW c \in Consumers, NEW k \in Slots, Dispatch(c, k)
    PROVE  PendingInv' /\ HeldOnce' /\ IdleFree'
  <1>t. /\ slot \in [Consumers -> [Slots -> Task]]
        /\ fetched \in [Consumers -> SUBSET (1..Len(stream))]
    BY DEF HoldInv, TypeOK
  <1>1. UNCHANGED <<groups, delivered, pel, idle>>
    BY DEF Dispatch, redisVars
  <1>2. PICK i \in fetched[c], pc \in {"exec", "ack"} :
           /\ slot' = [slot EXCEPT ![c][k] = [pc |-> pc, id |-> i]]
           /\ fetched' = [fetched EXCEPT ![c] = @ \ {i}]
    BY DEF Dispatch
  <1>3. slot[c][k].pc = "free"
    BY DEF Dispatch
  <1>4. /\ slot'[c][k].pc # "free" /\ slot'[c][k].id = i
        /\ \A d \in Consumers, l \in Slots : ~(d = c /\ l = k) => slot'[d][l] = slot[d][l]
    BY <1>t, <1>2
  <1>5. /\ fetched'[c] = fetched[c] \ {i}
        /\ \A d \in Consumers : d # c => fetched'[d] = fetched[d]
    BY <1>t, <1>2
  <1>6. PendingInv'
    BY <1>1 DEF HoldInv, PendingInv
  <1>7. IdleFree'
    <2>1. ASSUME NEW g \in Groups, NEW j \in idle[g] PROVE ~InHand(g, j)'
      <3>1. ~InHand(g, j)
        BY DEF HoldInv, IdleFree
      <3>2. ASSUME NEW d \in Consumers, GroupOf[d] = g
            PROVE  /\ j \notin fetched'[d]
                   /\ \A l \in Slots : slot'[d][l].pc # "free" => slot'[d][l].id # j
        <4>1. /\ j \notin fetched[d]
              /\ \A l \in Slots : slot[d][l].pc # "free" => slot[d][l].id # j
          BY <3>1, <3>2 DEF InHand
        <4> QED
          BY <1>4, <1>5, <4>1
      <3> QED
        BY <3>2 DEF InHand
    <2> QED
      BY <1>1, <2>1 DEF IdleFree
  <1>8. \A a, b \in Consumers, m, l \in Slots :
           /\ slot'[a][m].pc # "free" /\ slot'[b][l].pc # "free"
           /\ slot'[a][m].id = slot'[b][l].id
           /\ GroupOf[a] = GroupOf[b]
           => <<a, m>> = <<b, l>>
    <2>1. \A a \in Consumers, m \in Slots :
             slot[a][m].pc # "free" /\ GroupOf[a] = GroupOf[c] => slot[a][m].id # i
      BY DEF HoldInv, HeldOnce
    <2>2. \A a, b \in Consumers, m, l \in Slots :
             /\ slot[a][m].pc # "free" /\ slot[b][l].pc # "free"
             /\ slot[a][m].id = slot[b][l].id
             /\ GroupOf[a] = GroupOf[b]
             => a = b /\ m = l
      BY DEF HoldInv, HeldOnce
    <2> QED
      BY <1>4, <2>1, <2>2
  <1>9. \A a, b \in Consumers :
           a # b /\ GroupOf[a] = GroupOf[b] => fetched'[a] \cap fetched'[b] = {}
    BY <1>5 DEF HoldInv, HeldOnce
  <1>10. \A a, b \in Consumers, l \in Slots :
            slot'[a][l].pc # "free" /\ GroupOf[a] = GroupOf[b] =>
                slot'[a][l].id \notin fetched'[b]
    <2>1. \A b \in Consumers : GroupOf[c] = GroupOf[b] => i \notin fetched'[b]
      BY <1>5 DEF HoldInv, HeldOnce
    <2>2. \A a, b \in Consumers, l \in Slots :
             slot[a][l].pc # "free" /\ GroupOf[a] = GroupOf[b] =>
                 slot[a][l].id \notin fetched'[b]
      BY <1>5 DEF HoldInv, HeldOnce
    <2> QED
      BY <1>4, <2>1, <2>2
  <1>11. /\ \A a \in Consumers, l \in Slots :
               slot'[a][l].pc # "free" => slot'[a][l].id \in pel'[GroupOf[a]]
         /\ \A a \in Consumers : fetched'[a] \subseteq pel'[GroupOf[a]]
    BY <1>1, <1>4, <1>5 DEF HoldInv, HeldOnce
  <1> QED
    BY <1>6, <1>7, <1>8, <1>9, <1>10, <1>11 DEF HeldOnce

(* A goroutine's step keeps its own entry or gives it up.                  *)
LEMMA HoldTaskStep ==
    ASSUME HoldInv, NEW c \in Consumers, NEW k \in Slots, TaskStep(c, k)
    PROVE  PendingInv' /\ HeldOnce' /\ IdleFree'
  <1> DEFINE g == GroupOf[c]
             i == slot[c][k].id
  <1>t. /\ slot \in [Consumers -> [Slots -> Task]]
        /\ pel \in [Groups -> SUBSET (1..Len(stream))]
        /\ idle \in [Groups -> SUBSET (1..Len(stream))]
    BY DEF HoldInv, TypeOK
  <1>g. g \in Groups
    BY ConstantsAssumption
  <1>1. UNCHANGED <<groups, delivered, fetched>>
    BY DEF TaskStep, HandlerOk, HandlerErr, Retry, Ack, redisVars, loopVars
  <1>2. /\ slot[c][k].pc # "free"
        /\ \/ \E pc \in {"retry", "ack"} : SetTask(c, k, pc)
           \/ EndTask(c, k)
    BY DEF TaskStep, HandlerOk, HandlerErr, Retry, Ack
  <1>3. HandsShrink
    <2>1. CASE \E pc \in {"retry", "ack"} : SetTask(c, k, pc)
      BY <1>t, <1>1, <1>2, <2>1, SetTaskSlot DEF HandsShrink
    <2>2. CASE EndTask(c, k)
      BY <1>t, <1>1, <1>2, <2>2, EndTaskSlot DEF HandsShrink
    <2> QED
      BY <1>2, <2>1, <2>2
  <1>4. CASE UNCHANGED <<pel, idle>>
    <2>1. PendingInv'
      BY <1>1, <1>4 DEF HoldInv, PendingInv
    <2>2. /\ \A d \in Consumers, l \in Slots :
                slot'[d][l].pc # "free" => slot'[d][l].id \in pel'[GroupOf[d]]
          /\ \A d \in Consumers : fetched'[d] \subseteq pel'[GroupOf[d]]
      BY <1>1, <1>3, <1>4 DEF HandsShrink, HoldInv, HeldOnce
    <2> QED
      BY <1>3, <1>4, <2>1, <2>2, HoldKept
  <1>5. CASE Ack(c, k) /\ XAck(g, i)
    <2>1. EndTask(c, k)
      BY <1>5 DEF Ack
    <2>2. /\ \A h \in Groups : h # g => pel'[h] = pel[h] /\ idle'[h] = idle[h]
          /\ pel'[g] = pel[g] \ {i}
          /\ idle'[g] = idle[g] \ {i}
      BY <1>t, <1>g, <1>5 DEF XAck
    <2>3. PendingInv'
      BY <1>1, <2>2 DEF HoldInv, PendingInv
    <2>4. \A d \in Consumers : GroupOf[d] = g => i \notin fetched[d]
      BY <1>2 DEF HoldInv, HeldOnce
    <2>5. ASSUME NEW d \in Consumers, NEW l \in Slots, slot'[d][l].pc # "free", GroupOf[d] = g
          PROVE  slot'[d][l].id # i
      <3>1. ~(d = c /\ l = k)
        BY <1>t, <2>1, <2>5, EndTaskSlot
      <3>2. slot[d][l].pc # "free" /\ slot'[d][l].id = slot[d][l].id
        BY <1>3, <2>5 DEF HandsShrink
      <3> QED
        BY <1>2, <2>5, <3>1, <3>2 DEF HoldInv, HeldOnce
    <2> HIDE DEF g, i
    <2>6. /\ \A d \in Consumers, l \in Slots :
                slot[d][l].pc # "free" => slot[d][l].id \in pel[GroupOf[d]]
          /\ \A d \in Consumers : GroupOf[d] \in Groups /\ fetched[d] \subseteq pel[GroupOf[d]]
      BY ConstantsAssumption DEF HoldInv, HeldOnce
    <2>7. \A d \in Consumers, l \in Slots :
             slot'[d][l].pc # "free" => slot'[d][l].id \in pel'[GroupOf[d]]
      BY <1>3, <2>2, <2>5, <2>6 DEF HandsShrink
    <2>8. \A d \in Consumers : fetched'[d] \subseteq pel'[GroupOf[d]]
      BY <1>1, <2>2, <2>4, <2>6
    <2>9. \A h \in Groups : idle'[h] \subseteq idle[h]
      BY <2>2
    <2> QED
      BY <1>3, <2>3, <2>7, <2>8, <2>9, HoldKept
  <1>6. UNCHANGED <<pel, idle>> \/ (Ack(c, k) /\ XAck(g, i))
    BY DEF TaskStep, HandlerOk, HandlerErr, Retry, Ack, redisVars
  <1> QED
    BY <1>4, <1>5, <1>6

(* A crash empties the hands of one instance.                              *)
LEMMA HoldCrash ==
    ASSUME HoldInv, NEW p \in Procs, Crash(p)
    PROVE  PendingInv' /\ HeldOnce' /\ IdleFree'
  <1>1. /\ fetched' = [c \in Consumers |-> IF ProcOf[c] = p THEN {} ELSE fetched[c]]
        /\ slot' = [c \in Consumers |-> IF ProcOf[c] = p THEN [k \in Slots |-> Free]
                                                         ELSE slot[c]]
        /\ UNCHANGED <<groups, delivered, pel, idle>>
    BY DEF Crash, redisVars
  <1>2. HandsShrink
    BY <1>1 DEF HandsShrink, Free
  <1>3. PendingInv'
    BY <1>1 DEF HoldInv, PendingInv
  <1>4. /\ \A d \in Consumers, l \in Slots :
              slot'[d][l].pc # "free" => slot'[d][l].id \in pel'[GroupOf[d]]
        /\ \A d \in Consumers : fetched'[d] \subseteq pel'[GroupOf[d]]
    BY <1>1, <1>2 DEF HandsShrink, HoldInv, HeldOnce
  <1> QED
    BY <1>1, <1>2, <1>3, <1>4, HoldKept

(* No handler is slow: only what is in nobody's hand becomes claimable.    *)
LEMMA HoldBecomeIdle ==
    ASSUME HoldInv, SlowHandlers = FALSE, NEW g \in Groups, NEW i \in pel[g], BecomeIdle(g, i)
    PROVE  PendingInv' /\ HeldOnce' /\ IdleFree'
  <1>t. idle \in [Groups -> SUBSET (1..Len(stream))]
    BY DEF HoldInv, TypeOK
  <1>1. /\ idle' = [idle EXCEPT ![g] = @ \cup {i}]
        /\ ~InHand(g, i)
        /\ UNCHANGED <<groups, delivered, pel, slot, fetched>>
    BY DEF BecomeIdle, loopVars
  <1>2. \A h \in Groups : idle'[h] = idle[h] \/ (h = g /\ idle'[h] = idle[h] \cup {i})
    BY <1>t, <1>1
  <1>3. HeldOnce'
    BY <1>1 DEF HoldInv, HeldOnce
  <1>4. \A h \in Groups : \A j : InHand(h, j)' <=> InHand(h, j)
    BY <1>1 DEF InHand
  <1> QED
    BY <1>1, <1>2, <1>3, <1>4 DEF HoldInv, PendingInv, IdleFree

LEMMA HoldNext ==
    ASSUME SlowHandlers = FALSE
    PROVE  HoldInv /\ [Next]_vars => HoldInv'
  <1> SUFFICES ASSUME HoldInv, [Next]_vars PROVE PendingInv' /\ HeldOnce' /\ IdleFree'
    BY TypeNext DEF HoldInv
  <1>1. CASE UNCHANGED vars
    BY <1>1, HoldQuiet DEF vars, redisVars, loopVars
  <1>2. ASSUME NEW p \in Procs, NEW m \in Msgs, Publish(p, m) \/ PublishDelay(p, m)
        PROVE  PendingInv' /\ HeldOnce' /\ IdleFree'
    BY <1>2, HoldQuiet DEF Publish, PublishDelay, loopVars
  <1>3. ASSUME NEW p \in Procs, SchedStep(p)
        PROVE  PendingInv' /\ HeldOnce' /\ IdleFree'
    BY <1>3, HoldQuiet DEF SchedStep, SchedScan, SchedPublish, SchedRemove, SchedExit,
       redisVars, loopVars
  <1>4. ASSUME NEW c \in Consumers, LoopStep(c) \/ Stop(c)
        PROVE  PendingInv' /\ HeldOnce' /\ IdleFree'
    <2>1. CASE AutoClaimUnknown(c) \/ LoopExit(c) \/ LoopDone(c) \/ Stop(c)
      BY <2>1, HoldQuiet DEF AutoClaimUnknown, LoopExit, LoopDone, Stop, redisVars
    <2> QED
      BY <1>4, <2>1, HoldAutoClaim, HoldReadGroup, HoldDispatch DEF LoopStep
  <1>5. ASSUME NEW p \in Procs, Close(p) \/ CloseDone(p) \/ CloseTimeout(p) \/ Restart(p)
        PROVE  PendingInv' /\ HeldOnce' /\ IdleFree'
    BY <1>5, HoldQuiet DEF Close, CloseDone, CloseTimeout, Restart, redisVars, loopVars
  <1>6. CASE TimeStep
    <2>1. ASSUME NEW e \in zset, BecomeDue(e) PROVE PendingInv' /\ HeldOnce' /\ IdleFree'
      BY <2>1, HoldQuiet DEF BecomeDue, loopVars
    <2> QED
      BY <1>6, <2>1, HoldBecomeIdle DEF TimeStep
  <1>7. CASE Next
    BY <1>2, <1>3, <1>4, <1>5, <1>6, <1>7, HoldConsume, HoldTaskStep, HoldCrash DEF Next
  <1> QED
    BY <1>1, <1>7

(* With handlers that end before redisClaimMinIdle, for any instances,     *)
(* groups and consumers, and whatever fails, crashes or is stopped: an     *)
(* entry is in the hands of one loop or of one handler goroutine of its    *)
(* group, and stays pending as long as it is.                              *)
THEOREM HeldByOne ==
    ASSUME SlowHandlers = FALSE
    PROVE  Spec => []HeldOnce
  <1>1. HoldInv /\ [Next]_vars => HoldInv'
    BY HoldNext
  <1>2. HoldInv => HeldOnce
    BY DEF HoldInv
  <1> QED
    BY <1>1, <1>2, HoldInit, PTL DEF Spec

-----------------------------------------------------------------------------
(* An attempt enters the stream once.                                      *)

OneInstance == \A p, q \in Procs : p = q
OneGroup == \A c, d \in Consumers : GroupOf[c] = GroupOf[d]

Streamed(e) == \E i \in DOMAIN stream : stream[i] = e
Stored(e) == e \in zset \/ Streamed(e)
NextOf(e) == [e EXCEPT !.attempt = @ + 1]

(* Nothing failed, died or was stopped; and the client is still open.      *)
Clean == faults = 0 /\ crashes = 0 /\ \A c \in Consumers : ~cancelled[c]
Live == Clean /\ \A p \in Procs : ClientUsable(p)

DownCrashed == \A p \in Procs : life[p] = "down" => crashes # 0
Unique == \A i, j \in DOMAIN stream : stream[i] = stream[j] => i = j

(* The delay set and the stream share only the one member the scheduler is *)
(* about to remove; what it is about to publish is in the delay set only.  *)
Handover ==
    /\ \A e \in zset : Streamed(e) => \E p \in Procs : e \in removing[p]
    /\ \A p \in Procs : \A e \in taken[p] : e \in zset /\ ~Streamed(e)
    /\ \A p \in Procs : \A e \in removing[p] : Streamed(e)
    /\ \A p \in Procs : \A e, f \in removing[p] : e = f

(* A later attempt is stored after the one before it was in the stream,    *)
(* and nothing is stored of a message that was not published.              *)
Derived ==
    \A e \in Entry : Stored(e) =>
        /\ e.attempt > 0 => \E i \in DOMAIN stream : e = NextOf(stream[i])
        /\ accepted[e.msg] # 0

(* An entry is still to be executed: not received, or pending and its      *)
(* goroutine not past its retry.  No retry of such an entry is stored.     *)
MayRun(c, i) ==
    /\ delivered[GroupOf[c]] < i \/ i \in pel[GroupOf[c]]
    /\ \A d \in Consumers, k \in Slots : slot[d][k].pc = "ack" => slot[d][k].id # i

NotYetRetried ==
    \A c \in Consumers, i \in DOMAIN stream : MayRun(c, i) => ~Stored(NextOf(stream[i]))

OnceInv ==
    /\ HoldInv
    /\ DownCrashed
    /\ Clean => Unique
    /\ Live => Handover /\ Derived /\ NotYetRetried

LEMMA NextEntry ==
    ASSUME NEW e \in Entry
    PROVE  /\ NextOf(e).msg = e.msg
           /\ NextOf(e).attempt = e.attempt + 1
           /\ e.attempt \in Nat /\ e.attempt + 1 > 0
           /\ NextOf(e) # e
           /\ \A f \in Entry : NextOf(e) = NextOf(f) => e = f
  <1>1. e.attempt \in Nat /\ \A f \in Entry : f.attempt \in Nat
    BY ConstantsAssumption DEF Entry
  <1>2. /\ NextOf(e).msg = e.msg
        /\ NextOf(e).attempt = e.attempt + 1
    BY DEF NextOf, Entry
  <1>3. ASSUME NEW f \in Entry, NextOf(e) = NextOf(f)
        PROVE  e = f
    <2>1. NextOf(f).msg = f.msg /\ NextOf(f).attempt = f.attempt + 1
      BY DEF NextOf, Entry
    <2>2. e.msg = f.msg /\ e.attempt = f.attempt
      BY <1>1, <1>2, <1>3, <2>1
    <2> QED
      BY <2>2 DEF Entry
  <1> QED
    BY <1>1, <1>2, <1>3

LEMMA StoredType ==
    ASSUME TypeOK, NEW e, Stored(e)
    PROVE  e \in Entry
  BY DEF TypeOK, Stored, Streamed

(* What XADD stores.                                                       *)
LEMMA XAddStream ==
    ASSUME TypeOK, NEW e \in Entry, XAdd(e)
    PROVE  /\ DOMAIN stream' = DOMAIN stream \cup {Len(stream) + 1}
           /\ Len(stream) + 1 \notin DOMAIN stream
           /\ stream'[Len(stream) + 1] = e
           /\ \A i \in DOMAIN stream : stream'[i] = stream[i]
           /\ \A f : Streamed(f)' <=> Streamed(f) \/ f = e
  <1>t. stream \in Seq(Entry) /\ Len(stream) \in Nat /\ DOMAIN stream = 1..Len(stream)
    BY DEF TypeOK
  <1>1. /\ stream' \in Seq(Entry)
        /\ Len(stream') = Len(stream) + 1
        /\ \A i \in 1..Len(stream) : stream'[i] = stream[i]
        /\ stream'[Len(stream) + 1] = e
    BY <1>t, XAddGrows
  <1>2. DOMAIN stream' = 1..(Len(stream) + 1)
    BY <1>1
  <1>3. /\ DOMAIN stream' = DOMAIN stream \cup {Len(stream) + 1}
        /\ Len(stream) + 1 \notin DOMAIN stream
    BY <1>t, <1>2
  <1> QED
    BY <1>t, <1>1, <1>3 DEF Streamed

(* A step never undoes a failure, a crash or a cancellation unseen.        *)
LEMMA StaysClean ==
    ASSUME TypeOK, Next, Clean'
    PROVE  Clean /\ UNCHANGED crashes /\ \A p \in Procs : ~Crash(p)
  <1>t. /\ faults \in Nat /\ crashes \in Nat
        /\ cancelled \in [Consumers -> BOOLEAN]
    BY DEF TypeOK
  <1>1. ASSUME NEW p \in Procs, Crash(p) PROVE FALSE
    BY <1>t, <1>1 DEF Crash, Clean
  <1> DEFINE Harmless ==
               /\ UNCHANGED crashes
               /\ UNCHANGED faults \/ faults' = faults + 1
               /\ \/ UNCHANGED cancelled
                  \/ \E c \in Consumers : cancelled' = [cancelled EXCEPT ![c] = TRUE]
  <1>2. Harmless
    <2>1. ASSUME NEW p \in Procs, NEW m \in Msgs, Publish(p, m) \/ PublishDelay(p, m)
          PROVE  Harmless
      BY <2>1 DEF Publish, PublishDelay, Call, loopVars
    <2>2. ASSUME NEW p \in Procs, SchedStep(p)
          PROVE  Harmless
      BY <2>2 DEF SchedStep, SchedScan, SchedPublish, SchedRemove, SchedExit, Call, loopVars
    <2>3. ASSUME NEW c \in Consumers, Consume(c) \/ LoopStep(c) \/ Stop(c)
          PROVE  Harmless
      BY <2>3 DEF Consume, LoopStep, Stop, AutoClaim, AutoClaimUnknown, ReadGroup, Dispatch,
         LoopExit, LoopDone, Call
    <2>4. ASSUME NEW c \in Consumers, NEW k \in Slots, TaskStep(c, k)
          PROVE  Harmless
      BY <2>4 DEF TaskStep, HandlerOk, HandlerErr, Retry, Ack, Call, loopVars
    <2>5. ASSUME NEW p \in Procs, Close(p) \/ CloseDone(p) \/ CloseTimeout(p) \/ Restart(p)
          PROVE  Harmless
      BY <2>5 DEF Close, CloseDone, CloseTimeout, Restart, loopVars
    <2>6. CASE TimeStep
      BY <2>6 DEF TimeStep, BecomeDue, BecomeIdle, loopVars
    <2> QED
      BY <1>1, <2>1, <2>2, <2>3, <2>4, <2>5, <2>6 DEF Next
  <1>3. faults = 0 /\ crashes = 0
    BY <1>t, <1>2 DEF Clean
  <1>4. \A c \in Consumers : ~cancelled[c]
    BY <1>t, <1>2 DEF Clean
  <1> QED
    BY <1>1, <1>2, <1>3, <1>4 DEF Clean

(* An instance that is down has crashed.                                   *)
LEMMA DownNext ==
    ASSUME TypeOK, DownCrashed, Next
    PROVE  DownCrashed'
  <1>t. crashes \in Nat /\ life \in [Procs -> {"open", "closing", "closed", "down"}]
    BY DEF TypeOK
  <1>1. CASE UNCHANGED <<life, crashes>>
    BY <1>1 DEF DownCrashed
  <1>2. ASSUME NEW p \in Procs, Close(p) \/ CloseDone(p) \/ CloseTimeout(p) \/ Restart(p)
        PROVE  DownCrashed'
    <2>1. /\ UNCHANGED crashes
          /\ \E s \in {"open", "closing", "closed"} : life' = [life EXCEPT ![p] = s]
      BY <1>2 DEF Close, CloseDone, CloseTimeout, Restart
    <2> QED
      BY <1>t, <2>1 DEF DownCrashed
  <1>3. ASSUME NEW p \in Procs, Crash(p)
        PROVE  DownCrashed'
    BY <1>t, <1>3 DEF Crash, DownCrashed
  <1>4. ASSUME NEW p \in Procs, NEW m \in Msgs, Publish(p, m) \/ PublishDelay(p, m)
        PROVE  UNCHANGED <<life, crashes>>
    BY <1>4 DEF Publish, PublishDelay
  <1>5. ASSUME NEW p \in Procs, SchedStep(p)
        PROVE  UNCHANGED <<life, crashes>>
    BY <1>5 DEF SchedStep, SchedScan, SchedPublish, SchedRemove, SchedExit
  <1>6. ASSUME NEW c \in Consumers, Consume(c) \/ LoopStep(c) \/ Stop(c)
        PROVE  UNCHANGED <<life, crashes>>
    BY <1>6 DEF Consume, LoopStep, Stop, AutoClaim, AutoClaimUnknown, ReadGroup, Dispatch,
       LoopExit, LoopDone
  <1>7. ASSUME NEW c \in Consumers, NEW k \in Slots, TaskStep(c, k)
        PROVE  UNCHANGED <<life, crashes>>
    BY <1>7 DEF TaskStep, HandlerOk, HandlerErr, Retry, Ack
  <1>8. TimeStep => UNCHANGED <<life, crashes>>
    BY DEF TimeStep, BecomeDue, BecomeIdle
  <1> QED
    BY <1>1, <1>2, <1>3, <1>4, <1>5, <1>6, <1>7, <1>8 DEF Next

LEMMA StaysLive ==
    ASSUME OnceInv, Next, Live'
    PROVE  Live
  <1>t. TypeOK /\ life \in [Procs -> {"open", "closing", "closed", "down"}]
    BY DEF OnceInv, HoldInv, TypeOK
  <1>1. Clean /\ \A p \in Procs : ~Crash(p)
    BY <1>t, StaysClean DEF Live
  <1>2. \A p \in Procs : life[p] # "down"
    BY <1>1 DEF OnceInv, DownCrashed, Clean
  <1>3. ASSUME NEW p \in Procs, life[p] = "closed" PROVE FALSE
    <2>1. CASE life'[p] = life[p]
      BY <1>3, <2>1 DEF Live, ClientUsable
    <2>2. ASSUME NEW q \in Procs, Close(q) \/ CloseDone(q) \/ CloseTimeout(q) \/ Restart(q)
          PROVE  life'[p] = life[p]
      BY <1>t, <1>2, <1>3, <2>2 DEF Close, CloseDone, CloseTimeout, Restart
    <2>3. UNCHANGED life \/ \E q \in Procs : \/ Close(q) \/ CloseDone(q) \/ CloseTimeout(q)
                                             \/ Crash(q) \/ Restart(q)
      BY DEF Next, Publish, PublishDelay, SchedStep, SchedScan, SchedPublish, SchedRemove,
         SchedExit, Consume, LoopStep, Stop, AutoClaim, AutoClaimUnknown, ReadGroup, Dispatch,
         LoopExit, LoopDone, TaskStep, HandlerOk, HandlerErr, Retry, Ack, TimeStep, BecomeDue,
         BecomeIdle
    <2> QED
      BY <1>1, <2>1, <2>2, <2>3
  <1> QED
    BY <1>t, <1>1, <1>2, <1>3 DEF Live, ClientUsable

(* The one instance closed its client: nothing is published any more.      *)
LEMMA ClosedStream ==
    ASSUME OneInstance, OnceInv, Next, Clean', ~Live
    PROVE  UNCHANGED stream
  <1>1. Clean
    BY StaysClean DEF OnceInv, HoldInv
  <1>2. \A p \in Procs : ~ClientUsable(p)
    BY <1>1 DEF Live, OneInstance
  <1>3. \A p \in Procs, m \in Msgs : ~Publish(p, m)
    BY <1>2 DEF Publish
  <1>4. ASSUME NEW p \in Procs, NEW e, SchedPublish(p, e)
        PROVE  UNCHANGED stream
    BY <1>2, <1>4 DEF SchedPublish, Call, Applied
  <1>5. ASSUME NEW p \in Procs, SchedStep(p)
        PROVE  UNCHANGED stream
    BY <1>4, <1>5 DEF SchedStep, SchedScan, SchedRemove, SchedExit, redisVars
  <1>6. ASSUME NEW c \in Consumers, Consume(c) \/ LoopStep(c) \/ Stop(c)
        PROVE  UNCHANGED stream
    BY <1>6 DEF Consume, LoopStep, Stop, AutoClaim, AutoClaimUnknown, ReadGroup, Dispatch,
       LoopExit, LoopDone, redisVars
  <1>7. ASSUME NEW c \in Consumers, NEW k \in Slots, TaskStep(c, k)
        PROVE  UNCHANGED stream
    BY <1>7 DEF TaskStep, HandlerOk, HandlerErr, Retry, Ack, redisVars
  <1>8. ASSUME NEW p \in Procs,
               Close(p) \/ CloseDone(p) \/ CloseTimeout(p) \/ Crash(p) \/ Restart(p)
        PROVE  UNCHANGED stream
    BY <1>8 DEF Close, CloseDone, CloseTimeout, Crash, Restart, redisVars
  <1>9. TimeStep => UNCHANGED stream
    BY DEF TimeStep, BecomeDue, BecomeIdle
  <1>10. ASSUME NEW p \in Procs, NEW m \in Msgs, PublishDelay(p, m)
         PROVE  UNCHANGED stream
    BY <1>10 DEF PublishDelay
  <1> QED
    BY <1>3, <1>5, <1>6, <1>7, <1>8, <1>9, <1>10 DEF Next

OnceBody == Unique /\ Handover /\ Derived /\ NotYetRetried

LEMMA OnceBodyType ==
    ASSUME OnceInv, Live
    PROVE  /\ TypeOK /\ PendingInv /\ HeldOnce /\ OnceBody
           /\ stream \in Seq(Entry) /\ DOMAIN stream = 1..Len(stream) /\ Len(stream) \in Nat
           /\ zset \subseteq Entry
           /\ faults \in Nat /\ faults = 0
           /\ accepted \in [Msgs -> Nat]
           /\ \A c \in Consumers : GroupOf[c] \in Groups /\ CtxUsable(c)
  <1>1. \A c \in Consumers : GroupOf[c] \in Groups /\ ProcOf[c] \in Procs
    BY ConstantsAssumption
  <1>2. /\ TypeOK /\ PendingInv /\ HeldOnce /\ OnceBody
        /\ faults = 0
        /\ \A c \in Consumers : CtxUsable(c)
    BY <1>1 DEF OnceInv, HoldInv, OnceBody, Live, Clean, CtxUsable
  <1> QED
    BY <1>1, <1>2 DEF TypeOK

(* A step that stores nothing and lets no entry be executed again.         *)
LEMMA OnceFrame ==
    ASSUME OnceInv, Live, UNCHANGED <<stream, accepted>>, zset' \subseteq zset,
           \A c \in Consumers, i \in DOMAIN stream : MayRun(c, i)' => MayRun(c, i)
    PROVE  Unique' /\ Derived' /\ NotYetRetried'
  <1>1. \A e : Stored(e)' => Stored(e)
    BY DEF Stored, Streamed
  <1>2. \A e : Streamed(e)' <=> Streamed(e)
    BY DEF Streamed
  <1>3. Unique'
    BY OnceBodyType DEF OnceBody, Unique
  <1>4. Derived'
    BY <1>1, OnceBodyType DEF OnceBody, Derived
  <1>5. NotYetRetried'
    BY <1>1, OnceBodyType DEF OnceBody, NotYetRetried
  <1> QED
    BY <1>3, <1>4, <1>5

LEMMA OnceQuiet ==
    ASSUME OnceInv, Live, UNCHANGED <<stream, zset, taken, removing, accepted>>,
           \A c \in Consumers, i \in DOMAIN stream : MayRun(c, i)' => MayRun(c, i)
    PROVE  OnceBody'
  <1>1. \A e : Streamed(e)' <=> Streamed(e)
    BY DEF Streamed
  <1>2. Handover'
    BY <1>1, OnceBodyType DEF OnceBody, Handover
  <1> QED
    BY <1>2, OnceFrame DEF OnceBody

(* XADD of a new attempt: of a first one that is stored nowhere, or of one *)
(* that comes out of the delay set.                                        *)
LEMMA OnceXAdd ==
    ASSUME OnceInv, Live, NEW e \in Entry, XAdd(e), ~Streamed(e),
           e \in zset \/ e.attempt = 0,
           UNCHANGED <<zset, delivered, pel, slot>>,
           \A m \in Msgs : accepted[m] # 0 => accepted'[m] # 0,
           accepted'[e.msg] # 0
    PROVE  /\ Unique' /\ Derived' /\ NotYetRetried'
           /\ \A f : Streamed(f)' <=> Streamed(f) \/ f = e
  <1>b. /\ TypeOK /\ Unique /\ Derived /\ NotYetRetried
        /\ stream \in Seq(Entry) /\ DOMAIN stream = 1..Len(stream)
    BY OnceBodyType DEF OnceBody
  <1> DEFINE n == Len(stream) + 1
  <1>1. /\ DOMAIN stream' = DOMAIN stream \cup {n}
        /\ n \notin DOMAIN stream
        /\ stream'[n] = e
        /\ \A i \in DOMAIN stream : stream'[i] = stream[i]
        /\ \A f : Streamed(f)' <=> Streamed(f) \/ f = e
    BY <1>b, XAddStream
  <1> HIDE DEF n
  <1>2. \A f : Stored(f)' <=> Stored(f) \/ f = e
    BY <1>1 DEF Stored
  <1>3. \A i \in DOMAIN stream : stream[i] # e /\ stream[i] \in Entry
    BY <1>b DEF Streamed
  <1>4. Unique'
    BY <1>b, <1>1, <1>3 DEF Unique
  <1>5. Derived'
    <2>1. ASSUME NEW f \in Entry, Stored(f)'
          PROVE  /\ f.attempt > 0 => \E i \in DOMAIN stream' : f = NextOf(stream'[i])
                 /\ accepted'[f.msg] # 0
      <3>1. CASE Stored(f)
        <4>1. f.msg \in Msgs
          BY DEF Entry
        <4>2. /\ f.attempt > 0 => \E i \in DOMAIN stream : f = NextOf(stream[i])
              /\ accepted[f.msg] # 0
          BY <1>b, <3>1 DEF Derived
        <4> QED
          BY <1>1, <4>1, <4>2
      <3>2. CASE ~Stored(f)
        <4>1. f = e /\ f \notin zset
          BY <1>2, <2>1, <3>2 DEF Stored
        <4> QED
          BY <4>1
      <3> QED
        BY <3>1, <3>2
    <2> QED
      BY <2>1 DEF Derived
  <1>6. NotYetRetried'
    <2> DEFINE StoredNow(f) == f \in zset' \/ \E i \in DOMAIN stream' : stream'[i] = f
    <2>s. \A f : StoredNow(f) <=> Stored(f) \/ f = e
      BY <1>2 DEF Stored, Streamed
    <2>1. ASSUME NEW c \in Consumers, NEW i \in DOMAIN stream, MayRun(c, i)'
          PROVE  ~StoredNow(NextOf(stream[i]))
      <3>1. MayRun(c, i)
        BY <2>1 DEF MayRun
      <3>2. ~Stored(NextOf(stream[i]))
        BY <1>b, <3>1 DEF NotYetRetried
      <3>3. NextOf(stream[i]).attempt = stream[i].attempt + 1 /\ stream[i].attempt \in Nat
        BY <1>3, NextEntry
      <3>4. NextOf(stream[i]) # e
        BY <3>2, <3>3 DEF Stored
      <3> QED
        BY <2>s, <3>2, <3>4
    <2>2. ~StoredNow(NextOf(e))
      <3>1. NextOf(e) # e /\ NextOf(e).attempt > 0
        BY NextEntry
      <3>2. ASSUME Stored(NextOf(e)) PROVE FALSE
        <4>1. NextOf(e) \in Entry
          BY <1>b, <3>2, StoredType
        <4>2. PICK i \in DOMAIN stream : NextOf(e) = NextOf(stream[i])
          BY <1>b, <3>1, <3>2, <4>1 DEF Derived
        <4>3. e = stream[i]
          BY <1>3, <4>2, NextEntry
        <4> QED
          BY <1>3, <4>3
      <3> QED
        BY <2>s, <3>1, <3>2
    <2> HIDE DEF StoredNow
    <2>3. \A c \in Consumers, i \in DOMAIN stream' :
             MayRun(c, i)' => ~StoredNow(NextOf(stream'[i]))
      BY <1>1, <2>1, <2>2
    <2> QED
      BY <2>3 DEF NotYetRetried, Stored, Streamed, StoredNow
  <1> QED
    BY <1>1, <1>4, <1>5, <1>6

(* Each message is published once: nothing of it is stored before.         *)
LEMMA OncePublish ==
    ASSUME OnceInv, Live, Live', MaxPublish = 1, NEW p \in Procs, NEW m \in Msgs,
           Publish(p, m) \/ PublishDelay(p, m)
    PROVE  OnceBody'
  <1> DEFINE e == [msg |-> m, attempt |-> 0]
  <1>b. /\ TypeOK /\ Handover /\ Derived
        /\ faults \in Nat /\ faults' = 0
        /\ accepted \in [Msgs -> Nat]
    BY OnceBodyType DEF OnceBody, Live, Clean
  <1>1. e \in Entry /\ e.msg = m /\ e.attempt = 0
    BY ConstantsAssumption DEF Entry
  <1>2. accepted[m] = 0
    <2>1. accepted[m] < 1
      BY DEF Publish, PublishDelay
    <2>2. accepted[m] \in Nat
      BY <1>b
    <2> QED
      BY <2>1, <2>2
  <1>3. ~Stored(e)
    BY <1>b, <1>1, <1>2 DEF Derived
  <1>4. \A res \in Results, cmd \in Commands : Call(cmd, TRUE, res) => res = "ok"
    BY <1>b DEF Call
  <1>5. UNCHANGED <<delivered, pel, slot, taken, removing>>
    BY DEF Publish, PublishDelay, schedVars
  <1> HIDE DEF e
  <1>6. ASSUME accepted' = [accepted EXCEPT ![m] = @ + 1]
        PROVE  /\ \A x \in Msgs : accepted[x] # 0 => accepted'[x] # 0
               /\ accepted'[m] # 0
    BY <1>b, <1>6
  <1>7. CASE Publish(p, m)
    <2>1. /\ XAdd(e) /\ UNCHANGED zset
          /\ accepted' = [accepted EXCEPT ![m] = @ + 1]
      BY <1>4, <1>7 DEF Publish, Applied, Commands, e
    <2>2. /\ Unique' /\ Derived' /\ NotYetRetried'
          /\ \A f : Streamed(f)' <=> Streamed(f) \/ f = e
      BY <1>1, <1>3, <1>5, <1>6, <2>1, OnceXAdd DEF Stored
    <2>3. Handover'
      BY <1>b, <1>3, <1>5, <2>1, <2>2 DEF Handover, Stored
    <2> QED
      BY <2>2, <2>3 DEF OnceBody
  <1>8. CASE PublishDelay(p, m)
    <2>1. /\ zset' = zset \cup {e} /\ UNCHANGED stream
          /\ accepted' = [accepted EXCEPT ![m] = @ + 1]
      BY <1>4, <1>8 DEF PublishDelay, Applied, Commands, ZAdd, e
    <2>2. Unique'
      BY <2>1, OnceBodyType DEF OnceBody, Unique
    <2>3. \A f : Streamed(f)' <=> Streamed(f)
      BY <2>1 DEF Streamed
    <2>4. \A f : f \in zset' \/ Streamed(f) <=> Stored(f) \/ f = e
      BY <2>1 DEF Stored
    <2>5. Handover'
      BY <1>b, <1>3, <1>5, <2>1, <2>3 DEF Handover, Stored
    <2>6. Derived'
      <3>1. ASSUME NEW f \in Entry, f \in zset' \/ Streamed(f)
            PROVE  /\ f.attempt > 0 => \E i \in DOMAIN stream : f = NextOf(stream[i])
                   /\ accepted'[f.msg] # 0
        <4>1. CASE f = e
          BY <1>1, <1>6, <2>1, <4>1
        <4>2. CASE Stored(f)
          <5>1. f.msg \in Msgs
            BY DEF Entry
          <5> QED
            BY <1>b, <1>6, <2>1, <4>2, <5>1 DEF Derived
        <4> QED
          BY <2>4, <3>1, <4>1, <4>2
      <3> QED
        BY <2>1, <2>3, <3>1 DEF Derived, Stored
    <2>7. NotYetRetried'
      <3>1. ASSUME NEW c \in Consumers, NEW i \in DOMAIN stream, MayRun(c, i)
            PROVE  ~(NextOf(stream[i]) \in zset' \/ Streamed(NextOf(stream[i])))
        <4>1. ~Stored(NextOf(stream[i]))
          BY <3>1, OnceBodyType DEF OnceBody, NotYetRetried
        <4>2. stream[i] \in Entry
          BY <1>b DEF TypeOK
        <4>3. NextOf(stream[i]).attempt = stream[i].attempt + 1 /\ stream[i].attempt \in Nat
          BY <4>2, NextEntry
        <4>4. NextOf(stream[i]) # e
          BY <1>1, <4>3
        <4> QED
          BY <2>4, <4>1, <4>4
      <3>2. \A c \in Consumers, i \in DOMAIN stream : MayRun(c, i)' <=> MayRun(c, i)
        BY <1>5 DEF MayRun
      <3> QED
        BY <2>1, <2>3, <3>1, <3>2 DEF NotYetRetried, Stored, Streamed
    <2> QED
      BY <2>2, <2>5, <2>6, <2>7 DEF OnceBody
  <1> QED
    BY <1>7, <1>8

(* The one scheduler moves a member from the delay set to the stream.      *)
LEMMA OnceSchedStep ==
    ASSUME OneInstance, OnceInv, Live, Live', NEW p \in Procs, SchedStep(p)
    PROVE  OnceBody'
  <1>b. /\ TypeOK /\ Handover /\ Derived
        /\ faults \in Nat /\ faults' = 0
        /\ ClientUsable(p)
        /\ taken \in [Procs -> SUBSET Entry]
        /\ removing \in [Procs -> SUBSET Entry]
        /\ due \subseteq zset
        /\ Procs = {p}
    BY OnceBodyType DEF OnceBody, Live, Clean, TypeOK, OneInstance
  <1>1. UNCHANGED <<delivered, pel, slot, accepted>>
    BY DEF SchedStep, SchedScan, SchedPublish, SchedRemove, SchedExit, redisVars, historyVars
  <1>2. \A c \in Consumers, i \in DOMAIN stream : MayRun(c, i)' <=> MayRun(c, i)
    BY <1>1 DEF MayRun
  <1>3. CASE SchedScan(p)
    <2>1. /\ removing[p] = {}
          /\ UNCHANGED <<stream, zset, removing>>
          /\ \E items \in SUBSET due : taken' = [taken EXCEPT ![p] = items]
      BY <1>3 DEF SchedScan, SchedIdle, redisVars
    <2>2. \A q \in Procs : removing[q] = {} /\ taken'[q] \subseteq zset
      BY <1>b, <2>1
    <2>3. \A e \in zset : ~Streamed(e)
      BY <1>b, <2>2 DEF Handover
    <2>4. \A e : Streamed(e)' <=> Streamed(e)
      BY <2>1 DEF Streamed
    <2>5. Handover'
      BY <2>1, <2>2, <2>3, <2>4 DEF Handover
    <2> QED
      BY <1>1, <1>2, <2>1, <2>5, OnceFrame DEF OnceBody
  <1>4. ASSUME NEW e \in taken[p], SchedPublish(p, e) PROVE OnceBody'
    <2>1. e \in Entry /\ e \in zset /\ ~Streamed(e)
      BY <1>b DEF Handover
    <2>2. /\ XAdd(e) /\ UNCHANGED zset
          /\ removing[p] = {}
          /\ taken' = [taken EXCEPT ![p] = @ \ {e}]
          /\ removing' = [removing EXCEPT ![p] = {e}]
      BY <1>b, <1>4 DEF SchedPublish, Call, Applied
    <2>3. accepted[e.msg] # 0
      BY <1>b, <2>1 DEF Derived, Stored
    <2>4. /\ Unique' /\ Derived' /\ NotYetRetried'
          /\ \A f : Streamed(f)' <=> Streamed(f) \/ f = e
      BY <1>1, <2>1, <2>2, <2>3, OnceXAdd
    <2>5. removing'[p] = {e} /\ taken'[p] = taken[p] \ {e}
      BY <1>b, <2>2
    <2>6. Handover'
      BY <1>b, <2>1, <2>2, <2>4, <2>5 DEF Handover
    <2> QED
      BY <2>4, <2>6 DEF OnceBody
  <1>5. ASSUME NEW e \in removing[p], SchedRemove(p, e) PROVE OnceBody'
    <2>1. /\ zset' = zset \ {e} /\ UNCHANGED <<stream, taken>>
          /\ removing' = [removing EXCEPT ![p] = {}]
      BY <1>b, <1>5 DEF SchedRemove, Call, Applied, ZRem
    <2>2. removing[p] = {e} /\ removing'[p] = {} /\ Streamed(e)
      BY <1>b, <2>1 DEF Handover
    <2>3. \A f : Streamed(f)' <=> Streamed(f)
      BY <2>1 DEF Streamed
    <2>4. Handover'
      BY <1>b, <2>1, <2>2, <2>3 DEF Handover
    <2> QED
      BY <1>1, <1>2, <2>1, <2>4, OnceFrame DEF OnceBody
  <1>6. CASE SchedExit(p)
    BY <1>1, <1>2, <1>6, OnceQuiet DEF SchedExit, redisVars
  <1> QED
    BY <1>3, <1>4, <1>5, <1>6 DEF SchedStep

(* The loop moves entries from the stream to its goroutines.               *)
LEMMA OnceLoopStep ==
    ASSUME OnceInv, Live, NEW c \in Consumers, Consume(c) \/ LoopStep(c) \/ Stop(c)
    PROVE  OnceBody'
  <1>t. /\ delivered \in [Groups -> 0..Len(stream)]
        /\ pel \in [Groups -> SUBSET (1..Len(stream))]
        /\ slot \in [Consumers -> [Slots -> Task]]
        /\ Len(stream) \in Nat /\ DOMAIN stream = 1..Len(stream)
        /\ \A d \in Consumers : GroupOf[d] \in Groups
    BY OnceBodyType DEF TypeOK
  <1>1. UNCHANGED <<stream, zset, taken, removing, accepted>>
    BY DEF Consume, LoopStep, Stop, AutoClaim, AutoClaimUnknown, ReadGroup, Dispatch,
       LoopExit, LoopDone, redisVars, schedVars, historyVars
  <1>2. \A d \in Consumers, i \in DOMAIN stream : MayRun(d, i)' => MayRun(d, i)
    <2>1. CASE Consume(c)
      <3>1. UNCHANGED <<pel, slot>>
        BY <2>1 DEF Consume
      <3>2. \/ UNCHANGED delivered
            \/ /\ GroupOf[c] \notin groups
               /\ delivered' = [delivered EXCEPT ![GroupOf[c]] = 0]
        BY <2>1 DEF Consume, GroupStart
      <3>3. GroupOf[c] \notin groups => delivered[GroupOf[c]] = 0
        BY <1>t, OnceBodyType DEF PendingInv
      <3>4. \A g \in Groups : delivered'[g] = delivered[g]
        BY <1>t, <3>2, <3>3
      <3> QED
        BY <1>t, <3>1, <3>4 DEF MayRun
    <2>2. CASE ReadGroup(c)
      <3> DEFINE g == GroupOf[c]
                 ids == NewIds(g)
      <3>1. UNCHANGED slot
        BY <2>2 DEF ReadGroup
      <3>2. \/ UNCHANGED <<delivered, pel>>
            \/ /\ delivered' = [delivered EXCEPT ![g] =
                                   IF @ + Concurrency <= Len(stream)
                                   THEN @ + Concurrency ELSE Len(stream)]
               /\ pel' = [pel EXCEPT ![g] = @ \cup ids]
        BY <2>2 DEF ReadGroup
      <3>3. \A i \in ids : delivered[g] < i
        BY DEF NewIds
      <3> HIDE DEF ids
      <3>4. ASSUME NEW h \in Groups, NEW i \in DOMAIN stream,
                   delivered'[h] < i \/ i \in pel'[h]
            PROVE  delivered[h] < i \/ i \in pel[h]
        <4>1. delivered[h] \in Nat /\ delivered[h] <= Len(stream) /\ i \in Nat
          BY <1>t
        <4>2. delivered'[h] \in Nat /\ delivered[h] <= delivered'[h]
          BY <1>t, <3>2, <4>1, ConstantsAssumption
        <4>3. i \in pel'[h] => i \in pel[h] \/ (h = g /\ i \in ids)
          BY <1>t, <3>2
        <4> QED
          BY <3>3, <3>4, <4>1, <4>2, <4>3
      <3> QED
        BY <1>t, <3>1, <3>4 DEF MayRun
    <2>3. ASSUME NEW k \in Slots, Dispatch(c, k)
          PROVE  \A d \in Consumers, i \in DOMAIN stream : MayRun(d, i)' => MayRun(d, i)
      <3>1. slot[c][k].pc = "free" /\ UNCHANGED <<delivered, pel>>
        BY <2>3 DEF Dispatch, redisVars
      <3>2. \E task : slot' = [slot EXCEPT ![c][k] = task]
        BY <2>3 DEF Dispatch
      <3>3. \A d \in Consumers, l \in Slots : slot[d][l].pc = "ack" => slot'[d][l] = slot[d][l]
        BY <1>t, <3>1, <3>2
      <3> QED
        BY <3>1, <3>3 DEF MayRun
    <2>4. CASE AutoClaim(c) \/ AutoClaimUnknown(c) \/ LoopExit(c) \/ LoopDone(c) \/ Stop(c)
      <3>1. UNCHANGED <<delivered, pel, slot>>
        BY <2>4 DEF AutoClaim, AutoClaimUnknown, LoopExit, LoopDone, Stop, redisVars
      <3> QED
        BY <3>1 DEF MayRun
    <2> QED
      BY <2>1, <2>2, <2>3, <2>4 DEF LoopStep
  <1> QED
    BY <1>1, <1>2, OnceQuiet

(* A goroutine stores the one retry of its entry, then acknowledges it.    *)
LEMMA OnceRetry ==
    ASSUME OneGroup, OnceInv, Live, Live', NEW c \in Consumers, NEW k \in Slots, Retry(c, k)
    PROVE  OnceBody'
  <1> DEFINE i == slot[c][k].id
             e == stream[i]
             n == NextOf(e)
  <1>b. /\ TypeOK /\ HeldOnce /\ Unique /\ Handover /\ Derived /\ NotYetRetried
        /\ faults \in Nat /\ faults' = 0
        /\ CtxUsable(c)
        /\ slot \in [Consumers -> [Slots -> Task]]
        /\ DOMAIN stream = 1..Len(stream)
    BY OnceBodyType DEF OnceBody, Live, Clean, TypeOK
  <1>1. /\ slot[c][k].pc = "retry"
        /\ zset' = zset \cup {n}
        /\ SetTask(c, k, "ack")
        /\ UNCHANGED <<stream, delivered, pel, taken, removing, accepted>>
    BY <1>b DEF Retry, Call, Applied, RetryStored, ZAdd, TaskEntry, NextOf, schedVars,
       historyVars
  <1>2. i \in DOMAIN stream /\ e \in Entry /\ RetryAllowed(e)
    <2>1. i \in 1..Len(stream)
      BY <1>b, <1>1 DEF TypeOK
    <2>2. RetryAllowed(e)
      BY <1>1, <1>b DEF TypeOK, TaskEntry
    <2> QED
      BY <1>b, <2>1, <2>2 DEF TypeOK
  <1> HIDE DEF i
  <1>3. /\ n \in Entry /\ n.msg = e.msg
        /\ \A f \in Entry : NextOf(f) = n => f = e
    BY <1>2, RetryCopy, NextEntry DEF NextOf
  <1>4. MayRun(c, i)
    <2>1. i \in pel[GroupOf[c]]
      BY <1>b, <1>1 DEF HeldOnce, i
    <2>2. ASSUME NEW d \in Consumers, NEW l \in Slots, slot[d][l].pc = "ack", slot[d][l].id = i
          PROVE  FALSE
      <3>1. d = c /\ l = k
        BY <1>b, <1>1, <2>2 DEF HeldOnce, OneGroup, i
      <3> QED
        BY <1>1, <2>2, <3>1
    <2> QED
      BY <2>1, <2>2 DEF MayRun
  <1>5. ~Stored(n)
    BY <1>b, <1>2, <1>4 DEF NotYetRetried
  <1>6. \A f : Streamed(f)' <=> Streamed(f)
    BY <1>1 DEF Streamed
  <1>7. Handover'
    BY <1>1, <1>5, <1>6, <1>b DEF Handover, Stored
  <1>8. Derived'
    <2>1. ASSUME NEW f \in Entry, f \in zset' \/ Streamed(f)
          PROVE  /\ f.attempt > 0 => \E j \in DOMAIN stream : f = NextOf(stream[j])
                 /\ accepted[f.msg] # 0
      <3>1. CASE f = n
        <4>1. accepted[e.msg] # 0
          BY <1>b, <1>2 DEF Derived, Stored, Streamed
        <4> QED
          BY <1>2, <1>3, <3>1, <4>1
      <3>2. CASE Stored(f)
        BY <1>b, <3>2 DEF Derived
      <3> QED
        BY <1>1, <2>1, <3>1, <3>2 DEF Stored
    <2> QED
      BY <1>1, <1>6, <2>1 DEF Derived, Stored
  <1>9. NotYetRetried'
    <2>1. /\ slot'[c][k].pc = "ack" /\ slot'[c][k].id = i
          /\ \A d \in Consumers, l \in Slots : ~(d = c /\ l = k) => slot'[d][l] = slot[d][l]
      BY <1>b, <1>1, SetTaskSlot DEF i
    <2>2. ASSUME NEW d \in Consumers, NEW j \in DOMAIN stream, MayRun(d, j)'
          PROVE  ~(NextOf(stream[j]) \in zset' \/ Streamed(NextOf(stream[j])))
      <3>1. j # i
        BY <2>1, <2>2 DEF MayRun
      <3>2. MayRun(d, j)
        BY <1>1, <2>1, <2>2 DEF MayRun
      <3>3. ~Stored(NextOf(stream[j]))
        BY <1>b, <3>2 DEF NotYetRetried
      <3>4. NextOf(stream[j]) # n
        <4>1. stream[j] \in Entry
          BY <1>b DEF TypeOK
        <4>2. stream[j] # e
          BY <1>b, <1>2, <3>1 DEF Unique
        <4> QED
          BY <1>3, <4>1, <4>2
      <3> QED
        BY <1>1, <3>3, <3>4 DEF Stored
    <2> QED
      BY <1>1, <1>6, <2>2 DEF NotYetRetried, Stored, Streamed
  <1>10. Unique'
    BY <1>1, <1>b DEF Unique
  <1> QED
    BY <1>7, <1>8, <1>9, <1>10 DEF OnceBody

LEMMA OnceTaskStep ==
    ASSUME OneGroup, OnceInv, Live, Live', NEW c \in Consumers, NEW k \in Slots,
           TaskStep(c, k)
    PROVE  OnceBody'
  <1> DEFINE g == GroupOf[c]
             i == slot[c][k].id
  <1>b. /\ HeldOnce /\ PendingInv
        /\ faults \in Nat /\ faults' = 0
        /\ CtxUsable(c)
        /\ slot \in [Consumers -> [Slots -> Task]]
        /\ pel \in [Groups -> SUBSET (1..Len(stream))]
        /\ delivered \in [Groups -> 0..Len(stream)]
        /\ g \in Groups /\ \A d \in Consumers : GroupOf[d] = g
    BY OnceBodyType DEF Live, Clean, TypeOK, OneGroup
  <1>1. CASE HandlerOk(c, k) \/ HandlerErr(c, k)
    <2>1. /\ slot[c][k].pc = "exec"
          /\ \E pc \in {"ack", "retry"} : SetTask(c, k, pc)
          /\ UNCHANGED <<stream, zset, taken, removing, accepted, delivered, pel>>
      BY <1>1 DEF HandlerOk, HandlerErr, redisVars, schedVars
    <2>2. \A d \in Consumers, l \in Slots : slot[d][l].pc = "ack" => slot'[d][l] = slot[d][l]
      BY <1>b, <2>1, SetTaskSlot
    <2>3. \A d \in Consumers, j \in DOMAIN stream : MayRun(d, j)' => MayRun(d, j)
      BY <2>1, <2>2 DEF MayRun
    <2> QED
      BY <2>1, <2>3, OnceQuiet
  <1>2. CASE Ack(c, k)
    <2>1. /\ slot[c][k].pc = "ack"
          /\ pel' = [pel EXCEPT ![g] = @ \ {i}]
          /\ EndTask(c, k)
          /\ UNCHANGED <<stream, zset, taken, removing, accepted, delivered>>
      BY <1>b, <1>2 DEF Ack, Call, Applied, XAck, schedVars, historyVars
    <2>2. /\ pel'[g] = pel[g] \ {i}
          /\ \A d \in Consumers, l \in Slots : ~(d = c /\ l = k) => slot'[d][l] = slot[d][l]
      BY <1>b, <2>1, EndTaskSlot
    <2>3. i \in pel[g] /\ i <= delivered[g] /\ i \in Nat /\ delivered[g] \in Nat
      <3>1. i \in pel[g]
        BY <1>b, <2>1 DEF HeldOnce
      <3>2. i \in Nat /\ delivered[g] \in Nat
        BY <1>b, <3>1
      <3> QED
        BY <1>b, <3>1, <3>2 DEF PendingInv
    <2> HIDE DEF i, g
    <2>4. ASSUME NEW d \in Consumers, NEW j \in DOMAIN stream, MayRun(d, j)'
          PROVE  MayRun(d, j)
      <3>1. delivered[g] < j \/ j \in pel'[g]
        BY <1>b, <2>1, <2>4 DEF MayRun
      <3>2. j # i
        BY <2>2, <2>3, <3>1
      <3>3. delivered[g] < j \/ j \in pel[g]
        BY <2>2, <3>1
      <3>4. \A a \in Consumers, l \in Slots : slot[a][l].pc = "ack" => slot[a][l].id # j
        BY <2>2, <2>4, <3>2 DEF MayRun, i
      <3> QED
        BY <1>b, <3>3, <3>4 DEF MayRun
    <2> QED
      BY <2>1, <2>4, OnceQuiet
  <1> QED
    BY <1>1, <1>2, OnceRetry DEF TaskStep

LEMMA OnceInit == Init => OnceInv
  <1> SUFFICES ASSUME Init PROVE OnceInv
    OBVIOUS
  <1>1. /\ stream = <<>> /\ zset = {}
        /\ \A p \in Procs : taken[p] = {} /\ removing[p] = {} /\ life[p] = "open"
    BY DEF Init
  <1>2. DOMAIN stream = {}
    BY <1>1
  <1>3. \A e : ~Stored(e)
    BY <1>1, <1>2 DEF Stored, Streamed
  <1>4. DownCrashed /\ Unique /\ Handover /\ Derived /\ NotYetRetried
    BY <1>1, <1>2, <1>3 DEF DownCrashed, Unique, Handover, Derived, NotYetRetried
  <1> QED
    BY <1>4, HoldInit DEF OnceInv

LEMMA OnceNext ==
    ASSUME OneInstance, OneGroup, SlowHandlers = FALSE, MaxPublish = 1
    PROVE  OnceInv /\ [Next]_vars => OnceInv'
  <1> SUFFICES ASSUME OnceInv, [Next]_vars PROVE OnceInv'
    OBVIOUS
  <1>1. HoldInv'
    BY HoldNext DEF OnceInv
  <1>2. CASE UNCHANGED vars
    <2>1. UNCHANGED <<stream, zset, taken, removing, accepted, delivered, pel, slot, life,
                      faults, crashes, cancelled>>
      BY <1>2 DEF vars, redisVars, schedVars, loopVars, historyVars
    <2>2. DownCrashed' /\ (Clean' <=> Clean) /\ (Live' <=> Live) /\ (Unique' <=> Unique)
      BY <2>1 DEF OnceInv, DownCrashed, Clean, Live, ClientUsable, Unique
    <2>3. Live => OnceBody'
      <3>1. \A d \in Consumers, j \in DOMAIN stream : MayRun(d, j)' => MayRun(d, j)
        BY <2>1 DEF MayRun
      <3> QED
        BY <2>1, <3>1, OnceQuiet
    <2> QED
      BY <1>1, <2>2, <2>3 DEF OnceInv, OnceBody
  <1>3. CASE Next
    <2>1. DownCrashed'
      BY <1>3, DownNext DEF OnceInv, HoldInv
    <2>2. ASSUME Live' PROVE OnceBody'
      <3>1. Live /\ TypeOK /\ \A p \in Procs : ~Crash(p)
        BY <1>3, <2>2, StaysLive, StaysClean DEF Live, OnceInv, HoldInv
      <3>2. ASSUME NEW p \in Procs, Close(p) \/ CloseDone(p) \/ CloseTimeout(p) \/ Restart(p)
            PROVE  OnceBody'
        <4>1. UNCHANGED <<stream, zset, taken, removing, accepted, delivered, pel, slot>>
          BY <3>2 DEF Close, CloseDone, CloseTimeout, Restart, redisVars, schedVars, loopVars,
             historyVars
        <4>2. \A d \in Consumers, j \in DOMAIN stream : MayRun(d, j)' => MayRun(d, j)
          BY <4>1 DEF MayRun
        <4> QED
          BY <3>1, <4>1, <4>2, OnceQuiet
      <3>3. CASE TimeStep
        <4>1. UNCHANGED <<stream, zset, taken, removing, accepted, delivered, pel, slot>>
          BY <3>3 DEF TimeStep, BecomeDue, BecomeIdle, schedVars, loopVars, historyVars
        <4>2. \A d \in Consumers, j \in DOMAIN stream : MayRun(d, j)' => MayRun(d, j)
          BY <4>1 DEF MayRun
        <4> QED
          BY <3>1, <4>1, <4>2, OnceQuiet
      <3> QED
        BY <1>3, <2>2, <3>1, <3>2, <3>3, OncePublish, OnceSchedStep, OnceLoopStep,
           OnceTaskStep DEF Next
    <2>3. ASSUME Clean' PROVE Unique'
      <3>1. CASE Live'
        BY <2>2, <3>1 DEF OnceBody
      <3>2. CASE ~Live
        <4>1. Clean /\ UNCHANGED stream
          BY <1>3, <2>3, <3>2, StaysClean, ClosedStream DEF OnceInv, HoldInv
        <4> QED
          BY <4>1 DEF OnceInv, Unique
      <3>3. CASE Live /\ ~Live'
        <4>1. \E p \in Procs : ~ClientUsable(p)'
          BY <2>3, <3>3 DEF Live
        <4>2. \A p \in Procs : ClientUsable(p)
          BY <3>3 DEF Live
        <4>3. life' # life
          BY <4>1, <4>2 DEF ClientUsable
        <4>4. UNCHANGED stream
          BY <1>3, <4>3 DEF Next, Publish, PublishDelay, SchedStep, SchedScan, SchedPublish,
             SchedRemove, SchedExit, Consume, LoopStep, Stop, AutoClaim, AutoClaimUnknown,
             ReadGroup, Dispatch, LoopExit, LoopDone, TaskStep, HandlerOk, HandlerErr, Retry,
             Ack, Close, CloseDone, CloseTimeout, Crash, Restart, TimeStep, BecomeDue,
             BecomeIdle, redisVars
        <4> QED
          BY <3>3, <4>4 DEF OnceInv, Live, Unique
      <3> QED
        BY <3>1, <3>2, <3>3
    <2> QED
      BY <1>1, <2>1, <2>2, <2>3 DEF OnceInv, OnceBody
  <1> QED
    BY <1>2, <1>3

(* One instance, one group, messages published once, handlers that end     *)
(* before redisClaimMinIdle, and any number of consumers, messages,        *)
(* retries and concurrency: as long as nothing fails, dies or is stopped   *)
(* (also when Close runs into its deadline), the stream receives each      *)
(* attempt of a message once, and each entry is executed by one goroutine. *)
THEOREM ExecutedOnce ==
    ASSUME OneInstance, OneGroup, SlowHandlers = FALSE, MaxPublish = 1
    PROVE  Spec => []SingleExecution
  <1>1. OnceInv /\ [Next]_vars => OnceInv'
    BY OnceNext
  <1>2. OnceInv => SingleExecution
    BY DEF OnceInv, HoldInv, Clean, Unique, SingleExecution
  <1> QED
    BY <1>1, <1>2, OnceInit, PTL DEF Spec
=============================================================================
