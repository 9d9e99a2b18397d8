-------------------------- MODULE CronDist_proofs --------------------------
(* Theorems about CronDist, for every value of its constants.              *)
EXTENDS CronDist, TLAPS

(* What the proof needs of the types: terms are positive, nothing refers to*)
(* a term that was not acquired, and no queue is declared over Redis.      *)
LockType ==
    /\ provider \in {"redis", "rabbitmq"}
    /\ declaring \subseteq Terms
    /\ provider = "redis" => declaring = {} /\ \A i \in Instances : pc[i] # "cleanup"
    /\ owner \in Seq(Instances)
    /\ lock \in {0} \cup Terms
    /\ cancelled \subseteq Terms
    /\ renewing \subseteq Terms
    /\ pc \in [Instances -> {"off", "top", "try", "won", "elected", "starting",
                             "leading", "cleanup", "wait", "exited"}]
    /\ term \in [Instances -> Nat]
    /\ ctxDone \in [Instances -> BOOLEAN]
    /\ leaderCancel \in [Instances -> {0} \cup Terms]
    /\ \A i \in Instances : pc[i] \in {"won", "elected", "starting", "leading"} => term[i] \in Terms

(* The inductive invariant.                                                *)
LockInv == LockType /\ LeaderHoldsLock /\ LeaderRenews

LEMMA TermsRange == ASSUME LockType
                    PROVE  /\ Terms = 1..Len(owner) /\ Len(owner) \in Nat
                           /\ \A t \in Terms : owner[t] \in Instances /\ t # 0
  BY DEF LockType, Terms

LEMMA LockInit == Init => LockInv
  <1> SUFFICES ASSUME Init PROVE LockInv
    OBVIOUS
  <1>1. Terms = {}
    BY DEF Init, Terms
  <1>2. LockType
    BY <1>1, ConstantsAssumption DEF Init, LockType
  <1> QED
    BY <1>1, <1>2 DEF LockInv, LeaderHoldsLock, LeaderRenews

(* A step that acquires nothing, revives no context, and leaves the Redis  *)
(* lock, the goroutines of the terms and the loops about to start one alone*)
LEMMA QuietStep ==
    ASSUME LockInv, LockType',
           UNCHANGED <<provider, owner, renewing, late>>,
           provider = "redis" => lock' = lock,
           cancelled \subseteq cancelled',
           \A i \in Instances : ctxDone[i] => ctxDone'[i],
           \A i \in Instances : pc[i] = "won" => pc'[i] = "won" /\ term'[i] = term[i]
    PROVE  LockInv'
  <1>1. Terms' = Terms /\ \A t \in Terms : owner[t] \in Instances
    BY TermsRange DEF LockInv, Terms
  <1>2. \A t \in Terms : CtxLive(t)' => CtxLive(t)
    BY <1>1 DEF CtxLive
  <1>3. \A t \in Terms : Held(t) => Held(t)'
    BY <1>1 DEF Held
  <1> QED
    BY <1>1, <1>2, <1>3 DEF LockInv, LeaderHoldsLock, LeaderRenews

(* Add, Remove and the rebuild of a scheduler do not touch the election.   *)
LEMMA EditSteps ==
    ASSUME LockInv, NEW i \in Instances,
           (\E t \in Task : Add(i, t)) \/ (\E n \in Names : Remove(i, n)) \/ Rebuild(i)
    PROVE  LockInv'
  <1>1. UNCHANGED <<provider, lock, owner, cancelled, renewing, late, declaring, pc, term, ctxDone,
                    leaderCancel>>
    BY DEF Add, Remove, Rebuild, lockVars, loopVars
  <1>2. LockType'
    BY <1>1 DEF LockInv, LockType, Terms
  <1> QED
    BY <1>1, <1>2, QuietStep

(* Start, Stop and the cancellation of the context given to Start.         *)
LEMMA ControlSteps ==
    ASSUME LockInv, NEW i \in Instances, Start(i) \/ Stop(i) \/ CancelCtx(i)
    PROVE  LockInv'
  <1>1. CASE Start(i)
    <2>1. /\ UNCHANGED <<provider, lock, owner, cancelled, renewing, late, declaring, term, ctxDone,
                         leaderCancel>>
          /\ pc[i] = "off" /\ pc' = [pc EXCEPT ![i] = "top"]
      BY <1>1 DEF Start, lockVars, fieldVars
    <2>2. LockType' /\ \A j \in Instances : pc[j] = "won" => pc'[j] = "won"
      BY <2>1 DEF LockInv, LockType, Terms
    <2> QED
      BY <2>1, <2>2, QuietStep
  <1>2. CASE Stop(i)
    <2>1. /\ UNCHANGED <<provider, lock, owner, renewing, late, declaring, pc, term, ctxDone,
                         leaderCancel>>
          /\ cancelled' = cancelled \cup ({leaderCancel[i]} \ {0})
      BY <1>2 DEF Stop, fieldVars, brokerVars
    <2>2. LockType'
      BY <2>1 DEF LockInv, LockType, Terms
    <2> QED
      BY <2>1, <2>2, QuietStep
  <1>3. CASE CancelCtx(i)
    <2>1. /\ UNCHANGED <<provider, lock, owner, cancelled, renewing, late, declaring, pc, term,
                         leaderCancel>>
          /\ ctxDone' = [ctxDone EXCEPT ![i] = TRUE]
      BY <1>3 DEF CancelCtx, lockVars, fieldVars
    <2>2. LockType' /\ \A j \in Instances : ctxDone[j] => ctxDone'[j]
      BY <2>1 DEF LockInv, LockType, Terms
    <2> QED
      BY <2>1, <2>2, QuietStep
  <1> QED
    BY <1>1, <1>2, <1>3

(* The steps of the loop that only move it on.                             *)
LEMMA LoopSteps ==
    ASSUME LockInv, NEW i \in Instances,
           \/ LoopTop(i) \/ Refused(i) \/ DialFails(i) \/ SetCtx(i) \/ StartScheduler(i)
           \/ StopScheduler(i) \/ Wait(i)
    PROVE  LockInv'
  <1>1. UNCHANGED <<provider, lock, owner, cancelled, renewing, late, declaring, term, ctxDone,
                    leaderCancel>>
    BY DEF LoopTop, Refused, DialFails, SetCtx, StartScheduler, StopScheduler, Wait, lockVars,
           fieldVars
  <1>2. \E to \in {"exited", "try", "wait", "top", "starting", "leading", "cleanup"} :
           /\ pc' = [pc EXCEPT ![i] = to]
           /\ pc[i] # "won"
           /\ to \in {"starting", "leading"} => pc[i] \in {"elected", "starting"}
           /\ to = "cleanup" => provider # "redis"
    BY DEF LoopTop, Refused, DialFails, SetCtx, StartScheduler, StopScheduler, Wait
  <1>3. LockType' /\ \A j \in Instances : pc[j] = "won" => pc'[j] = "won"
    BY <1>1, <1>2 DEF LockInv, LockType, Terms
  <1> QED
    BY <1>1, <1>3, QuietStep

(* SETNX takes a free lock: the terms that are live without it were late.  *)
LEMMA AcquireStep ==
    ASSUME LockInv, NEW i \in Instances, NEW known \in BOOLEAN, Acquire(i, known)
    PROVE  LockInv'
  <1> DEFINE t == Len(owner) + 1
  <1>0. LockType
    BY DEF LockInv
  <1>1. /\ pc[i] = "try" /\ lock = 0 /\ lock' = t
        /\ owner' = Append(owner, i)
        /\ UNCHANGED <<provider, renewing, late, declaring, ctxDone, leaderCancel>>
        /\ provider = "redis"
    BY DEF Acquire, fieldVars, brokerVars
  <1>2. \/ /\ pc' = [pc EXCEPT ![i] = "won"]
           /\ term' = [term EXCEPT ![i] = t]
           /\ UNCHANGED cancelled
        \/ /\ pc' = [pc EXCEPT ![i] = "wait"]
           /\ cancelled' = cancelled \cup {t}
           /\ UNCHANGED term
    BY DEF Acquire
  <1>3. /\ Terms' = Terms \cup {t} /\ t \notin Terms /\ t \in Nat /\ t # 0
        /\ owner' \in Seq(Instances)
        /\ \A u \in Terms : owner'[u] = owner[u] /\ owner[u] \in Instances
        /\ owner'[t] = i
    BY <1>0, <1>1, TermsRange DEF LockType, Terms
  <1> HIDE DEF t
  <1>4. LockType'
    <2>1. /\ owner' \in Seq(Instances) /\ lock' \in {0} \cup Terms'
          /\ renewing' \subseteq Terms' /\ declaring' \subseteq Terms'
          /\ ctxDone' \in [Instances -> BOOLEAN]
          /\ leaderCancel' \in [Instances -> {0} \cup Terms']
      BY <1>0, <1>1, <1>3 DEF LockType
    <2>2. CASE known
      <3>1. pc' = [pc EXCEPT ![i] = "won"] /\ term' = [term EXCEPT ![i] = t] /\ cancelled' = cancelled
        BY <2>2 DEF Acquire, t
      <3> QED
        BY <1>0, <1>1, <1>3, <2>1, <3>1 DEF LockType
    <2>3. CASE ~known
      <3>1. pc' = [pc EXCEPT ![i] = "wait"] /\ term' = term /\ cancelled' = cancelled \cup {t}
        BY <2>3 DEF Acquire, t
      <3> QED
        BY <1>0, <1>1, <1>3, <2>1, <3>1 DEF LockType
    <2> QED
      BY <2>2, <2>3
  <1>5. ASSUME NEW u \in Terms', CtxLive(u)'
        PROVE  (lock' = u \/ u \in late') /\ Held(u)'
    <2>1. CASE u = t
      <3>1. t \notin cancelled'
        BY <1>5, <2>1 DEF CtxLive
      <3>2. pc'[i] = "won" /\ term'[i] = t
        BY <1>0, <1>2, <3>1 DEF LockType
      <3> QED
        BY <1>1, <1>3, <2>1, <3>2 DEF Held
    <2>2. CASE u # t
      <3>1. u \in Terms /\ CtxLive(u)
        BY <1>1, <1>2, <1>3, <1>5, <2>2 DEF CtxLive
      <3>2. u \in late /\ Held(u)
        BY <1>0, <1>1, <3>1, TermsRange DEF LockInv, LeaderHoldsLock, LeaderRenews
      <3>3. \A j \in Instances : pc[j] = "won" => pc'[j] = "won" /\ term'[j] = term[j]
        BY <1>0, <1>1, <1>2 DEF LockType
      <3>4. Held(u)'
        BY <1>1, <1>3, <3>1, <3>2, <3>3 DEF Held
      <3> QED
        BY <1>1, <3>2, <3>4
    <2> QED
      BY <2>1, <2>2
  <1> QED
    BY <1>4, <1>5 DEF LockInv, LeaderHoldsLock, LeaderRenews

(* A queue.declare is sent: a new term, which nobody asks for the lock.    *)
LEMMA DeclareStep ==
    ASSUME LockInv, NEW i \in Instances, Declare(i)
    PROVE  LockInv'
  <1> DEFINE t == Len(owner) + 1
  <1>0. LockType
    BY DEF LockInv
  <1>1. /\ provider = "rabbitmq" /\ pc[i] = "try"
        /\ owner' = Append(owner, i)
        /\ declaring' = declaring \cup {t}
        /\ pc' = [pc EXCEPT ![i] = "won"]
        /\ term' = [term EXCEPT ![i] = t]
        /\ UNCHANGED <<provider, lock, cancelled, renewing, late, ctxDone, leaderCancel>>
    BY DEF Declare, fieldVars
  <1>2. /\ Terms' = Terms \cup {t} /\ t \notin Terms /\ t \in Nat /\ t # 0
        /\ owner' \in Seq(Instances)
        /\ \A u \in Terms : owner'[u] = owner[u] /\ owner[u] \in Instances
        /\ owner'[t] = i
    BY <1>0, <1>1, TermsRange DEF LockType, Terms
  <1> HIDE DEF t
  <1>3. LockType'
    BY <1>0, <1>1, <1>2 DEF LockType
  <1>4. ASSUME NEW u \in Terms', CtxLive(u)'
        PROVE  Held(u)'
    <2>1. CASE u = t
      BY <1>0, <1>1, <1>2, <2>1 DEF Held, LockType
    <2>2. CASE u # t
      <3>1. u \in Terms /\ CtxLive(u)
        BY <1>1, <1>2, <1>4, <2>2 DEF CtxLive
      <3>2. Held(u)
        BY <3>1 DEF LockInv, LeaderRenews
      <3>3. \A j \in Instances : pc[j] = "won" => pc'[j] = "won" /\ term'[j] = term[j]
        BY <1>0, <1>1 DEF LockType
      <3> QED
        BY <1>1, <1>2, <3>1, <3>2, <3>3 DEF Held
    <2> QED
      BY <2>1, <2>2
  <1> QED
    BY <1>1, <1>3, <1>4 DEF LockInv, LeaderHoldsLock, LeaderRenews

(* What the broker does, and the cleanup, touch no Redis lock.             *)
LEMMA BrokerSteps ==
    ASSUME LockInv,
           \/ \E i \in Instances : Cleanup(i)
           \/ \E t \in declaring : BrokerDeclare(t)
           \/ \E t \in open : ConnLost(t)
           \/ BrokerDrop
    PROVE  LockInv'
  <1>0. LockType
    BY DEF LockInv
  <1>1. UNCHANGED <<provider, owner, cancelled, renewing, late, term, ctxDone, leaderCancel>>
    BY DEF Cleanup, BrokerDeclare, ConnLost, BrokerDrop, loopVars, fieldVars, brokerVars
  <1>2. Terms' = Terms
    BY <1>1 DEF Terms
  <1>3. CASE \E i \in Instances : Cleanup(i)
    <2>1. PICK i \in Instances : Cleanup(i)
      BY <1>3
    <2>2. /\ pc[i] = "cleanup" /\ pc' = [pc EXCEPT ![i] = "wait"]
          /\ lock' \in {0, lock} /\ declaring' \subseteq declaring
      BY <2>1 DEF Cleanup, Closed
    <2>3. LockType' /\ provider # "redis"
      BY <1>0, <1>1, <1>2, <2>2 DEF LockType
    <2>4. \A j \in Instances : pc[j] = "won" => pc'[j] = "won"
      BY <1>0, <2>2 DEF LockType
    <2> QED
      BY <1>1, <2>3, <2>4, QuietStep
  <1>4. CASE \E t \in declaring : BrokerDeclare(t)
    <2>1. /\ declaring # {} /\ UNCHANGED pc
          /\ lock' \in {lock} \cup declaring /\ declaring' \subseteq declaring
      BY <1>4 DEF BrokerDeclare, loopVars
    <2>2. LockType' /\ provider # "redis"
      BY <1>0, <1>1, <1>2, <2>1 DEF LockType
    <2> QED
      BY <1>1, <2>1, <2>2, QuietStep
  <1>5. CASE (\E t \in open : ConnLost(t)) \/ BrokerDrop
    <2>1. /\ UNCHANGED <<pc, declaring>>
          /\ lock' = lock \/ (provider = "rabbitmq" /\ lock' = 0)
      BY <1>5 DEF ConnLost, BrokerDrop, loopVars, brokerVars
    <2>2. LockType' /\ (provider = "redis" => lock' = lock)
      BY <1>0, <1>1, <1>2, <2>1 DEF LockType
    <2> QED
      BY <1>1, <2>1, <2>2, QuietStep
  <1> QED
    BY <1>3, <1>4, <1>5

(* The goroutine of the term takes over from the loop.                     *)
LEMMA SetCancelStep ==
    ASSUME LockInv, NEW i \in Instances, SetCancel(i)
    PROVE  LockInv'
  <1>0. LockType
    BY DEF LockInv
  <1>1. /\ UNCHANGED <<provider, lock, owner, cancelled, late, declaring, term, ctxDone>>
        /\ leaderCancel' = [leaderCancel EXCEPT ![i] = term[i]]
        /\ renewing' = renewing \cup {term[i]}
        /\ pc[i] = "won" /\ pc' = [pc EXCEPT ![i] = "elected"]
    BY DEF SetCancel, brokerVars
  <1>2. Terms' = Terms /\ term[i] \in Terms
    BY <1>0, <1>1 DEF LockType, Terms
  <1>3. LockType'
    BY <1>0, <1>1, <1>2 DEF LockType
  <1>4. \A t \in Terms : CtxLive(t)' = CtxLive(t) /\ (Held(t) => Held(t)')
    BY <1>0, <1>1, <1>2, TermsRange DEF CtxLive, Held, LockType
  <1> QED
    BY <1>1, <1>2, <1>3, <1>4 DEF LockInv, LeaderHoldsLock, LeaderRenews

(* The goroutine of a term ends only when the term's context is done, and  *)
(* releases no other term's lock.                                          *)
LEMMA TermSteps ==
    ASSUME LockInv, NEW t \in renewing, TermStep(t)
    PROVE  LockInv'
  <1>0. LockType
    BY DEF LockInv
  <1>1. /\ UNCHANGED <<provider, owner, late, declaring, pc, term, ctxDone, leaderCancel>>
        /\ renewing' = renewing \ {t}
    BY DEF TermStep, Release, RenewFails, WatchEnds, loopVars, fieldVars, brokerVars
  <1>2. /\ lock' = lock \/ (lock = t /\ lock' = 0)
        /\ cancelled' = cancelled \/ cancelled' = cancelled \cup {t}
        /\ ~CtxLive(t) \/ t \in cancelled'
    <2>1. CASE Release(t)
      BY <2>1 DEF Release, AfterRelease
    <2>2. CASE RenewFails(t)
      BY <2>2 DEF RenewFails, StepDown
    <2>3. CASE WatchEnds(t)
      BY <2>3 DEF WatchEnds, StepDown
    <2> QED
      BY <2>1, <2>2, <2>3 DEF TermStep
  <1>3. Terms' = Terms
    BY <1>1 DEF Terms
  <1>5. ASSUME NEW u \in Terms, CtxLive(u)'
        PROVE  (provider = "redis" => lock' = u \/ u \in late') /\ Held(u)'
    <2>1. CtxLive(u) /\ u # t
      BY <1>1, <1>2, <1>3, <1>5 DEF CtxLive
    <2>2. (provider = "redis" => lock = u \/ u \in late) /\ Held(u)
      BY <2>1 DEF LockInv, LeaderHoldsLock, LeaderRenews
    <2> QED
      BY <1>1, <1>2, <2>1, <2>2 DEF Held
  <1>6. LockType'
    BY <1>0, <1>1, <1>2, <1>3 DEF LockType
  <1> QED
    BY <1>1, <1>3, <1>5, <1>6 DEF LockInv, LeaderHoldsLock, LeaderRenews

(* A lease runs out: of a term nothing renews, which is not live, or late. *)
LEMMA ExpireStep ==
    ASSUME LockInv, Expire
    PROVE  LockInv'
  <1>0. LockType
    BY DEF LockInv
  <1>1. /\ UNCHANGED <<provider, owner, cancelled, renewing, declaring, pc, term, ctxDone,
                         leaderCancel>>
        /\ provider = "redis" /\ lock # 0 /\ lock' = 0
        /\ late' = IF Held(lock) THEN late \cup {lock} ELSE late
    BY DEF Expire, loopVars, fieldVars, brokerVars
  <1>2. Terms' = Terms
    BY <1>1 DEF Terms
  <1>3. LockType'
    BY <1>0, <1>1, <1>2 DEF LockType
  <1>4. \A t \in Terms : CtxLive(t)' = CtxLive(t) /\ Held(t)' = Held(t)
    BY <1>1, <1>2 DEF CtxLive, Held
  <1>5. \A t \in Terms : CtxLive(t) => t \in late'
    BY <1>1 DEF LockInv, LeaderHoldsLock, LeaderRenews
  <1> QED
    BY <1>2, <1>3, <1>4, <1>5 DEF LockInv, LeaderHoldsLock, LeaderRenews

(* A dead process takes its contexts and its goroutines with it.           *)
LEMMA CrashStep ==
    ASSUME LockInv, NEW i \in Instances, Crash(i)
    PROVE  LockInv'
  <1> DEFINE mine == {t \in Terms : owner[t] = i}
  <1>0. LockType
    BY DEF LockInv
  <1>1. /\ UNCHANGED <<provider, lock, owner, late, declaring>>
        /\ cancelled' = cancelled \cup mine
        /\ renewing' = renewing \ mine
        /\ pc' = [pc EXCEPT ![i] = "off"]
        /\ term' = [term EXCEPT ![i] = 0]
        /\ ctxDone' = [ctxDone EXCEPT ![i] = FALSE]
        /\ leaderCancel' = [leaderCancel EXCEPT ![i] = 0]
    BY DEF Crash
  <1>2. Terms' = Terms
    BY <1>1 DEF Terms
  <1>3. LockType'
    BY <1>0, <1>1, <1>2 DEF LockType
  <1>4. ASSUME NEW t \in Terms, CtxLive(t)'
        PROVE  (provider = "redis" => lock' = t \/ t \in late') /\ Held(t)'
    <2>1. owner[t] # i /\ t \notin mine /\ owner[t] \in Instances
      BY <1>0, <1>1, <1>4, TermsRange DEF CtxLive
    <2>2. CtxLive(t)
      BY <1>0, <1>1, <1>2, <1>4, <2>1 DEF CtxLive, LockType
    <2>3. (provider = "redis" => lock = t \/ t \in late) /\ Held(t)
      BY <2>2 DEF LockInv, LeaderHoldsLock, LeaderRenews
    <2> QED
      BY <1>0, <1>1, <2>1, <2>3 DEF Held, LockType
  <1> QED
    BY <1>1, <1>2, <1>3, <1>4 DEF LockInv, LeaderHoldsLock, LeaderRenews

LEMMA LockNext == LockInv /\ [Next]_vars => LockInv'
  <1> SUFFICES ASSUME LockInv, [Next]_vars PROVE LockInv'
    OBVIOUS
  <1>1. CASE UNCHANGED vars
    <2>1. UNCHANGED <<provider, lock, owner, cancelled, renewing, late, declaring, pc, term,
                      ctxDone, leaderCancel>>
      BY <1>1 DEF vars, lockVars, loopVars, fieldVars
    <2>2. LockType'
      BY <2>1 DEF LockInv, LockType, Terms
    <2> QED
      BY <2>1, <2>2, QuietStep
  <1>2. CASE Next
    <2>1. ASSUME NEW i \in Instances, LoopStep(i) PROVE LockInv'
      BY <2>1, LoopSteps, AcquireStep, DeclareStep, SetCancelStep, BrokerSteps DEF LoopStep
    <2> QED
      BY <1>2, <2>1, EditSteps, ControlSteps, CrashStep, TermSteps, ExpireStep, BrokerSteps
         DEF Next
  <1> QED
    BY <1>1, <1>2

(* For any number of instances, terms, crashes and Redis failures: over    *)
(* Redis, a live leaderCtx means the lock, unless the lease ran out before *)
(* its renewal.                                                            *)
THEOREM LeaderHasLock == Spec => []LeaderHoldsLock
  <1>1. LockInv => LeaderHoldsLock
    BY DEF LockInv
  <1> QED
    BY <1>1, LockInit, LockNext, PTL DEF Spec

(* And over either provider, every live leader's lease is being renewed or *)
(* its connection watched.                                                 *)
THEOREM LeaderIsRenewed == Spec => []LeaderRenews
  <1>1. LockInv => LeaderRenews
    BY DEF LockInv
  <1> QED
    BY <1>1, LockInit, LockNext, PTL DEF Spec

-----------------------------------------------------------------------------
(* Types, in three parts: what refers to terms, what is in the schedulers, *)
(* and the rest.                                                           *)
Rebuilding ==
    /\ DOMAIN rebuild = Instances
    /\ \A i \in Instances : DOMAIN rebuild[i] \subseteq {0} \cup Terms

TermTypes ==
    /\ late \subseteq Terms
    /\ open \subseteq Terms
    /\ term \in [Instances -> {0} \cup Terms]
    /\ leaderCtx \in [Instances -> {0} \cup Terms]
    /\ Rebuilding

OwnRunning(i) == cron[i] # 0 => scheds[cron[i]].owner = i /\ scheds[cron[i]].running

Registered ==
    /\ reg \in [Instances -> SUBSET Task]
    /\ \A i \in Instances : \A t, u \in reg[i] : t.name = u.name => t = u

SchedTypes ==
    /\ Registered
    /\ scheds \in Seq(Scheduler)
    /\ cron \in [Instances -> {0} \cup DOMAIN scheds]
    /\ \A i \in Instances : OwnRunning(i)

OtherTypes ==
    /\ provider \in Providers
    /\ stopped \in [Instances -> BOOLEAN]
    /\ failures \in Nat

TypeInv == LockInv /\ TermTypes /\ SchedTypes /\ OtherTypes

LEMMA TypeParts == TypeInv => TypeOK
  BY DEF TypeInv, LockInv, LockType, TermTypes, Rebuilding, SchedTypes, Registered, OtherTypes,
         OwnRunning, TypeOK

LEMMA EmptyDomain == DOMAIN EmptyBag = {}
  BY DEF EmptyBag, SetToBag

LEMMA BagDomains ==
    ASSUME NEW B, NEW x
    PROVE  /\ DOMAIN BagAdd(B, x) = DOMAIN B \cup {x}
           /\ DOMAIN B \ {x} \subseteq DOMAIN BagRemove(B, x)
           /\ DOMAIN BagRemove(B, x) \subseteq DOMAIN B
  BY DEF BagAdd, BagRemove

LEMMA TypeInit == Init => TypeInv
  <1> SUFFICES ASSUME Init PROVE TypeInv
    OBVIOUS
  <1>1. Terms = {} /\ TermTypes /\ OtherTypes
    BY EmptyDomain DEF Init, Terms, TermTypes, Rebuilding, OtherTypes
  <1>2. SchedTypes
    BY DEF Init, SchedTypes, Registered, OwnRunning
  <1> QED
    BY <1>1, <1>2, LockInit DEF TypeInv

(* Terms only grow, keep their owners, and are never live again.           *)
LEMMA TermsGrow ==
    ASSUME LockInv, [Next]_vars
    PROVE  /\ Terms \subseteq Terms'
           /\ \A t \in Terms : owner'[t] = owner[t] /\ (CtxLive(t)' => CtxLive(t))
  <1>0. LockType
    BY DEF LockInv
  <1>1. CASE \E i \in Instances :
               (\E known \in BOOLEAN : Acquire(i, known)) \/ Declare(i)
    <2>1. PICK i \in Instances : (\E known \in BOOLEAN : Acquire(i, known)) \/ Declare(i)
      BY <1>1
    <2>2. /\ owner' = Append(owner, i) /\ ctxDone' = ctxDone /\ cancelled \subseteq cancelled'
      BY <2>1 DEF Acquire, Declare
    <2>3. Terms \subseteq Terms' /\ \A t \in Terms : owner'[t] = owner[t]
      BY <1>0, <2>2, TermsRange DEF LockType, Terms
    <2> QED
      BY <2>2, <2>3 DEF CtxLive
  <1>2. CASE \E i \in Instances : Crash(i)
    <2>1. PICK i \in Instances : Crash(i)
      BY <1>2
    <2>2. /\ owner' = owner /\ cancelled' = cancelled \cup {t \in Terms : owner[t] = i}
          /\ ctxDone' = [ctxDone EXCEPT ![i] = FALSE]
      BY <2>1 DEF Crash
    <2>3. \A t \in Terms : owner[t] \in Instances
      BY <1>0, TermsRange
    <2>4. \A j \in Instances \ {i} : ctxDone'[j] = ctxDone[j]
      BY <1>0, <2>2 DEF LockType
    <2> QED
      BY <2>2, <2>3, <2>4 DEF CtxLive, Terms
  <1>3. CASE \E i \in Instances : CancelCtx(i)
    <2>1. PICK i \in Instances : CancelCtx(i)
      BY <1>3
    <2>2. /\ owner' = owner /\ cancelled' = cancelled
          /\ ctxDone' = [ctxDone EXCEPT ![i] = TRUE]
      BY <2>1 DEF CancelCtx, lockVars
    <2>3. \A j \in Instances : ctxDone[j] => ctxDone'[j]
      BY <1>0, <2>2 DEF LockType
    <2> QED
      BY <1>0, <2>2, <2>3, TermsRange DEF CtxLive, Terms
  <1>4. ASSUME owner' = owner, ctxDone' = ctxDone, cancelled \subseteq cancelled'
        PROVE  /\ Terms \subseteq Terms'
               /\ \A t \in Terms : owner'[t] = owner[t] /\ (CtxLive(t)' => CtxLive(t))
    BY <1>4 DEF CtxLive, Terms
  <1>5. CASE \/ \E i \in Instances, t \in Task : Add(i, t)
             \/ \E i \in Instances, n \in Names : Remove(i, n)
             \/ \E i \in Instances : Rebuild(i) \/ Start(i) \/ Stop(i)
    <2>1. owner' = owner /\ ctxDone' = ctxDone /\ cancelled \subseteq cancelled'
      BY <1>5 DEF Add, Remove, Rebuild, Start, Stop, lockVars, loopVars
    <2> QED
      BY <1>4, <2>1
  <1>6. CASE \E i \in Instances :
               \/ LoopTop(i) \/ Refused(i) \/ DialFails(i) \/ SetCancel(i) \/ SetCtx(i)
               \/ StartScheduler(i) \/ StopScheduler(i) \/ Cleanup(i) \/ Wait(i)
    <2>1. owner' = owner /\ ctxDone' = ctxDone /\ cancelled' = cancelled
      BY <1>6 DEF LoopTop, Refused, DialFails, SetCancel, SetCtx, StartScheduler, StopScheduler,
                  Cleanup, Wait, lockVars
    <2> QED
      BY <1>4, <2>1
  <1>7. CASE \/ \E t \in renewing : TermStep(t)
             \/ \E t \in declaring : BrokerDeclare(t)
             \/ \E t \in open : ConnLost(t)
             \/ Expire \/ BrokerDrop
             \/ UNCHANGED vars
    <2>1. owner' = owner /\ ctxDone' = ctxDone /\ cancelled \subseteq cancelled'
      BY <1>7 DEF TermStep, Release, RenewFails, WatchEnds, StepDown, BrokerDeclare, ConnLost,
                  Expire, BrokerDrop, vars, lockVars, loopVars
    <2> QED
      BY <1>4, <2>1
  <1> QED
    BY <1>1, <1>2, <1>3, <1>5, <1>6, <1>7 DEF Next, LoopStep

(* What each operation on the schedulers of one instance does.  It leaves  *)
(* those of the others, and what they refer to, alone.                     *)
OthersKept(i) ==
    /\ \A s \in DOMAIN scheds : scheds[s].owner # i => scheds'[s] = scheds[s]
    /\ \A j \in Instances \ {i} : cron'[j] = cron[j]

SchedsKept(i) ==
    /\ scheds' \in Seq(Scheduler)
    /\ DOMAIN scheds \subseteq DOMAIN scheds'
    /\ cron' \in [Instances -> {0} \cup DOMAIN scheds']
    /\ OthersKept(i)
    /\ OwnRunning(i)'

LEMMA SchedFields ==
    ASSUME SchedTypes
    PROVE  /\ DOMAIN scheds = 1..Len(scheds) /\ Len(scheds) \in Nat
           /\ \A s \in DOMAIN scheds :
                 scheds[s] \in [owner: Instances, running: BOOLEAN, entries: SUBSET SchedEntry]
  <1>1. scheds \in Seq(Scheduler)
    BY DEF SchedTypes
  <1>2. /\ DOMAIN scheds = 1..Len(scheds) /\ Len(scheds) \in Nat
        /\ \A s \in DOMAIN scheds : scheds[s] \in Scheduler
    BY <1>1
  <1> QED
    BY <1>2 DEF Scheduler

LEMMA OwnersKept ==
    ASSUME SchedTypes, NEW i \in Instances, SchedsKept(i), Registered'
    PROVE  SchedTypes'
  <1>1. ASSUME NEW j \in Instances, j # i PROVE OwnRunning(j)'
    <2>1. /\ OwnRunning(j) /\ cron'[j] = cron[j] /\ cron[j] \in {0} \cup DOMAIN scheds
      BY <1>1 DEF SchedTypes, SchedsKept, OthersKept
    <2> QED
      BY <1>1, <2>1 DEF OwnRunning, SchedsKept, OthersKept
  <1> QED
    BY <1>1 DEF SchedTypes, SchedsKept

LEMMA SchedStarted ==
    ASSUME SchedTypes, NEW i \in Instances, NEW ctx \in Nat, StartSched(i, ctx)
    PROVE  /\ SchedsKept(i)
           /\ \A s \in DOMAIN scheds : scheds'[s] = scheds[s]
           /\ cron'[i] \in DOMAIN scheds' /\ cron'[i] # 0
           /\ scheds'[cron'[i]] = [owner |-> i, running |-> TRUE,
                                   entries |-> Entries(reg[i], ctx)]
  <1> DEFINE k == Len(scheds) + 1
             new == [owner |-> i, running |-> TRUE,
                     entries |-> Entries(reg[i], ctx)]
  <1>1. scheds' = Append(scheds, new) /\ cron' = [cron EXCEPT ![i] = k]
    BY DEF StartSched
  <1>2. new \in Scheduler
    BY DEF SchedTypes, Registered, Task, Entries, Scheduler, SchedEntry
  <1> HIDE DEF new
  <1>3. /\ scheds' \in Seq(Scheduler) /\ DOMAIN scheds' = DOMAIN scheds \cup {k}
        /\ scheds'[k] = new /\ \A s \in DOMAIN scheds : scheds'[s] = scheds[s]
        /\ k # 0
    BY <1>1, <1>2, SchedFields DEF SchedTypes
  <1> HIDE DEF k
  <1>4. /\ cron' \in [Instances -> {0} \cup DOMAIN scheds'] /\ cron'[i] = k
        /\ \A j \in Instances \ {i} : cron'[j] = cron[j]
    BY <1>1, <1>3 DEF SchedTypes
  <1> QED
    BY <1>3, <1>4 DEF new, SchedsKept, OthersKept, OwnRunning

LEMMA SchedStopped ==
    ASSUME SchedTypes, NEW i \in Instances, StopSched(i)
    PROVE  /\ SchedsKept(i)
           /\ cron'[i] = 0
           /\ cron[i] = 0 => scheds' = scheds
  <1>1. /\ cron' = [cron EXCEPT ![i] = 0]
        /\ cron[i] = 0 => scheds' = scheds
        /\ cron[i] # 0 => scheds' = [scheds EXCEPT ![cron[i]].running = FALSE]
    BY DEF StopSched
  <1>2. /\ cron' \in [Instances -> {0} \cup DOMAIN scheds] /\ cron'[i] = 0
        /\ \A j \in Instances \ {i} : cron'[j] = cron[j]
        /\ cron[i] \in {0} \cup DOMAIN scheds /\ OwnRunning(i)
    BY <1>1 DEF SchedTypes
  <1>3. CASE cron[i] = 0
    BY <1>1, <1>2, <1>3 DEF SchedTypes, SchedsKept, OthersKept, OwnRunning
  <1>4. CASE cron[i] # 0
    <2>0. /\ DOMAIN scheds' = DOMAIN scheds /\ cron[i] \in DOMAIN scheds
          /\ \A s \in DOMAIN scheds \ {cron[i]} : scheds'[s] = scheds[s]
          /\ scheds'[cron[i]] = [scheds[cron[i]] EXCEPT !.running = FALSE]
      BY <1>1, <1>2, <1>4
    <2>1. \A s \in DOMAIN scheds : scheds'[s] \in Scheduler
      BY <2>0, SchedFields DEF Scheduler
    <2>2. scheds' \in Seq(Scheduler)
      <3>1. scheds' = [s \in 1..Len(scheds) |-> scheds'[s]]
        BY <1>1, <1>4, SchedFields
      <3> QED
        BY <2>1, <3>1, SchedFields
    <2>3. \A s \in DOMAIN scheds : scheds[s].owner # i => scheds'[s] = scheds[s]
      BY <1>2, <1>4, <2>0 DEF OwnRunning
    <2> QED
      BY <1>1, <1>2, <1>4, <2>0, <2>2, <2>3 DEF SchedsKept, OthersKept, OwnRunning
  <1> QED
    BY <1>1, <1>2, <1>3, <1>4

LEMMA SchedAdded ==
    ASSUME SchedTypes, NEW i \in Instances, NEW t \in Task, Add(i, t)
    PROVE  /\ SchedsKept(i)
           /\ cron' = cron
           /\ \A s \in DOMAIN scheds :
                 /\ scheds'[s].owner = scheds[s].owner /\ scheds'[s].running = scheds[s].running
                 /\ scheds[s].entries \subseteq scheds'[s].entries
           /\ cron[i] # 0 => Entries({t}, 0) \subseteq scheds'[cron[i]].entries
  <1> DEFINE new == Entries({t}, 0)
  <1>1. /\ cron' = cron
        /\ cron[i] = 0 => scheds' = scheds
        /\ cron[i] # 0 => scheds' = [scheds EXCEPT ![cron[i]].entries = @ \cup new]
    BY DEF Add
  <1>2. /\ cron \in [Instances -> {0} \cup DOMAIN scheds] /\ OwnRunning(i)
        /\ cron[i] \in {0} \cup DOMAIN scheds
    BY DEF SchedTypes
  <1>3. new \subseteq SchedEntry
    BY DEF Entries, Task, SchedEntry
  <1> HIDE DEF new
  <1>4. CASE cron[i] = 0
    BY <1>1, <1>2, <1>4 DEF SchedTypes, SchedsKept, OthersKept, OwnRunning
  <1>5. CASE cron[i] # 0
    <2>1. /\ DOMAIN scheds' = DOMAIN scheds
          /\ \A s \in DOMAIN scheds : scheds'[s] \in Scheduler
          /\ \A s \in DOMAIN scheds \ {cron[i]} : scheds'[s] = scheds[s]
          /\ scheds'[cron[i]].owner = scheds[cron[i]].owner
          /\ scheds'[cron[i]].running = scheds[cron[i]].running
          /\ scheds'[cron[i]].entries = scheds[cron[i]].entries \cup new
      BY <1>1, <1>2, <1>3, <1>5, SchedFields DEF Scheduler
    <2>2. scheds' \in Seq(Scheduler)
      <3>1. scheds' = [s \in 1..Len(scheds) |-> scheds'[s]]
        BY <1>1, <1>5, SchedFields
      <3> QED
        BY <2>1, <3>1, SchedFields
    <2> QED
      BY <1>1, <1>2, <1>5, <2>1, <2>2 DEF SchedsKept, OthersKept, OwnRunning, new
  <1> QED
    BY <1>4, <1>5

LEMMA SchedCrashed ==
    ASSUME SchedTypes, NEW i \in Instances, Crash(i)
    PROVE  SchedsKept(i)
  <1>1. /\ scheds' = [s \in DOMAIN scheds |->
                       IF scheds[s].owner = i THEN [scheds[s] EXCEPT !.running = FALSE]
                                              ELSE scheds[s]]
        /\ cron' = [cron EXCEPT ![i] = 0]
    BY DEF Crash
  <1>2. /\ DOMAIN scheds' = DOMAIN scheds
        /\ \A s \in DOMAIN scheds : scheds'[s] \in Scheduler
        /\ \A s \in DOMAIN scheds : scheds[s].owner # i => scheds'[s] = scheds[s]
    BY <1>1, SchedFields DEF Scheduler
  <1>3. scheds' \in Seq(Scheduler)
    BY <1>1, <1>2, SchedFields
  <1> QED
    BY <1>1, <1>2, <1>3 DEF SchedTypes, SchedsKept, OthersKept, OwnRunning

LEMMA SchedTypesNext ==
    ASSUME TypeInv, [Next]_vars
    PROVE  SchedTypes'
  <1>0. SchedTypes /\ LockType
    BY DEF TypeInv, LockInv
  <1>a. Registered /\ (reg' = reg => Registered')
    BY <1>0 DEF SchedTypes, Registered
  <1>1. ASSUME NEW i \in Instances, NEW t \in Task, Add(i, t) PROVE SchedTypes'
    <2>1. reg' = [reg EXCEPT ![i] = Without(@, t.name) \cup {t}]
      BY <1>1 DEF Add
    <2>2. Registered'
      BY <1>a, <2>1 DEF Registered, Without
    <2> QED
      BY <1>0, <1>1, <2>2, SchedAdded, OwnersKept
  <1>2. ASSUME NEW i \in Instances, NEW n \in Names, Remove(i, n) PROVE SchedTypes'
    <2>1. reg' = [reg EXCEPT ![i] = Without(@, n)] /\ StopSched(i)
      BY <1>2 DEF Remove
    <2>2. Registered'
      BY <1>a, <2>1 DEF Registered, Without
    <2> QED
      BY <1>0, <2>1, <2>2, SchedStopped, OwnersKept
  <1>3. ASSUME NEW i \in Instances, Rebuild(i) PROVE SchedTypes'
    <2>1. PICK ctx \in DOMAIN rebuild[i] : StartSched(i, ctx)
      BY <1>3 DEF Rebuild
    <2>2. ctx \in Nat
      BY <1>0, TermsRange DEF TypeInv, TermTypes, Rebuilding
    <2>3. reg' = reg
      BY <1>3 DEF Rebuild
    <2> QED
      BY <1>0, <1>a, <2>1, <2>2, <2>3, SchedStarted, OwnersKept
  <1>4. ASSUME NEW i \in Instances, StartScheduler(i) PROVE SchedTypes'
    <2>1. StartSched(i, term[i]) /\ reg' = reg /\ term[i] \in Nat
      BY <1>0, <1>4 DEF StartScheduler, LockType
    <2> QED
      BY <1>0, <1>a, <2>1, SchedStarted, OwnersKept
  <1>5. ASSUME NEW i \in Instances, StopScheduler(i) PROVE SchedTypes'
    <2>1. StopSched(i) /\ reg' = reg
      BY <1>5 DEF StopScheduler
    <2> QED
      BY <1>0, <1>a, <2>1, SchedStopped, OwnersKept
  <1>6. ASSUME NEW i \in Instances, Crash(i) PROVE SchedTypes'
    <2>1. reg' = [reg EXCEPT ![i] = {}]
      BY <1>6 DEF Crash
    <2>2. Registered'
      BY <1>a, <2>1 DEF Registered
    <2> QED
      BY <1>0, <1>6, <2>2, SchedCrashed, OwnersKept
  <1>7. ASSUME UNCHANGED <<reg, scheds, cron>> PROVE SchedTypes'
    BY <1>0, <1>a, <1>7 DEF SchedTypes, OwnRunning
  <1>8. CASE \E i \in Instances :
               \/ Start(i) \/ Stop(i) \/ CancelCtx(i) \/ LoopTop(i) \/ Refused(i)
               \/ (\E known \in BOOLEAN : Acquire(i, known))
               \/ Declare(i) \/ DialFails(i) \/ SetCancel(i) \/ SetCtx(i) \/ Cleanup(i)
               \/ Wait(i)
    <2>1. UNCHANGED <<reg, scheds, cron>>
      BY <1>8 DEF Start, Stop, CancelCtx, LoopTop, Refused, Acquire, Declare, DialFails,
                  SetCancel, SetCtx, Cleanup, Wait, fieldVars
    <2> QED
      BY <1>7, <2>1
  <1>9. CASE \/ \E t \in renewing : TermStep(t)
             \/ \E t \in declaring : BrokerDeclare(t)
             \/ \E t \in open : ConnLost(t)
             \/ Expire \/ BrokerDrop
             \/ UNCHANGED vars
    <2>1. UNCHANGED <<reg, scheds, cron>>
      BY <1>9 DEF TermStep, Release, RenewFails, WatchEnds, BrokerDeclare, ConnLost, Expire,
                  BrokerDrop, vars, fieldVars
    <2> QED
      BY <1>7, <2>1
  <1> QED
    BY <1>1, <1>2, <1>3, <1>4, <1>5, <1>6, <1>8, <1>9 DEF Next, LoopStep

LEMMA TermTypesNext ==
    ASSUME TypeInv, LockInv', [Next]_vars
    PROVE  TermTypes'
  <1>0. TermTypes /\ LockType /\ LockType'
    BY DEF TypeInv, LockInv
  <1>a. Terms \subseteq Terms'
    BY TermsGrow DEF TypeInv
  <1>b. /\ late \subseteq Terms /\ open \subseteq Terms
        /\ term \in [Instances -> {0} \cup Terms]
        /\ leaderCtx \in [Instances -> {0} \cup Terms]
        /\ Rebuilding
    BY <1>0 DEF TermTypes
  <1>1. ASSUME open' \subseteq open, UNCHANGED <<late, term, leaderCtx, rebuild>>
        PROVE  TermTypes'
    BY <1>a, <1>b, <1>1 DEF TermTypes, Rebuilding
  <1>2. ASSUME NEW i \in Instances,
               (\E t \in Task : Add(i, t)) \/ (\E n \in Names : Remove(i, n))
        PROVE  TermTypes'
    <2>1. UNCHANGED <<late, open, term, leaderCtx, owner>>
      BY <1>2 DEF Add, Remove, lockVars, loopVars
    <2>2. rebuild' = rebuild \/ rebuild' = [rebuild EXCEPT ![i] = BagAdd(@, leaderCtx[i])]
      BY <1>2 DEF Add, Remove
    <2>3. /\ DOMAIN rebuild' = Instances
          /\ \A j \in Instances : rebuild'[j] \in {rebuild[j], BagAdd(rebuild[j], leaderCtx[j])}
      BY <1>b, <2>2 DEF Rebuilding
    <2>4. \A j \in Instances : DOMAIN rebuild'[j] \subseteq DOMAIN rebuild[j] \cup {leaderCtx[j]}
      BY <2>3, BagDomains
    <2>5. Rebuilding'
      BY <1>b, <2>1, <2>3, <2>4 DEF Rebuilding, Terms
    <2> QED
      BY <1>b, <2>1, <2>5 DEF TermTypes, Terms
  <1>3. ASSUME NEW i \in Instances, Rebuild(i) PROVE TermTypes'
    <2>1. /\ UNCHANGED <<late, open, term, leaderCtx, owner>>
          /\ \E ctx : rebuild' = [rebuild EXCEPT ![i] = BagRemove(@, ctx)]
      BY <1>3 DEF Rebuild, lockVars, loopVars
    <2>2. Rebuilding'
      BY <1>b, <2>1, BagDomains DEF Rebuilding, Terms
    <2> QED
      BY <1>b, <2>1, <2>2 DEF TermTypes, Terms
  <1>4. ASSUME NEW i \in Instances, (\E known \in BOOLEAN : Acquire(i, known)) \/ Declare(i)
        PROVE  TermTypes'
    <2> DEFINE t == Len(owner) + 1
    <2>1. /\ owner' = Append(owner, i)
          /\ open' \subseteq open \cup {t}
          /\ UNCHANGED <<late, leaderCtx, rebuild>>
          /\ term' = term \/ term' = [term EXCEPT ![i] = t]
      BY <1>4 DEF Acquire, Declare, fieldVars, brokerVars
    <2>2. t \in Terms'
      BY <1>0, <2>1 DEF LockType, Terms
    <2> HIDE DEF t
    <2>3. term' \in [Instances -> {0} \cup Terms']
      BY <1>a, <1>b, <2>1, <2>2
    <2> QED
      BY <1>a, <1>b, <2>1, <2>2, <2>3 DEF TermTypes, Rebuilding
  <1>5. ASSUME NEW i \in Instances, SetCtx(i) PROVE TermTypes'
    <2>1. /\ UNCHANGED <<late, open, term, rebuild, owner>>
          /\ leaderCtx' = [leaderCtx EXCEPT ![i] = term[i]]
      BY <1>5 DEF SetCtx, lockVars
    <2>2. leaderCtx' \in [Instances -> {0} \cup Terms]
      BY <1>b, <2>1
    <2> QED
      BY <1>b, <2>1, <2>2 DEF TermTypes, Rebuilding, Terms
  <1>6. ASSUME Expire PROVE TermTypes'
    <2>1. /\ UNCHANGED <<open, term, leaderCtx, rebuild, owner>>
          /\ lock # 0 /\ late' \subseteq late \cup {lock}
      BY <1>6 DEF Expire, loopVars, fieldVars, brokerVars
    <2>2. lock \in {0} \cup Terms
      BY <1>0 DEF LockType
    <2> QED
      BY <1>b, <2>1, <2>2 DEF TermTypes, Rebuilding, Terms
  <1>7. ASSUME NEW i \in Instances, Crash(i) PROVE TermTypes'
    <2>1. /\ UNCHANGED <<late, owner>> /\ open' \subseteq open
          /\ term' = [term EXCEPT ![i] = 0]
          /\ leaderCtx' = [leaderCtx EXCEPT ![i] = 0]
          /\ rebuild' = [rebuild EXCEPT ![i] = EmptyBag]
      BY <1>7 DEF Crash
    <2> QED
      BY <1>b, <2>1, EmptyDomain DEF TermTypes, Rebuilding, Terms
  <1>8. CASE \E i \in Instances :
               \/ Start(i) \/ Stop(i) \/ CancelCtx(i) \/ LoopTop(i) \/ Refused(i)
               \/ DialFails(i) \/ SetCancel(i) \/ StartScheduler(i) \/ StopScheduler(i)
               \/ Cleanup(i) \/ Wait(i)
    <2>1. open' \subseteq open /\ UNCHANGED <<late, term, leaderCtx, rebuild>>
      BY <1>8 DEF Start, Stop, CancelCtx, LoopTop, Refused, DialFails, SetCancel,
                  StartScheduler, StopScheduler, Cleanup, Closed, Wait, lockVars, brokerVars,
                  loopVars, fieldVars
    <2> QED
      BY <1>1, <2>1
  <1>9. CASE \/ \E t \in renewing : TermStep(t)
             \/ \E t \in declaring : BrokerDeclare(t)
             \/ \E t \in open : ConnLost(t)
             \/ BrokerDrop
             \/ UNCHANGED vars
    <2>1. open' \subseteq open /\ UNCHANGED <<late, term, leaderCtx, rebuild>>
      BY <1>9 DEF TermStep, Release, RenewFails, WatchEnds, BrokerDeclare, ConnLost, BrokerDrop,
                  vars, lockVars, brokerVars, loopVars, fieldVars
    <2> QED
      BY <1>1, <2>1
  <1> QED
    BY <1>2, <1>3, <1>4, <1>5, <1>6, <1>7, <1>8, <1>9 DEF Next, LoopStep

LEMMA OtherTypesNext ==
    ASSUME TypeInv, [Next]_vars
    PROVE  OtherTypes'
  <1>0. OtherTypes
    BY DEF TypeInv
  <1>1. provider' = provider
    <2>1. CASE \E i \in Instances : LoopStep(i)
      BY <2>1 DEF LoopStep, LoopTop, Acquire, Refused, Declare, DialFails, SetCancel, SetCtx,
                  StartScheduler, StopScheduler, Cleanup, Wait, lockVars, brokerVars
    <2>2. CASE ~\E i \in Instances : LoopStep(i)
      BY <2>2 DEF Next, Add, Remove, Rebuild, Start, Stop, CancelCtx, Crash, TermStep, Release,
                  RenewFails, WatchEnds, BrokerDeclare, ConnLost, Expire, BrokerDrop, vars,
                  lockVars, brokerVars
    <2> QED
      BY <2>1, <2>2
  <1>2. failures' = failures \/ failures' = failures + 1
    <2>1. CASE \E i \in Instances : LoopStep(i)
      BY <2>1 DEF LoopStep, LoopTop, Acquire, Refused, Declare, DialFails, SetCancel, SetCtx,
                  StartScheduler, StopScheduler, Cleanup, Wait, Failure
    <2>2. CASE ~\E i \in Instances : LoopStep(i)
      BY <2>2 DEF Next, Add, Remove, Rebuild, Start, Stop, CancelCtx, Crash, TermStep, Release,
                  RenewFails, WatchEnds, BrokerDeclare, ConnLost, Expire, BrokerDrop, vars,
                  Failure
    <2> QED
      BY <2>1, <2>2
  <1>3. \/ stopped' = stopped
        \/ \E i \in Instances : \E b \in BOOLEAN : stopped' = [stopped EXCEPT ![i] = b]
    <2>1. CASE \E i \in Instances : LoopStep(i)
      BY <2>1 DEF LoopStep, LoopTop, Acquire, Refused, Declare, DialFails, SetCancel, SetCtx,
                  StartScheduler, StopScheduler, Cleanup, Wait
    <2>2. CASE \E i \in Instances : Stop(i) \/ Crash(i)
      BY <2>2 DEF Stop, Crash
    <2>3. CASE ~\E i \in Instances : LoopStep(i) \/ Stop(i) \/ Crash(i)
      BY <2>3 DEF Next, Add, Remove, Rebuild, Start, CancelCtx, TermStep, Release,
                  RenewFails, WatchEnds, BrokerDeclare, ConnLost, Expire, BrokerDrop, vars,
                  loopVars
    <2> QED
      BY <2>1, <2>2, <2>3
  <1>4. stopped' \in [Instances -> BOOLEAN]
    BY <1>0, <1>3 DEF OtherTypes
  <1> QED
    BY <1>0, <1>1, <1>2, <1>4 DEF OtherTypes

LEMMA TypeNext == TypeInv /\ [Next]_vars => TypeInv'
  BY LockNext, SchedTypesNext, TermTypesNext, OtherTypesNext DEF TypeInv

(* For any number of instances, terms and failures: every field refers to a*)
(* term or a scheduler there is, and the scheduler in an instance's field  *)
(* cron is its own and runs.                                               *)
THEOREM TypeCorrect == Spec => []TypeOK
  BY TypeParts, TypeInit, TypeNext, PTL DEF Spec

-----------------------------------------------------------------------------
(* Which tasks a leader triggers.  A Remove takes its scheduler away and   *)
(* puts one back later, perhaps after it has become leader again, and that *)
(* one may have been made for an earlier term.  So a leader has either a   *)
(* rebuild under its own leaderCtx ahead, or schedulers that run under this*)
(* context, or under Background, and have every registered task with a     *)
(* valid spec.                                                             *)
Scheduled(i, n) ==
    \E s \in DOMAIN scheds :
        /\ scheds[s].owner = i /\ scheds[s].running
        /\ \E e \in scheds[s].entries : e.name = n /\ e.ctx \in {0, term[i]}

CtxSet(i) == pc[i] \in {"starting", "leading"} => leaderCtx[i] = term[i]

Scheduling(i) ==
    pc[i] = "leading" /\ CtxLive(term[i]) =>
        \/ term[i] \in DOMAIN rebuild[i]
        \/ cron[i] # 0 /\ \A t \in reg[i] : t.valid => Scheduled(i, t.name)

SchedInv == TypeInv /\ \A i \in Instances : CtxSet(i) /\ Scheduling(i)

(* Only StartScheduler begins to lead, and until it ends a term keeps its  *)
(* number and its leaderCtx.                                               *)
LEMMA LeadingFacts ==
    ASSUME TypeInv, [Next]_vars, NEW j \in Instances
    PROVE  /\ pc'[j] = "leading" =>
                 /\ pc[j] = "leading" \/ (StartScheduler(j) /\ pc[j] = "starting")
                 /\ term'[j] = term[j] /\ leaderCtx'[j] = leaderCtx[j]
           /\ pc'[j] = "starting" =>
                 \/ pc[j] = "starting" /\ term'[j] = term[j] /\ leaderCtx'[j] = leaderCtx[j]
                 \/ leaderCtx'[j] = term'[j]
  <1>0. /\ pc \in [Instances -> {"off", "top", "try", "won", "elected", "starting",
                             "leading", "cleanup", "wait", "exited"}]
        /\ term \in [Instances -> {0} \cup Terms]
        /\ leaderCtx \in [Instances -> {0} \cup Terms]
    BY DEF TypeInv, LockInv, LockType, TermTypes
  <1>1. CASE UNCHANGED <<pc, term, leaderCtx>>
    BY <1>1
  <1>2. ASSUME NEW i \in Instances,
               \E to \in {"off", "top", "try", "won", "elected", "cleanup", "wait", "exited"} :
                   pc' = [pc EXCEPT ![i] = to],
               \A k \in Instances \ {i} : term'[k] = term[k] /\ leaderCtx'[k] = leaderCtx[k]
        PROVE  /\ pc'[j] = "leading" =>
                     /\ pc[j] = "leading"
                     /\ term'[j] = term[j] /\ leaderCtx'[j] = leaderCtx[j]
               /\ pc'[j] = "starting" =>
                     pc[j] = "starting" /\ term'[j] = term[j] /\ leaderCtx'[j] = leaderCtx[j]
    BY <1>0, <1>2
  <1>3. CASE \E i \in Instances :
               \/ Start(i) \/ LoopTop(i) \/ Refused(i) \/ DialFails(i) \/ SetCancel(i)
               \/ StopScheduler(i) \/ Cleanup(i) \/ Wait(i)
    <2>1. PICK i \in Instances :
               \/ Start(i) \/ LoopTop(i) \/ Refused(i) \/ DialFails(i) \/ SetCancel(i)
               \/ StopScheduler(i) \/ Cleanup(i) \/ Wait(i)
      BY <1>3
    <2>2. /\ \E to \in {"off", "top", "try", "won", "elected", "cleanup", "wait", "exited"} :
                pc' = [pc EXCEPT ![i] = to]
          /\ term' = term /\ leaderCtx' = leaderCtx
      BY <2>1 DEF Start, LoopTop, Refused, DialFails, SetCancel, StopScheduler, Cleanup, Wait,
                  fieldVars
    <2> QED
      BY <1>2, <2>2
  <1>4. CASE \E i \in Instances : (\E known \in BOOLEAN : Acquire(i, known)) \/ Declare(i)
    <2>1. PICK i \in Instances : (\E known \in BOOLEAN : Acquire(i, known)) \/ Declare(i)
      BY <1>4
    <2>2. /\ \E to \in {"off", "top", "try", "won", "elected", "cleanup", "wait", "exited"} :
                pc' = [pc EXCEPT ![i] = to]
          /\ term' = term \/ term' = [term EXCEPT ![i] = Len(owner) + 1]
          /\ leaderCtx' = leaderCtx
      BY <2>1 DEF Acquire, Declare, fieldVars
    <2>3. \A k \in Instances \ {i} : term'[k] = term[k]
      BY <1>0, <2>2
    <2> QED
      BY <1>2, <2>2, <2>3
  <1>5. CASE \E i \in Instances : Crash(i)
    <2>1. PICK i \in Instances : Crash(i)
      BY <1>5
    <2>2. /\ pc' = [pc EXCEPT ![i] = "off"]
          /\ term' = [term EXCEPT ![i] = 0]
          /\ leaderCtx' = [leaderCtx EXCEPT ![i] = 0]
      BY <2>1 DEF Crash
    <2> QED
      BY <1>0, <2>2
  <1>6. CASE \E i \in Instances : SetCtx(i)
    <2>1. PICK i \in Instances : SetCtx(i)
      BY <1>6
    <2>2. /\ pc' = [pc EXCEPT ![i] = "starting"] /\ term' = term
          /\ leaderCtx' = [leaderCtx EXCEPT ![i] = term[i]]
      BY <2>1 DEF SetCtx
    <2> QED
      BY <1>0, <2>2
  <1>7. CASE \E i \in Instances : StartScheduler(i)
    <2>1. PICK i \in Instances : StartScheduler(i)
      BY <1>7
    <2>2. /\ pc[i] = "starting" /\ pc' = [pc EXCEPT ![i] = "leading"]
          /\ term' = term /\ leaderCtx' = leaderCtx
      BY <2>1 DEF StartScheduler
    <2> QED
      BY <1>0, <2>1, <2>2
  <1>8. CASE \/ \E i \in Instances, t \in Task : Add(i, t)
             \/ \E i \in Instances, n \in Names : Remove(i, n)
             \/ \E i \in Instances : Rebuild(i) \/ Stop(i) \/ CancelCtx(i)
             \/ \E t \in renewing : TermStep(t)
             \/ \E t \in declaring : BrokerDeclare(t)
             \/ \E t \in open : ConnLost(t)
             \/ Expire \/ BrokerDrop
             \/ UNCHANGED vars
    <2>1. UNCHANGED <<pc, term, leaderCtx>>
      BY <1>8 DEF Add, Remove, Rebuild, Stop, CancelCtx, TermStep, Release, RenewFails,
                  WatchEnds, BrokerDeclare, ConnLost, Expire, BrokerDrop, vars, loopVars,
                  fieldVars
    <2> QED
      BY <1>1, <2>1
  <1> QED
    BY <1>3, <1>4, <1>5, <1>6, <1>7, <1>8 DEF Next, LoopStep

(* What a step does not do to an instance's schedulers leaves the invariant*)
(* of that instance alone: nothing is registered or taken away, and what   *)
(* runs goes on.                                                           *)
LEMMA SchedulingKept ==
    ASSUME SchedInv, [Next]_vars, NEW j \in Instances, ~StartScheduler(j),
           rebuild'[j] = rebuild[j], cron'[j] = cron[j], reg'[j] = reg[j],
           DOMAIN scheds \subseteq DOMAIN scheds',
           \A s \in DOMAIN scheds : scheds[s].owner = j => scheds'[s] = scheds[s]
    PROVE  Scheduling(j)'
  <1> SUFFICES ASSUME pc'[j] = "leading", CtxLive(term[j])', term'[j] = term[j]
               PROVE  \/ term[j] \in DOMAIN rebuild[j]
                      \/ cron[j] # 0 /\ \A t \in reg[j] : t.valid => Scheduled(j, t.name)'
    BY LeadingFacts DEF Scheduling, SchedInv, CtxLive
  <1>1. pc[j] = "leading"
    BY LeadingFacts DEF SchedInv
  <1>2. term[j] \in Terms
    BY <1>1 DEF SchedInv, TypeInv, LockInv, LockType
  <1>3. CtxLive(term[j])
    BY <1>2, TermsGrow DEF SchedInv, TypeInv
  <1>4. CASE term[j] \in DOMAIN rebuild[j]
    BY <1>4
  <1>5. CASE cron[j] # 0 /\ \A t \in reg[j] : t.valid => Scheduled(j, t.name)
    BY <1>5 DEF Scheduled
  <1> QED
    BY <1>1, <1>3, <1>4, <1>5 DEF SchedInv, Scheduling

(* The same for the steps of one instance as seen by another one.          *)
LEMMA OtherInstances ==
    ASSUME SchedInv, [Next]_vars, NEW i \in Instances, NEW j \in Instances, i # j,
           SchedsKept(i), rebuild'[j] = rebuild[j], reg'[j] = reg[j], ~StartScheduler(j)
    PROVE  Scheduling(j)'
  BY SchedulingKept DEF SchedsKept, OthersKept

LEMMA AddKeeps ==
    ASSUME SchedInv, NEW i \in Instances, NEW t \in Task, Add(i, t)
    PROVE  \A j \in Instances : Scheduling(j)'
  <1>0. SchedTypes /\ [Next]_vars
    BY DEF SchedInv, TypeInv, Next
  <1>1. /\ UNCHANGED <<owner, cancelled, ctxDone, pc, term, rebuild>>
        /\ reg' = [reg EXCEPT ![i] = Without(@, t.name) \cup {t}]
    BY DEF Add, lockVars, loopVars
  <1>2. /\ reg'[i] \subseteq reg[i] \cup {t}
        /\ \A j \in Instances \ {i} : reg'[j] = reg[j]
    BY <1>0, <1>1 DEF SchedTypes, Registered, Without
  <1>3. /\ SchedsKept(i) /\ cron' = cron
        /\ \A s \in DOMAIN scheds :
              /\ scheds'[s].owner = scheds[s].owner /\ scheds'[s].running = scheds[s].running
              /\ scheds[s].entries \subseteq scheds'[s].entries
        /\ cron[i] # 0 => Entries({t}, 0) \subseteq scheds'[cron[i]].entries
    BY <1>0, SchedAdded
  <1>4. \A j \in Instances : ~StartScheduler(j)
    <2>1. ASSUME NEW j \in Instances, StartScheduler(j) PROVE FALSE
      <3>1. pc[j] = "starting" /\ pc' = [pc EXCEPT ![j] = "leading"]
        BY <2>1 DEF StartScheduler
      <3>2. pc'[j] = "leading"
        BY <3>1 DEF SchedInv, TypeInv, LockInv, LockType
      <3> QED
        BY <1>1, <3>1, <3>2
    <2> QED
      BY <2>1
  <1>5. ASSUME NEW j \in Instances, j # i PROVE Scheduling(j)'
    BY <1>0, <1>1, <1>2, <1>3, <1>4, <1>5, OtherInstances
  <1>6. Scheduling(i)'
    <2> SUFFICES ASSUME pc[i] = "leading", CtxLive(term[i]), term[i] \notin DOMAIN rebuild[i],
                        NEW u \in reg[i] \cup {t}, u.valid
                 PROVE  cron[i] # 0 /\ Scheduled(i, u.name)'
      <3>1. \A u \in reg'[i] : u \in reg[i] \cup {t}
        BY <1>2
      <3>2. pc'[i] = pc[i] /\ term'[i] = term[i] /\ rebuild'[i] = rebuild[i] /\ cron'[i] = cron[i]
        BY <1>1, <1>3
      <3>3. CtxLive(term[i])' => CtxLive(term[i])
        BY <1>1 DEF CtxLive, Terms
      <3>4. SUFFICES ASSUME pc'[i] = "leading", CtxLive(term[i])', term'[i] \notin DOMAIN rebuild'[i]
                     PROVE  cron'[i] # 0 /\ \A u \in reg'[i] : u.valid => Scheduled(i, u.name)'
        BY DEF Scheduling
      <3>5. pc[i] = "leading" /\ CtxLive(term[i]) /\ term[i] \notin DOMAIN rebuild[i]
        BY <3>2, <3>3, <3>4
      <3>6. cron[i] # 0
        BY <3>5 DEF SchedInv, Scheduling
      <3> QED
        BY <3>1, <3>2, <3>5, <3>6
    <2>1. cron[i] # 0 /\ \A k \in reg[i] : k.valid => Scheduled(i, k.name)
      BY DEF SchedInv, Scheduling
    <2>2. CASE u \in reg[i]
      <3>1. DOMAIN scheds \subseteq DOMAIN scheds'
        BY <1>3 DEF SchedsKept
      <3>2. PICK s \in DOMAIN scheds :
               /\ scheds[s].owner = i /\ scheds[s].running
               /\ \E e \in scheds[s].entries : e.name = u.name /\ e.ctx \in {0, term[i]}
        BY <2>1, <2>2 DEF Scheduled
      <3>3. /\ scheds'[s].owner = i /\ scheds'[s].running
            /\ \E e \in scheds'[s].entries : e.name = u.name /\ e.ctx \in {0, term[i]}
        BY <1>3, <3>2
      <3> QED
        BY <1>1, <2>1, <3>1, <3>2, <3>3 DEF Scheduled
    <2>3. CASE u = t
      <3>1. /\ cron[i] \in DOMAIN scheds /\ DOMAIN scheds \subseteq DOMAIN scheds'
            /\ scheds[cron[i]].owner = i /\ scheds[cron[i]].running
        BY <1>0, <1>3, <2>1 DEF SchedTypes, OwnRunning, SchedsKept
      <3> DEFINE e == [name |-> u.name, ctx |-> 0]
      <3>2. e \in Entries({t}, 0) /\ e.name = u.name /\ e.ctx = 0
        BY <2>3 DEF Entries
      <3> HIDE DEF e
      <3> QED
        BY <1>3, <2>1, <3>1, <3>2 DEF Scheduled
    <2> QED
      BY <2>2, <2>3
  <1> QED
    BY <1>5, <1>6

(* A Remove leaves a rebuild under the leader's own context ahead.         *)
LEMMA RemoveKeeps ==
    ASSUME SchedInv, NEW i \in Instances, NEW n \in Names, Remove(i, n)
    PROVE  \A j \in Instances : Scheduling(j)'
  <1>0. SchedTypes /\ [Next]_vars
    BY DEF SchedInv, TypeInv, Next
  <1>1. /\ UNCHANGED <<owner, cancelled, ctxDone, pc, term>>
        /\ reg' = [reg EXCEPT ![i] = Without(@, n)]
        /\ rebuild' = IF cron[i] = 0 THEN rebuild
                      ELSE [rebuild EXCEPT ![i] = BagAdd(@, leaderCtx[i])]
        /\ StopSched(i)
    BY DEF Remove, lockVars, loopVars
  <1>2. /\ DOMAIN rebuild[i] \subseteq DOMAIN rebuild'[i]
        /\ cron[i] # 0 => leaderCtx[i] \in DOMAIN rebuild'[i]
        /\ \A j \in Instances \ {i} : reg'[j] = reg[j] /\ rebuild'[j] = rebuild[j]
    <2>1. DOMAIN reg = Instances /\ DOMAIN rebuild = Instances
      BY <1>0 DEF SchedTypes, Registered, SchedInv, TypeInv, TermTypes, Rebuilding
    <2>2. /\ \A j \in Instances \ {i} : reg'[j] = reg[j] /\ rebuild'[j] = rebuild[j]
          /\ cron[i] = 0 => rebuild'[i] = rebuild[i]
          /\ cron[i] # 0 => rebuild'[i] = BagAdd(rebuild[i], leaderCtx[i])
      BY <1>1, <2>1
    <2>3. DOMAIN BagAdd(rebuild[i], leaderCtx[i]) = DOMAIN rebuild[i] \cup {leaderCtx[i]}
      BY BagDomains
    <2> QED
      BY <2>2, <2>3
  <1>3. SchedsKept(i)
    BY <1>0, <1>1, SchedStopped
  <1>4. \A j \in Instances : ~StartScheduler(j)
    <2>1. ASSUME NEW j \in Instances, StartScheduler(j) PROVE FALSE
      <3>1. pc[j] = "starting" /\ pc' = [pc EXCEPT ![j] = "leading"]
        BY <2>1 DEF StartScheduler
      <3>2. pc'[j] = "leading"
        BY <3>1 DEF SchedInv, TypeInv, LockInv, LockType
      <3> QED
        BY <1>1, <3>1, <3>2
    <2> QED
      BY <2>1
  <1>5. ASSUME NEW j \in Instances, j # i PROVE Scheduling(j)'
    BY <1>0, <1>1, <1>2, <1>3, <1>4, <1>5, OtherInstances
  <1>6. Scheduling(i)'
    <2> SUFFICES ASSUME pc[i] = "leading", CtxLive(term[i])
                 PROVE  term[i] \in DOMAIN rebuild'[i]
      BY <1>1 DEF Scheduling, CtxLive, Terms
    <2>1. leaderCtx[i] = term[i] /\ (term[i] \in DOMAIN rebuild[i] \/ cron[i] # 0)
      BY DEF SchedInv, Scheduling, CtxSet
    <2> QED
      BY <1>2, <2>1
  <1> QED
    BY <1>5, <1>6

(* A new scheduler has every registered task; if it was made for another   *)
(* context, the leader's own rebuild is still ahead, or its schedulers run.*)
LEMMA StartKeeps ==
    ASSUME SchedInv, [Next]_vars, NEW i \in Instances, NEW ctx \in Nat, StartSched(i, ctx),
           reg' = reg, term' = term,
           \A j \in Instances \ {i} : ~StartScheduler(j) /\ rebuild'[j] = rebuild[j],
           \/ StartScheduler(i) /\ ctx = term[i]
           \/ ~StartScheduler(i) /\ DOMAIN rebuild[i] \ {ctx} \subseteq DOMAIN rebuild'[i]
    PROVE  \A j \in Instances : Scheduling(j)'
  <1>0. SchedTypes
    BY DEF SchedInv, TypeInv
  <1> DEFINE new == [owner |-> i, running |-> TRUE,
                     entries |-> Entries(reg[i], ctx)]
  <1>1. /\ SchedsKept(i) /\ DOMAIN scheds \subseteq DOMAIN scheds'
        /\ \A s \in DOMAIN scheds : scheds'[s] = scheds[s]
        /\ cron'[i] \in DOMAIN scheds' /\ cron'[i] # 0
        /\ scheds'[cron'[i]] = new
    BY <1>0, SchedStarted DEF SchedsKept
  <1>2. ASSUME NEW j \in Instances, j # i PROVE Scheduling(j)'
    BY <1>1, <1>2, OtherInstances
  <1>3. Scheduling(i)'
    <2> SUFFICES ASSUME pc'[i] = "leading", CtxLive(term[i])', term[i] \notin DOMAIN rebuild'[i],
                        NEW t \in reg[i], t.valid
                 PROVE  Scheduled(i, t.name)'
      BY <1>1 DEF Scheduling, CtxLive
    <2>1. CASE ctx = term[i]
      <3> DEFINE e == [name |-> t.name, ctx |-> ctx]
      <3>1. /\ e \in new.entries /\ e.name = t.name /\ e.ctx = term[i]
            /\ new.owner = i /\ new.running
        BY <2>1 DEF Entries
      <3> HIDE DEF e, new
      <3> QED
        BY <1>1, <3>1 DEF Scheduled
    <2>2. CASE ctx # term[i]
      <3>1. pc[i] = "leading" /\ term[i] \notin DOMAIN rebuild[i]
        BY <2>2, LeadingFacts DEF SchedInv
      <3>2. CtxLive(term[i])
        <4>1. term[i] \in Terms
          BY <3>1 DEF SchedInv, TypeInv, LockInv, LockType
        <4> QED
          BY <4>1, TermsGrow DEF SchedInv, TypeInv
      <3>3. Scheduled(i, t.name)
        BY <3>1, <3>2 DEF SchedInv, Scheduling
      <3> QED
        BY <1>1, <3>3 DEF Scheduled
    <2> QED
      BY <2>1, <2>2
  <1> QED
    BY <1>2, <1>3

LEMMA SchedNext == SchedInv /\ [Next]_vars => SchedInv'
  <1> SUFFICES ASSUME SchedInv, [Next]_vars PROVE SchedInv'
    OBVIOUS
  <1>0. /\ SchedTypes /\ TypeInv'
        /\ pc \in [Instances -> {"off", "top", "try", "won", "elected", "starting",
                             "leading", "cleanup", "wait", "exited"}]
        /\ Rebuilding
    BY TypeNext DEF SchedInv, TypeInv, LockInv, LockType, TermTypes
  <1>1. \A j \in Instances : CtxSet(j)'
    BY LeadingFacts DEF SchedInv, CtxSet
  <1>2. ASSUME NEW j \in Instances, StartScheduler(j) PROVE pc'[j] = "leading"
    BY <1>0, <1>2 DEF StartScheduler
  <1>3. ASSUME NEW i \in Instances, Rebuild(i) PROVE \A j \in Instances : Scheduling(j)'
    <2>1. PICK ctx \in DOMAIN rebuild[i] :
             StartSched(i, ctx) /\ rebuild' = [rebuild EXCEPT ![i] = BagRemove(@, ctx)]
      BY <1>3 DEF Rebuild
    <2>2. ctx \in Nat
      BY <1>0, TermsRange DEF SchedInv, TypeInv, LockInv, Rebuilding
    <2>3. reg' = reg /\ term' = term /\ pc' = pc
      BY <1>3 DEF Rebuild, loopVars
    <2>4. \A j \in Instances : ~StartScheduler(j)
      BY <1>2, <2>3 DEF StartScheduler
    <2>5. /\ DOMAIN rebuild[i] \ {ctx} \subseteq DOMAIN rebuild'[i]
          /\ \A j \in Instances \ {i} : rebuild'[j] = rebuild[j]
      BY <1>0, <2>1, BagDomains DEF Rebuilding
    <2> QED
      BY <2>1, <2>2, <2>3, <2>4, <2>5, StartKeeps
  <1>4. ASSUME NEW i \in Instances, StartScheduler(i) PROVE \A j \in Instances : Scheduling(j)'
    <2>1. /\ StartSched(i, term[i]) /\ reg' = reg /\ term' = term /\ rebuild' = rebuild
          /\ pc' = [pc EXCEPT ![i] = "leading"]
      BY <1>4 DEF StartScheduler
    <2>2. term[i] \in Nat
      BY DEF SchedInv, TypeInv, LockInv, LockType
    <2>3. \A j \in Instances \ {i} : ~StartScheduler(j)
      <3>1. ASSUME NEW j \in Instances, j # i, StartScheduler(j) PROVE FALSE
        <4>1. pc'[j] = "leading" /\ pc[j] = "starting"
          BY <1>2, <3>1 DEF StartScheduler
        <4>2. pc'[j] = pc[j]
          BY <1>0, <2>1, <3>1
        <4> QED
          BY <4>1, <4>2
      <3> QED
        BY <3>1
    <2> QED
      BY <1>4, <2>1, <2>2, <2>3, StartKeeps
  <1>5. ASSUME NEW i \in Instances, StopScheduler(i) \/ Crash(i)
        PROVE  \A j \in Instances : Scheduling(j)'
    <2>1. SchedsKept(i)
      BY <1>0, <1>5, SchedStopped, SchedCrashed DEF StopScheduler
    <2>2. \E to \in {"off", "wait", "cleanup"} : pc' = [pc EXCEPT ![i] = to]
      BY <1>5 DEF StopScheduler, Crash
    <2>3. \A j \in Instances \ {i} : reg'[j] = reg[j] /\ rebuild'[j] = rebuild[j]
      BY <1>0, <1>5 DEF StopScheduler, Crash, SchedTypes, Registered, Rebuilding
    <2>4. ASSUME NEW j \in Instances, j # i PROVE Scheduling(j)'
      <3>1. ~StartScheduler(j)
        <4>1. pc'[j] = pc[j]
          BY <1>0, <2>2, <2>4
        <4> QED
          BY <1>2, <4>1 DEF StartScheduler
      <3> QED
        BY <2>1, <2>3, <2>4, <3>1, OtherInstances
    <2>5. Scheduling(i)'
      BY <1>0, <2>2 DEF Scheduling
    <2> QED
      BY <2>4, <2>5
  <1>6. ASSUME UNCHANGED <<reg, scheds, cron, rebuild>>, \A j \in Instances : ~StartScheduler(j)
        PROVE  \A j \in Instances : Scheduling(j)'
    BY <1>6, SchedulingKept
  <1>7. ASSUME NEW i \in Instances,
               \/ Start(i) \/ Stop(i) \/ CancelCtx(i) \/ LoopTop(i) \/ Refused(i)
               \/ (\E known \in BOOLEAN : Acquire(i, known))
               \/ Declare(i) \/ DialFails(i) \/ SetCancel(i) \/ SetCtx(i) \/ Cleanup(i)
               \/ Wait(i)
        PROVE  \A j \in Instances : Scheduling(j)'
    <2>2. UNCHANGED <<reg, scheds, cron, rebuild>>
      BY <1>7 DEF Start, Stop, CancelCtx, LoopTop, Refused, Acquire, Declare, DialFails,
                  SetCancel, SetCtx, Cleanup, Wait, fieldVars
    <2>3. \A j \in Instances : ~StartScheduler(j)
      <3>1. \/ pc' = pc
            \/ \E to \in {"top", "try", "won", "elected", "starting", "wait", "exited"} :
                  pc' = [pc EXCEPT ![i] = to]
        BY <1>7 DEF Start, Stop, CancelCtx, LoopTop, Refused, Acquire, Declare, DialFails,
                    SetCancel, SetCtx, Cleanup, Wait
      <3>2. ASSUME NEW j \in Instances, StartScheduler(j) PROVE FALSE
        <4>1. pc'[j] = "leading" /\ pc[j] = "starting"
          BY <1>2, <3>2 DEF StartScheduler
        <4> QED
          BY <1>0, <3>1, <4>1
      <3> QED
        BY <3>2
    <2> QED
      BY <1>6, <2>2, <2>3
  <1>8. ASSUME \/ \E t \in renewing : TermStep(t)
               \/ \E t \in declaring : BrokerDeclare(t)
               \/ \E t \in open : ConnLost(t)
               \/ Expire \/ BrokerDrop
               \/ UNCHANGED vars
        PROVE  \A j \in Instances : Scheduling(j)'
    <2>1. UNCHANGED <<pc, reg, scheds, cron, rebuild>>
      BY <1>8 DEF TermStep, Release, RenewFails, WatchEnds, BrokerDeclare, ConnLost, Expire,
                  BrokerDrop, vars, loopVars, fieldVars
    <2>2. \A j \in Instances : ~StartScheduler(j)
      BY <1>2, <2>1 DEF StartScheduler
    <2> QED
      BY <1>6, <2>1, <2>2
  <1>9. \A j \in Instances : Scheduling(j)'
    BY <1>3, <1>4, <1>5, <1>7, <1>8, AddKeeps, RemoveKeeps DEF Next, LoopStep
  <1> QED
    BY <1>0, <1>1, <1>9 DEF SchedInv

LEMMA SchedInit == Init => SchedInv
  BY TypeInit DEF Init, SchedInv, CtxSet, Scheduling

(* For any number of instances, tasks, elections, Adds and Removes in any  *)
(* order, with specs that parse and specs that do not: unless a Remove has *)
(* taken the scheduler of its term away and not yet put the next one in its*)
(* place, a leader that has started its scheduler triggers every task with *)
(* a valid spec registered on it.                                          *)
THEOREM LeaderSchedulesAll == Spec => []LeaderSchedules
  <1>1. SchedInv => LeaderSchedules
    <2> SUFFICES ASSUME SchedInv, NEW i \in Instances,
                        pc[i] = "leading", CtxLive(term[i]), term[i] \notin DOMAIN rebuild[i],
                        NEW t \in reg[i], t.valid
                 PROVE  Publishes(i, t.name)
      BY DEF LeaderSchedules
    <2>1. Scheduled(i, t.name)
      BY DEF SchedInv, Scheduling
    <2> QED
      BY <2>1 DEF Scheduled, Publishes
  <1> QED
    BY <1>1, SchedInit, SchedNext, PTL DEF Spec

-----------------------------------------------------------------------------
(* The lease.  By the kinds of steps it has:                               *)

Leaders == {t \in Terms : CtxLive(t)}

Granted ==
    /\ lock = 0 /\ lock' = Len(owner) + 1 /\ Len(owner') = Len(owner) + 1
    /\ Leaders' \in {Leaders, Leaders \cup {Len(owner) + 1}}
    /\ UNCHANGED late

Retired == Leaders' \subseteq Leaders /\ UNCHANGED <<owner, lock, late>>

Freed == lock \notin Leaders /\ lock' = 0 /\ UNCHANGED <<owner, Leaders, late>>

RanOut ==
    /\ lock # 0 /\ lock' = 0 /\ late' = late \cup {lock}
    /\ UNCHANGED <<owner, Leaders>>

LeaseStep == Granted \/ Retired \/ Freed \/ RanOut

(* A step that acquires nothing, frees nothing and revives no context ends *)
(* terms at most.                                                          *)
LEMMA RetireStep ==
    ASSUME LockType, UNCHANGED <<owner, lock, late>>,
           cancelled \subseteq cancelled',
           \A i \in Instances : ctxDone[i] => ctxDone'[i]
    PROVE  LeaseStep
  <1>1. Terms' = Terms
    BY DEF Terms
  <1>2. Leaders' \subseteq Leaders
    BY <1>1, TermsRange DEF Leaders, CtxLive
  <1> QED
    BY <1>2 DEF LeaseStep, Retired

LEMMA LeaseAcquire ==
    ASSUME LockInv, NEW i \in Instances, NEW known \in BOOLEAN, Acquire(i, known)
    PROVE  LeaseStep
  <1> DEFINE t == Len(owner) + 1
  <1>0. LockType
    BY DEF LockInv
  <1>1. /\ lock = 0 /\ lock' = t /\ owner' = Append(owner, i)
        /\ UNCHANGED <<ctxDone, late>>
        /\ cancelled' = cancelled \/ cancelled' = cancelled \cup {t}
    BY DEF Acquire
  <1>2. /\ Len(owner') = t /\ Terms' = Terms \cup {t} /\ t \notin Terms
        /\ \A u \in Terms : owner'[u] = owner[u]
    <2>1. owner \in Seq(Instances)
      BY <1>0 DEF LockType
    <2>2. Len(owner') = t /\ DOMAIN owner' = 1..t
      BY <1>1, <2>1
    <2>3. \A u \in Terms : owner'[u] = owner[u]
      BY <1>1, <2>1 DEF Terms
    <2> QED
      BY <1>0, <2>2, <2>3, TermsRange DEF Terms
  <1>3. \A u \in Terms : CtxLive(u)' <=> CtxLive(u)
    BY <1>1, <1>2 DEF CtxLive
  <1>4. Leaders' \in {Leaders, Leaders \cup {t}}
    BY <1>2, <1>3 DEF Leaders
  <1> QED
    BY <1>1, <1>2, <1>4 DEF LeaseStep, Granted

(* A term's goroutine releases its own lock when its context is done.      *)
LEMMA LeaseTerm ==
    ASSUME LockInv, provider = "redis", NEW t \in renewing, TermStep(t)
    PROVE  LeaseStep
  <1>0. LockType
    BY DEF LockInv
  <1>1. CASE Release(t) /\ lock = t
    <2>1. UNCHANGED <<owner, cancelled, ctxDone, late>> /\ ~CtxLive(t)
      BY <1>1 DEF Release, loopVars
    <2>2. UNCHANGED Leaders
      BY <2>1 DEF Leaders, CtxLive, Terms
    <2>3. lock' = 0 \/ lock' = lock
      BY <1>1 DEF Release, AfterRelease
    <2>4. CASE lock' = 0
      BY <1>1, <2>1, <2>2, <2>4 DEF LeaseStep, Freed, Leaders
    <2>5. CASE lock' = lock
      BY <1>0, <2>1, <2>5, RetireStep
    <2> QED
      BY <2>3, <2>4, <2>5
  <1>2. CASE RenewFails(t) \/ (Release(t) /\ lock # t)
    <2>1. UNCHANGED <<owner, lock, late, ctxDone>> /\ cancelled \subseteq cancelled'
      BY <1>2 DEF RenewFails, Release, AfterRelease, StepDown, loopVars
    <2> QED
      BY <1>0, <2>1, RetireStep
  <1> QED
    BY <1>1, <1>2 DEF TermStep, WatchEnds

LEMMA LeaseExpire ==
    ASSUME LockInv, Expire
    PROVE  LeaseStep
  <1>1. /\ UNCHANGED <<owner, cancelled, ctxDone>>
        /\ lock # 0 /\ lock' = 0
        /\ late' = IF Held(lock) THEN late \cup {lock} ELSE late
    BY DEF Expire, loopVars
  <1>2. UNCHANGED Leaders
    BY <1>1 DEF Leaders, CtxLive, Terms
  <1>3. lock \in Leaders => Held(lock)
    BY DEF LockInv, LeaderRenews, Leaders
  <1> QED
    BY <1>1, <1>2, <1>3 DEF LeaseStep, Freed, RanOut

(* Its contexts die with a process, and a new process has none of them.    *)
LEMMA LeaseCrash ==
    ASSUME LockInv, NEW i \in Instances, Crash(i)
    PROVE  LeaseStep
  <1>0. LockType
    BY DEF LockInv
  <1>1. /\ UNCHANGED <<lock, owner, late>>
        /\ cancelled' = cancelled \cup {t \in Terms : owner[t] = i}
        /\ ctxDone' = [ctxDone EXCEPT ![i] = FALSE]
    BY DEF Crash
  <1>2. Terms' = Terms
    BY <1>1 DEF Terms
  <1>3. ASSUME NEW t \in Terms, CtxLive(t)' PROVE CtxLive(t)
    <2>1. owner[t] # i /\ owner[t] \in Instances /\ t \notin cancelled
      BY <1>0, <1>1, <1>3, TermsRange DEF CtxLive
    <2>2. ctxDone'[owner[t]] = ctxDone[owner[t]]
      BY <1>0, <1>1, <2>1 DEF LockType
    <2> QED
      BY <1>1, <1>3, <2>1, <2>2 DEF CtxLive
  <1> QED
    BY <1>1, <1>2, <1>3 DEF LeaseStep, Retired, Leaders

(* Everything else leaves the key, the leases and the terms granted alone. *)
LEMMA LeaseQuiet ==
    ASSUME LockInv, provider = "redis",
           \/ \E i \in Instances, t \in Task : Add(i, t)
           \/ \E i \in Instances, n \in Names : Remove(i, n)
           \/ \E i \in Instances : \/ Rebuild(i) \/ Start(i) \/ Stop(i) \/ CancelCtx(i)
                                   \/ LoopTop(i) \/ Refused(i) \/ Declare(i) \/ DialFails(i)
                                   \/ SetCancel(i) \/ SetCtx(i) \/ StartScheduler(i)
                                   \/ StopScheduler(i) \/ Cleanup(i) \/ Wait(i)
           \/ \E t \in declaring : BrokerDeclare(t)
           \/ \E t \in open : ConnLost(t)
           \/ BrokerDrop
           \/ UNCHANGED vars
    PROVE  LeaseStep
  <1>0. LockType
    BY DEF LockInv
  <1>1. CASE \E i \in Instances : Stop(i)
    <2>1. UNCHANGED <<owner, lock, late, ctxDone>> /\ cancelled \subseteq cancelled'
      BY <1>1 DEF Stop
    <2> QED
      BY <1>0, <2>1, RetireStep
  <1>2. CASE \E i \in Instances : CancelCtx(i)
    <2>1. PICK i \in Instances : CancelCtx(i)
      BY <1>2
    <2>2. UNCHANGED <<owner, lock, late, cancelled>> /\ ctxDone' = [ctxDone EXCEPT ![i] = TRUE]
      BY <2>1 DEF CancelCtx, lockVars
    <2>3. \A j \in Instances : ctxDone[j] => ctxDone'[j]
      BY <1>0, <2>2 DEF LockType
    <2> QED
      BY <1>0, <2>2, <2>3, RetireStep
  <1>3. CASE /\ ~\E i \in Instances : Stop(i)
             /\ ~\E i \in Instances : CancelCtx(i)
    <2>1. UNCHANGED <<owner, lock, late, cancelled, ctxDone>>
      BY <1>0, <1>3
         DEF LockType, Add, Remove, Rebuild, Start, LoopTop, Refused, Declare, DialFails,
             SetCancel, SetCtx, StartScheduler, StopScheduler, Cleanup, Wait, BrokerDeclare,
             ConnLost, BrokerDrop, vars, lockVars, brokerVars, loopVars, fieldVars
    <2> QED
      BY <1>0, <2>1, RetireStep
  <1> QED
    BY <1>1, <1>2, <1>3

LEMMA LeaseSteps ==
    ASSUME LockInv, provider = "redis", [Next]_vars
    PROVE  LeaseStep
  <1>1. ASSUME NEW i \in Instances, LoopStep(i) PROVE LeaseStep
    BY <1>1, LeaseAcquire, LeaseQuiet DEF LoopStep
  <1> QED
    BY <1>1, LeaseQuiet, LeaseCrash, LeaseTerm, LeaseExpire DEF Next

LEMMA SameProvider == [Next]_vars => provider' = provider
  BY DEF Next, LoopStep, TermStep, Add, Remove, Rebuild, Start, Stop, CancelCtx, Crash,
         LoopTop, Acquire, Refused, Declare, DialFails, SetCancel, SetCtx, StartScheduler,
         StopScheduler, Cleanup, Wait, Release, RenewFails, WatchEnds, BrokerDeclare,
         ConnLost, Expire, BrokerDrop, vars, lockVars, brokerVars

(* Over Redis each step grants a term over the free key, ends terms for    *)
(* good, frees the key of an ended one, or lets a lease run out, whichever *)
(* of the instances fail, crash, stop or are cancelled, and where.         *)
THEOREM LeaseImplemented == Spec => ImplementsLease
  <1>1. Init => Election!Init
    <2> SUFFICES ASSUME Init PROVE Election!Init
      OBVIOUS
    <2>1. lock = 0 /\ Len(owner) = 0 /\ late = {} /\ Terms = {}
      BY DEF Init, Terms
    <2> QED
      BY <2>1 DEF Election!Init, OverRedis
  <1>2. LockInv /\ [Next]_vars => [Election!Next]_(Election!vars)
    <2> SUFFICES ASSUME LockInv, [Next]_vars PROVE [Election!Next]_(Election!vars)
      OBVIOUS
    <2>1. provider' = provider
      BY SameProvider
    <2>2. CASE provider # "redis"
      BY <2>1, <2>2 DEF Election!vars, OverRedis
    <2>3. CASE provider = "redis"
      <3>1. LeaseStep
        BY <2>3, LeaseSteps
      <3>2. CASE Granted
        BY <2>1, <2>3, <3>2 DEF Granted, Leaders, Election!Next, Election!Grant, OverRedis
      <3>3. CASE Retired
        BY <2>1, <2>3, <3>3 DEF Retired, Leaders, Election!Next, Election!Retire, OverRedis
      <3>4. CASE Freed
        BY <2>1, <2>3, <3>4 DEF Freed, Leaders, Election!Next, Election!Free, OverRedis
      <3>5. CASE RanOut
        BY <2>1, <2>3, <3>5 DEF RanOut, Leaders, Election!Next, Election!RunOut, OverRedis
      <3> QED
        BY <3>1, <3>2, <3>3, <3>4, <3>5 DEF LeaseStep
    <2> QED
      BY <2>2, <2>3
  <1> QED
    BY <1>1, <1>2, LockInit, LockNext, PTL DEF Spec, ImplementsLease, Election!Spec

(* What the lease is good for, whoever implements it: a leader still in    *)
(* time holds the lock, and only the latest term does.                     *)
InTime(granted, holder, leading, ousted) ==
    /\ granted \in Nat /\ holder \in {0, granted} /\ 0 \notin leading
    /\ \A t \in leading : t = holder \/ t \in ousted

ElectionInv == InTime(OverRedis(Len(owner), 0), OverRedis(lock, 0),
                      OverRedis({t \in Terms : CtxLive(t)}, {}), OverRedis(late, {}))

(* Over Redis the leader of the latest term is the only one whose lease    *)
(* did not run out under it: a leader that a newer term has replaced was   *)
(* late, and none that ended leads again.                                  *)
THEOREM LatestTermLeads == Spec => []Election!LatestLeads
  <1>1. Election!Init => ElectionInv
    BY DEF Election!Init, ElectionInv, InTime
  <1>2. ElectionInv /\ [Election!Next]_(Election!vars) => ElectionInv'
    <2> SUFFICES ASSUME ElectionInv, [Election!Next]_(Election!vars) PROVE ElectionInv'
      OBVIOUS
    <2>1. CASE Election!Grant
      BY <2>1 DEF Election!Grant, ElectionInv, InTime
    <2>2. CASE Election!Retire
      BY <2>2 DEF Election!Retire, ElectionInv, InTime
    <2>3. CASE Election!Free
      BY <2>3 DEF Election!Free, ElectionInv, InTime
    <2>4. CASE Election!RunOut
      BY <2>4 DEF Election!RunOut, ElectionInv, InTime
    <2>5. CASE UNCHANGED Election!vars
      BY <2>5 DEF Election!vars, ElectionInv, InTime
    <2> QED
      BY <2>1, <2>2, <2>3, <2>4, <2>5 DEF Election!Next
  <1>3. ElectionInv => Election!LatestLeads
    BY DEF ElectionInv, InTime, Election!LatestLeads
  <1> QED
    BY <1>1, <1>2, <1>3, LeaseImplemented, PTL DEF ImplementsLease, Election!Spec
=============================================================================
