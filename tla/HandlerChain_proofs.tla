------------------------ MODULE HandlerChain_proofs ------------------------
(* Theorems about HandlerChain, for every value of its constants.          *)
EXTENDS HandlerChain, FiniteSetTheorems, TLAPS

(* The inductive invariant.                                                *)
ChainInv == TypeOK /\ ResultBacked /\ KeyBudget

Results == {"none", "rejected", "skipped", "ok", "error", "retried"}

StageSeqs == {<<>>, <<"execute">>, <<"idempotency", "execute">>,
              <<"filter", "idempotency", "execute">>}

(* How the chain is taken apart.                                           *)
LEMMA ChainShapes ==
    /\ StageSeqs \subseteq Seq({"filter", "idempotency", "execute"})
    /\ <<"execute">> # <<>> /\ Head(<<"execute">>) = "execute"
    /\ <<"idempotency", "execute">> # <<>>
    /\ Head(<<"idempotency", "execute">>) = "idempotency"
    /\ Tail(<<"idempotency", "execute">>) = <<"execute">>
    /\ <<"filter", "idempotency", "execute">> # <<>>
    /\ Head(<<"filter", "idempotency", "execute">>) = "filter"
    /\ Tail(<<"filter", "idempotency", "execute">>) = <<"idempotency", "execute">>
    /\ <<"execute">> # <<"idempotency", "execute">>
  BY DEF StageSeqs

LEMMA KeyTypes == \A m \in Msgs : KeyRaw(m) \in RawKeys
  BY ConstantsAssumption DEF KeyRaw, RawKeys

LEMMA ChainInit == Init => ChainInv
  <1> SUFFICES ASSUME Init PROVE ChainInv
    OBVIOUS
  <1>1. TypeOK
    BY DEF Init, TypeOK, Registered, Entry, RawKeys
  <1>2. ResultBacked
    BY DEF Init, ResultBacked
  <1>3. \A k \in Keys : Pending(k) = {} /\ runs[k] = 0 /\ expiries[k] = 0
    BY DEF Init, Pending, RawKeys
  <1>4. KeyBudget
    BY <1>3, FS_EmptySet DEF KeyBudget
  <1> QED
    BY <1>1, <1>2, <1>4 DEF ChainInv

-----------------------------------------------------------------------------
(* Two frames: what keeps each part of the invariant.                    *)

LEMMA PendingFinite ==
    ASSUME NEW k
    PROVE  IsFiniteSet(Pending(k)) /\ Cardinality(Pending(k)) \in Nat
  <1>1. Pending(k) \in SUBSET Workers /\ IsFiniteSet(Workers)
    BY ConstantsAssumption DEF Pending
  <1>2. IsFiniteSet(Pending(k))
    BY <1>1, FS_Subset
  <1> QED
    BY <1>2, FS_CardinalityType

(* No new call is pending, none is made, no key goes.                      *)
LEMMA BudgetKept ==
    ASSUME TypeOK, KeyBudget, runs' = runs, expiries' = expiries, keys \subseteq keys',
           \A k \in Keys : Pending(k)' \subseteq Pending(k)
    PROVE  KeyBudget'
  <1> SUFFICES ASSUME NEW k \in Keys
               PROVE  runs[k] + Cardinality(Pending(k)')
                        <= expiries[k] + (IF k \in keys' THEN 1 ELSE 0)
    BY DEF KeyBudget
  <1>1. Cardinality(Pending(k)') <= Cardinality(Pending(k))
    BY PendingFinite, FS_Subset
  <1>2. Cardinality(Pending(k)') \in Nat
    <2>1. IsFiniteSet(Pending(k)')
      BY PendingFinite, FS_Subset
    <2> QED
      BY <2>1, FS_CardinalityType
  <1>3. runs[k] \in Nat /\ expiries[k] \in Nat
    BY DEF TypeOK, RawKeys
  <1>4. runs[k] + Cardinality(Pending(k)) <= expiries[k] + (IF k \in keys THEN 1 ELSE 0)
    BY DEF KeyBudget
  <1> QED
    BY <1>1, <1>2, <1>3, <1>4, PendingFinite

StageOK(w, e) ==
    \/ stages[w] = <<>> /\ Backed(w, e)
    \/ stages[w] = <<"execute">>
    \/ stages[w] = <<"idempotency", "execute">>
    \/ stages[w] = <<"filter", "idempotency", "execute">> /\ IsEvent(e.msg)

LEMMA BackedIsStageOK == ResultBacked <=> \A w \in Workers : \A e \in held[w] : StageOK(w, e)
  BY DEF ResultBacked, StageOK

(* One worker moves.                                                       *)
LEMMA BackedKept ==
    ASSUME ResultBacked, NEW w \in Workers,
           \A g \in Groups : handled[g] \subseteq handled'[g] /\ skipped[g] \subseteq skipped'[g],
           \A v \in Workers \ {w} : /\ held'[v] = held[v]
                                    /\ stages'[v] = stages[v]
                                    /\ result'[v] = result[v],
           \A e \in held'[w] : StageOK(w, e)'
    PROVE  ResultBacked'
  <1> SUFFICES ASSUME NEW v \in Workers, v # w, NEW e \in held'[v]
               PROVE  StageOK(v, e)'
    BY DEF ResultBacked, StageOK
  <1>1. StageOK(v, e)
    BY DEF ResultBacked, StageOK
  <1>2. GroupOf[v] \in Groups
    BY ConstantsAssumption
  <1>3. Backed(v, e) => Backed(v, e)'
    BY <1>2 DEF Backed, Rejected, IsEvent, KeyRaw, IsJob, IsCron
  <1> QED
    BY <1>1, <1>3 DEF StageOK, IsEvent

-----------------------------------------------------------------------------
(* The actions that call no stage.                                         *)

LEMMA PublishStep ==
    ASSUME ChainInv, NEW m \in Msgs, Publish(m)
    PROVE  ChainInv'
  <1>0. TypeOK /\ ResultBacked /\ KeyBudget
    BY DEF ChainInv
  <1>1. /\ UNCHANGED <<reg, held, stages, result, keys, handled, exhausted, skipped, runs,
                       expiries, claimants, faults, crashes>>
        /\ published' = published \cup {m}
        /\ queue' = [g \in Groups |->
              queue[g] \cup (IF m \in Gets[g] THEN {[msg |-> m, attempt |-> 0]} ELSE {})]
    BY DEF Publish, workerVars
  <1>2. TypeOK'
    <2>1. [msg |-> m, attempt |-> 0] \in Entry
      BY ConstantsAssumption DEF Entry
    <2> QED
      BY <1>0, <1>1, <2>1 DEF TypeOK
  <1>3. ResultBacked'
    BY <1>0, <1>1 DEF ResultBacked, Backed, Rejected, IsEvent, KeyRaw, IsJob, IsCron
  <1>5. KeyBudget'
    <2>1. \A k \in Keys : Pending(k)' = Pending(k)
      BY <1>1 DEF Pending, KeyRaw, IsJob, IsCron
    <2> QED
      BY <1>0, <1>1, <2>1, BudgetKept
  <1> QED
    BY <1>2, <1>3, <1>5 DEF ChainInv

LEMMA RegisterStep ==
    ASSUME ChainInv, NEW w \in Workers,
           \/ \E n \in Names \cup Tasks : Register(w, n)
           \/ \E n \in Tasks : Unregister(w, n)
    PROVE  ChainInv'
  <1>0. TypeOK /\ ResultBacked /\ KeyBudget
    BY DEF ChainInv
  <1>1. /\ UNCHANGED <<queue, held, stages, result, keys, published, handled, exhausted,
                       skipped, runs, expiries, claimants, faults, crashes>>
        /\ \/ \E n \in Names \cup Tasks : reg' = [reg EXCEPT ![w] = @ \cup {n}]
           \/ \E n \in Tasks : reg' = [reg EXCEPT ![w] = @ \ {n}]
    BY DEF Register, Unregister, workerVars, historyVars
  <1>2. TypeOK'
    <2>1. reg \in [Workers -> SUBSET (Names \cup Tasks)]
      BY <1>0 DEF TypeOK
    <2>2. ASSUME NEW n \in Names \cup Tasks, reg' = [reg EXCEPT ![w] = @ \cup {n}]
          PROVE  reg' \in [Workers -> SUBSET (Names \cup Tasks)]
      BY <2>1, <2>2
    <2>3. ASSUME NEW n \in Tasks, reg' = [reg EXCEPT ![w] = @ \ {n}]
          PROVE  reg' \in [Workers -> SUBSET (Names \cup Tasks)]
      BY <2>1, <2>3
    <2>4. reg' \in [Workers -> SUBSET (Names \cup Tasks)]
      BY <1>1, <2>2, <2>3
    <2> QED
      BY <1>0, <1>1, <2>4 DEF TypeOK
  <1>3. ResultBacked'
    BY <1>0, <1>1 DEF ResultBacked, Backed, Rejected, IsEvent, KeyRaw, IsJob, IsCron
  <1>5. KeyBudget'
    <2>1. \A k \in Keys : Pending(k)' = Pending(k)
      BY <1>1 DEF Pending, KeyRaw, IsJob, IsCron
    <2> QED
      BY <1>0, <1>1, <2>1, BudgetKept
  <1> QED
    BY <1>2, <1>3, <1>5 DEF ChainInv

LEMMA CrashStep ==
    ASSUME ChainInv, NEW w \in Workers, Crash(w)
    PROVE  ChainInv'
  <1>0. TypeOK /\ ResultBacked /\ KeyBudget
    BY DEF ChainInv
  <1>1. /\ UNCHANGED <<queue, keys, published, handled, exhausted, skipped, runs, expiries,
                       claimants, faults>>
        /\ reg' = [reg EXCEPT ![w] = Registered]
        /\ held' = [held EXCEPT ![w] = {}]
        /\ stages' = [stages EXCEPT ![w] = <<>>]
        /\ result' = [result EXCEPT ![w] = "none"]
        /\ crashes' = crashes + 1
    BY DEF Crash, historyVars
  <1>2. TypeOK'
    BY <1>0, <1>1 DEF TypeOK, Registered
  <1>a. /\ held'[w] = {}
        /\ \A v \in Workers \ {w} :
              held'[v] = held[v] /\ stages'[v] = stages[v] /\ result'[v] = result[v]
    BY <1>0, <1>1 DEF TypeOK
  <1>3. ResultBacked'
    BY <1>0, <1>1, <1>a, BackedKept
  <1>5. KeyBudget'
    <2>1. \A k \in Keys : Pending(k)' \subseteq Pending(k)
      BY <1>a DEF Pending, KeyRaw, IsJob, IsCron
    <2> QED
      BY <1>0, <1>1, <2>1, BudgetKept
  <1> QED
    BY <1>2, <1>3, <1>5 DEF ChainInv

(* A window ends: one more call is allowed.                                *)
LEMMA ExpireStep ==
    ASSUME ChainInv, NEW x \in keys, Expire(x)
    PROVE  ChainInv'
  <1>0. TypeOK /\ ResultBacked /\ KeyBudget
    BY DEF ChainInv
  <1>1. /\ UNCHANGED <<queue, reg, held, stages, result, published, handled, exhausted,
                       skipped, runs, claimants, faults, crashes>>
        /\ keys' = keys \ {x}
        /\ expiries' = [expiries EXCEPT ![x] = @ + 1]
    BY DEF Expire, workerVars
  <1>2. TypeOK'
    BY <1>0, <1>1 DEF TypeOK
  <1>3. ResultBacked'
    BY <1>0, <1>1 DEF ResultBacked, Backed, Rejected, IsEvent, KeyRaw, IsJob, IsCron
  <1>5. KeyBudget'
    <2> SUFFICES ASSUME NEW k \in Keys
                 PROVE  runs[k] + Cardinality(Pending(k)')
                          <= expiries'[k] + (IF k \in keys' THEN 1 ELSE 0)
      BY <1>1 DEF KeyBudget
    <2>1. Pending(k)' = Pending(k)
      BY <1>1 DEF Pending, KeyRaw, IsJob, IsCron
    <2>2. /\ runs[k] + Cardinality(Pending(k)) <= expiries[k] + (IF k \in keys THEN 1 ELSE 0)
          /\ runs[k] \in Nat /\ expiries[k] \in Nat /\ Cardinality(Pending(k)) \in Nat
      BY <1>0, PendingFinite DEF KeyBudget, TypeOK, RawKeys
    <2>3. /\ expiries'[k] = IF k = x THEN expiries[k] + 1 ELSE expiries[k]
          /\ k \in keys' <=> k \in keys /\ k # x
      BY <1>0, <1>1 DEF TypeOK, RawKeys
    <2>4. runs[k] + Cardinality(Pending(k)) <= expiries'[k] + (IF k \in keys' THEN 1 ELSE 0)
      BY <2>2, <2>3
    <2> QED
      BY <2>1, <2>4
  <1> QED
    BY <1>2, <1>3, <1>5 DEF ChainInv

LEMMA ReceiveStep ==
    ASSUME ChainInv, NEW w \in Workers, NEW e \in queue[GroupOf[w]], Receive(w, e)
    PROVE  ChainInv'
  <1>0. TypeOK /\ ResultBacked /\ KeyBudget /\ GroupOf[w] \in Groups
    BY ConstantsAssumption DEF ChainInv
  <1>1. /\ UNCHANGED <<queue, reg, keys, published, handled, exhausted, skipped, runs,
                       expiries, claimants, faults, crashes>>
        /\ held' = [held EXCEPT ![w] = {e}]
        /\ stages' = [stages EXCEPT ![w] = Stages(e.msg)]
        /\ result' = [result EXCEPT ![w] = "none"]
    BY DEF Receive, historyVars
  <1>b. /\ Stages(e.msg) \in StageSeqs
        /\ \/ Stages(e.msg) = <<"idempotency", "execute">>
           \/ Stages(e.msg) = <<"execute">> /\ IsCron(e.msg)
           \/ Stages(e.msg) = <<"filter", "idempotency", "execute">> /\ IsEvent(e.msg)
    <2>1. e.msg \in Msgs
      BY <1>0 DEF TypeOK, Entry
    <2>2. IsJob(e.msg) \/ IsCron(e.msg) \/ IsEvent(e.msg)
      BY <2>1, ConstantsAssumption DEF IsJob, IsCron, IsEvent
    <2>3. /\ IsJob(e.msg) => Stages(e.msg) = <<"idempotency", "execute">>
          /\ IsCron(e.msg) /\ ~IsJob(e.msg) => Stages(e.msg) = <<"execute">>
          /\ ~IsCron(e.msg) /\ ~IsJob(e.msg) =>
                Stages(e.msg) = <<"filter", "idempotency", "execute">>
      BY ConstantsAssumption DEF Stages, IsJob, IsCron
    <2>4. CASE IsJob(e.msg)
      BY <2>3, <2>4 DEF StageSeqs
    <2>5. CASE ~IsJob(e.msg) /\ IsCron(e.msg)
      BY <2>3, <2>5 DEF StageSeqs
    <2>6. CASE ~IsJob(e.msg) /\ ~IsCron(e.msg)
      BY <2>2, <2>3, <2>6 DEF StageSeqs
    <2> QED
      BY <2>4, <2>5, <2>6
  <1>a. /\ held'[w] = {e} /\ stages'[w] = Stages(e.msg)
        /\ \A v \in Workers \ {w} :
              held'[v] = held[v] /\ stages'[v] = stages[v] /\ result'[v] = result[v]
    BY <1>0, <1>1 DEF TypeOK
  <1>2. TypeOK'
    <2>1. e \in Entry
      BY <1>0 DEF TypeOK
    <2>2. /\ held' \in [Workers -> SUBSET Entry]
          /\ \A v \in Workers : \A c, d \in held'[v] : c = d
      BY <1>0, <1>1, <2>1 DEF TypeOK
    <2>3. stages' \in [Workers -> Seq({"filter", "idempotency", "execute"})]
      BY <1>0, <1>1, <1>b, ChainShapes DEF TypeOK
    <2> QED
      BY <1>0, <1>1, <2>2, <2>3 DEF TypeOK
  <1>3. ResultBacked'
    <2>1. \A d \in held'[w] : StageOK(w, d)'
      BY <1>a, <1>b DEF StageOK, IsEvent
    <2> QED
      BY <1>0, <1>1, <1>a, <2>1, BackedKept
  <1>5. KeyBudget'
    <2>1. Stages(e.msg) = <<"execute">> => KeyRaw(e.msg) \notin Keys
      <3>1. Stages(e.msg) = <<"execute">> => IsCron(e.msg)
        <4> HIDE DEF Stages
        <4> QED
          BY <1>b, ChainShapes
      <3> QED
        BY <3>1, ConstantsAssumption DEF KeyRaw
    <2>2. ASSUME NEW k \in Keys, NEW v \in Pending(k)'
          PROVE  v \in Pending(k)
      <3>1. /\ v \in Workers /\ stages'[v] = <<"execute">>
            /\ \E d \in held'[v] : KeyRaw(d.msg) = k
        BY <2>2 DEF Pending, KeyRaw, IsJob, IsCron
      <3>2. v # w
        <4> HIDE DEF Stages
        <4> QED
          BY <1>a, <2>1, <3>1
      <3> QED
        BY <1>a, <3>1, <3>2 DEF Pending
    <2> QED
      BY <1>0, <1>1, <2>2, BudgetKept
  <1> QED
    BY <1>2, <1>3, <1>5 DEF ChainInv

-----------------------------------------------------------------------------
(* The stages.  What they have in common: the entry and its chain.         *)

LEMMA AtStage ==
    ASSUME ChainInv, NEW w \in Workers, NEW e \in held[w]
    PROVE  /\ e \in Entry /\ e.msg \in Msgs /\ GroupOf[w] \in Groups
           /\ KeyRaw(e.msg) \in RawKeys
           /\ \A d \in held[w] : d = e
           /\ At(w, e, "filter") => /\ stages[w] = <<"filter", "idempotency", "execute">>
                                    /\ Tail(stages[w]) = <<"idempotency", "execute">>
                                    /\ IsEvent(e.msg)
           /\ At(w, e, "idempotency") => /\ stages[w] = <<"idempotency", "execute">>
                                         /\ Tail(stages[w]) = <<"execute">>
           /\ At(w, e, "execute") => stages[w] = <<"execute">>
  <1>1. e \in Entry /\ GroupOf[w] \in Groups /\ \A d \in held[w] : d = e
    BY ConstantsAssumption DEF ChainInv, TypeOK
  <1>2. e.msg \in Msgs
    BY <1>1 DEF Entry
  <1>3. \/ stages[w] = <<>> \/ stages[w] = <<"execute">>
        \/ stages[w] = <<"idempotency", "execute">>
        \/ stages[w] = <<"filter", "idempotency", "execute">> /\ IsEvent(e.msg)
    BY DEF ChainInv, ResultBacked
  <1> QED
    BY <1>1, <1>2, <1>3, ChainShapes, KeyTypes DEF At

(* What every stage leaves alone, and what the one worker may do.          *)
LEMMA StageKeeps ==
    ASSUME ChainInv, NEW w \in Workers, NEW s \in StageSeqs,
           NEW r \in Results,
           UNCHANGED <<queue, reg, held, published, exhausted, expiries, crashes>>,
           stages' = [stages EXCEPT ![w] = s],
           result' = [result EXCEPT ![w] = r],
           keys' \subseteq RawKeys,
           handled' \in [Groups -> SUBSET Msgs], skipped' \in [Groups -> SUBSET Msgs],
           runs' \in [RawKeys -> Nat], claimants' \in [RawKeys -> SUBSET Msgs],
           faults' \in Nat,
           \A g \in Groups : handled[g] \subseteq handled'[g] /\ skipped[g] \subseteq skipped'[g],
           \A e \in held[w] : StageOK(w, e)'
    PROVE  /\ TypeOK' /\ ResultBacked'
           /\ stages'[w] = s /\ \A v \in Workers \ {w} : stages'[v] = stages[v]
  <1>0. TypeOK /\ ResultBacked
    BY DEF ChainInv
  <1>1. /\ stages'[w] = s
        /\ \A v \in Workers \ {w} : stages'[v] = stages[v] /\ result'[v] = result[v]
    BY <1>0 DEF TypeOK
  <1>2. TypeOK'
    <2>1. stages' \in [Workers -> Seq({"filter", "idempotency", "execute"})]
      BY <1>0, ChainShapes DEF TypeOK
    <2> QED
      BY <1>0, <2>1 DEF TypeOK, Results
  <1>3. ResultBacked'
    BY <1>0, <1>1, BackedKept
  <1> QED
    BY <1>1, <1>2, <1>3

LEMMA FilterStep ==
    ASSUME ChainInv, NEW w \in Workers, NEW e \in held[w], Filter(w, e)
    PROVE  ChainInv'
  <1> DEFINE ok == e.msg \in Accepts[GroupOf[w]]
  <1>0. TypeOK /\ KeyBudget
    BY DEF ChainInv
  <1>1. /\ UNCHANGED <<queue, reg, held, keys, published, handled, exhausted, skipped, runs,
                       expiries, claimants, faults, crashes>>
        /\ At(w, e, "filter")
        /\ IF ok THEN CallNext(w) ELSE Return(w, "rejected")
    BY DEF Filter, historyVars
  <1>2. PICK s \in {<<>>, <<"idempotency", "execute">>},
              r \in Results :
           /\ stages' = [stages EXCEPT ![w] = s]
           /\ result' = [result EXCEPT ![w] = r]
           /\ s = <<>> => r = "rejected" /\ ~ok
    <2>1. CASE ok
      <3>1. stages' = [stages EXCEPT ![w] = <<"idempotency", "execute">>]
        BY <1>1, <2>1, AtStage DEF CallNext
      <3>2. result' = [result EXCEPT ![w] = result[w]]
        BY <1>0, <1>1, <2>1 DEF CallNext, TypeOK
      <3>3. result[w] \in Results
        BY <1>0 DEF TypeOK, Results
      <3> QED
        BY <3>1, <3>2, <3>3, ChainShapes
    <2>2. CASE ~ok
      BY <1>1, <2>2 DEF Return, Results
    <2> QED
      BY <2>1, <2>2
  <1>3. s \in StageSeqs /\ stages'[w] = s /\ result'[w] = r
    BY <1>0, <1>2 DEF StageSeqs, TypeOK
  <1>4. \A d \in held[w] : StageOK(w, d)'
    <2>1. s = <<>> => Backed(w, e)'
      BY <1>1, <1>2, <1>3, AtStage DEF Backed, Rejected, IsEvent
    <2> QED
      BY <1>2, <1>3, <2>1, AtStage DEF StageOK
  <1>5. /\ TypeOK' /\ ResultBacked'
        /\ \A v \in Workers \ {w} : stages'[v] = stages[v]
    <2>1. /\ keys' \subseteq RawKeys /\ faults' \in Nat
          /\ handled' \in [Groups -> SUBSET Msgs] /\ skipped' \in [Groups -> SUBSET Msgs]
          /\ runs' \in [RawKeys -> Nat] /\ claimants' \in [RawKeys -> SUBSET Msgs]
          /\ \A g \in Groups : handled[g] \subseteq handled'[g] /\ skipped[g] \subseteq skipped'[g]
      BY <1>0, <1>1 DEF TypeOK
    <2> HIDE DEF ok
    <2> QED
      BY <1>1, <1>2, <1>3, <1>4, <2>1, StageKeeps
  <1>6. KeyBudget'
    <2>1. stages'[w] # <<"execute">>
      BY <1>3, ChainShapes
    <2>2. \A k \in Keys : Pending(k)' \subseteq Pending(k)
      BY <1>1, <1>5, <2>1 DEF Pending, KeyRaw, IsJob, IsCron
    <2> QED
      BY <1>0, <1>1, <2>2, BudgetKept
  <1> QED
    BY <1>5, <1>6 DEF ChainInv


(* A stage that returns an error without calling the handler.              *)
LEMMA ErrorSteps ==
    ASSUME ChainInv, NEW w \in Workers, NEW e \in held[w],
           NotRegistered(w, e) \/ \E applied \in BOOLEAN : IdempotencyErr(w, e, applied)
    PROVE  ChainInv'
  <1> DEFINE k0 == KeyRaw(e.msg)
  <1>0. TypeOK /\ KeyBudget /\ e.msg \in Msgs /\ k0 \in RawKeys
    BY AtStage DEF ChainInv
  <1>1. /\ UNCHANGED <<queue, reg, held, published, handled, exhausted, skipped, runs,
                       expiries, crashes>>
        /\ Return(w, "error")
        /\ \/ UNCHANGED <<keys, claimants, faults>>
           \/ /\ faults' = faults + 1
              /\ \/ UNCHANGED <<keys, claimants>>
                 \/ /\ keys' = keys \cup {k0}
                    /\ claimants' = [claimants EXCEPT ![k0] = @ \cup {e.msg}]
    <2>1. CASE NotRegistered(w, e)
      BY <2>1 DEF NotRegistered, historyVars
    <2>2. ASSUME NEW applied \in BOOLEAN, IdempotencyErr(w, e, applied)
          PROVE  <1>1!:
      BY <2>2 DEF IdempotencyErr, Fault
    <2> QED
      BY <2>1, <2>2
  <1>2. stages' = [stages EXCEPT ![w] = <<>>] /\ result' = [result EXCEPT ![w] = "error"]
    BY <1>1 DEF Return
  <1>3. stages'[w] = <<>> /\ result'[w] = "error"
    BY <1>0, <1>2 DEF TypeOK
  <1>4. \A d \in held[w] : StageOK(w, d)'
    BY <1>3 DEF StageOK, Backed
  <1>5. /\ TypeOK' /\ ResultBacked'
        /\ \A v \in Workers \ {w} : stages'[v] = stages[v]
    <2>0. /\ keys \subseteq RawKeys /\ faults \in Nat /\ claimants \in [RawKeys -> SUBSET Msgs]
          /\ handled \in [Groups -> SUBSET Msgs] /\ skipped \in [Groups -> SUBSET Msgs]
          /\ runs \in [RawKeys -> Nat]
      BY <1>0 DEF TypeOK
    <2>1. /\ handled' \in [Groups -> SUBSET Msgs] /\ skipped' \in [Groups -> SUBSET Msgs]
          /\ runs' \in [RawKeys -> Nat]
          /\ \A g \in Groups : handled[g] \subseteq handled'[g] /\ skipped[g] \subseteq skipped'[g]
      BY <1>1, <2>0
    <2>3. keys' \subseteq RawKeys /\ faults' \in Nat
      BY <1>0, <1>1, <2>0
    <2>4. claimants' \in [RawKeys -> SUBSET Msgs]
      <3> HIDE DEF k0
      <3>1. [claimants EXCEPT ![k0] = @ \cup {e.msg}] \in [RawKeys -> SUBSET Msgs]
        BY <1>0, <2>0
      <3> QED
        BY <1>1, <2>0, <3>1
    <2>2. <<>> \in StageSeqs
      BY DEF StageSeqs
    <2> QED
      BY <1>1, <1>2, <1>4, <2>1, <2>2, <2>3, <2>4, StageKeeps DEF Results
  <1>6. KeyBudget'
    <2>1. stages'[w] # <<"execute">>
      BY <1>3, ChainShapes
    <2>2. \A k \in Keys : Pending(k)' \subseteq Pending(k)
      BY <1>1, <1>5, <2>1 DEF Pending, KeyRaw, IsJob, IsCron
    <2>3. keys \subseteq keys'
      BY <1>1
    <2> QED
      BY <1>0, <1>1, <2>2, <2>3, BudgetKept
  <1> QED
    BY <1>5, <1>6 DEF ChainInv

(* The handler is called: a pending call becomes one that was made.        *)
LEMMA ExecuteStep ==
    ASSUME ChainInv, NEW w \in Workers, NEW e \in held[w], Execute(w, e)
    PROVE  ChainInv'
  <1> DEFINE k0 == KeyRaw(e.msg)
  <1>0. /\ TypeOK /\ KeyBudget /\ e.msg \in Msgs /\ GroupOf[w] \in Groups /\ k0 \in RawKeys
        /\ \A d \in held[w] : d = e
    BY AtStage DEF ChainInv
  <1>1. /\ UNCHANGED <<queue, reg, held, keys, published, exhausted, skipped, expiries,
                       claimants, faults, crashes>>
        /\ stages[w] = <<"execute">>
        /\ runs' = [runs EXCEPT ![k0] = @ + 1]
    BY AtStage DEF Execute, Called
  <1>2. PICK r \in {"ok", "error"} :
           /\ stages' = [stages EXCEPT ![w] = <<>>]
           /\ result' = [result EXCEPT ![w] = r]
           /\ IF r = "ok" THEN handled' = [handled EXCEPT ![GroupOf[w]] = @ \cup {e.msg}]
                          ELSE handled' = handled
    BY DEF Execute, Return
  <1>3. /\ stages'[w] = <<>> /\ result'[w] = r
        /\ r = "ok" => e.msg \in handled'[GroupOf[w]]
        /\ handled' \in [Groups -> SUBSET Msgs]
        /\ \A g \in Groups : handled[g] \subseteq handled'[g]
    <2>1. handled \in [Groups -> SUBSET Msgs]
      BY <1>0 DEF TypeOK
    <2>2. stages'[w] = <<>> /\ result'[w] = r
      BY <1>0, <1>2 DEF TypeOK
    <2>3. CASE r = "ok"
      BY <1>0, <1>2, <2>1, <2>2, <2>3
    <2>4. CASE r # "ok"
      BY <1>2, <2>1, <2>2, <2>4
    <2> QED
      BY <2>3, <2>4
  <1>4. \A d \in held[w] : StageOK(w, d)'
    BY <1>0, <1>3 DEF StageOK, Backed
  <1>5. /\ TypeOK' /\ ResultBacked'
        /\ \A v \in Workers \ {w} : stages'[v] = stages[v]
    <2>1. /\ keys' \subseteq RawKeys /\ faults' \in Nat
          /\ skipped' \in [Groups -> SUBSET Msgs]
          /\ runs' \in [RawKeys -> Nat] /\ claimants' \in [RawKeys -> SUBSET Msgs]
          /\ \A g \in Groups : skipped[g] \subseteq skipped'[g]
      BY <1>0, <1>1 DEF TypeOK
    <2>2. <<>> \in StageSeqs
      BY DEF StageSeqs
    <2> QED
      BY <1>1, <1>2, <1>3, <1>4, <2>1, <2>2, StageKeeps DEF Results
  <1>6. KeyBudget'
    <2> SUFFICES ASSUME NEW k \in Keys
                 PROVE  runs'[k] + Cardinality(Pending(k)')
                          <= expiries[k] + (IF k \in keys THEN 1 ELSE 0)
      BY <1>1 DEF KeyBudget
    <2>1. Pending(k)' = Pending(k) \ {w}
      <3>1. stages'[w] # <<"execute">>
        BY <1>3, ChainShapes
      <3> QED
        BY <1>1, <1>5, <3>1 DEF Pending, KeyRaw, IsJob, IsCron
    <2>2. w \in Pending(k) <=> k = k0
      BY <1>0, <1>1 DEF Pending
    <2>3. Cardinality(Pending(k)') = Cardinality(Pending(k)) - (IF k = k0 THEN 1 ELSE 0)
      <3>1. IsFiniteSet(Pending(k)) /\ Cardinality(Pending(k)) \in Nat
        BY PendingFinite
      <3>2. Cardinality(Pending(k) \ {w}) =
              IF w \in Pending(k) THEN Cardinality(Pending(k)) - 1 ELSE Cardinality(Pending(k))
        BY <3>1, FS_RemoveElement
      <3> HIDE DEF k0
      <3> QED
        BY <2>1, <2>2, <3>1, <3>2
    <2>4. runs'[k] = runs[k] + (IF k = k0 THEN 1 ELSE 0)
      BY <1>0, <1>1 DEF TypeOK, RawKeys
    <2>5. /\ runs[k] + Cardinality(Pending(k)) <= expiries[k] + (IF k \in keys THEN 1 ELSE 0)
          /\ runs[k] \in Nat /\ expiries[k] \in Nat /\ Cardinality(Pending(k)) \in Nat
      BY <1>0, PendingFinite DEF KeyBudget, TypeOK, RawKeys
    <2> QED
      BY <2>3, <2>4, <2>5
  <1> QED
    BY <1>5, <1>6 DEF ChainInv

(* The one that sets the key may call the handler, for nobody has since    *)
(* the key last expired; without a key nothing is counted.                 *)
LEMMA IdempotencyStep ==
    ASSUME ChainInv, NEW w \in Workers, NEW e \in held[w], Idempotency(w, e)
    PROVE  ChainInv'
  <1> DEFINE k0 == KeyRaw(e.msg)
             pass == Bypass(e.msg) \/ Won(k0)
             set == ~Bypass(e.msg) /\ Won(k0)
             s == IF pass THEN <<"execute">> ELSE <<>>
             r == IF pass THEN result[w] ELSE "skipped"
  <1>0. /\ TypeOK /\ KeyBudget /\ e.msg \in Msgs /\ GroupOf[w] \in Groups /\ k0 \in RawKeys
        /\ \A d \in held[w] : d = e
    BY AtStage DEF ChainInv
  <1>1. /\ UNCHANGED <<queue, reg, held, published, handled, exhausted, runs, expiries,
                       faults, crashes>>
        /\ stages[w] = <<"idempotency", "execute">> /\ Tail(stages[w]) = <<"execute">>
    BY AtStage DEF Idempotency
  <1>2. /\ stages' = [stages EXCEPT ![w] = s]
        /\ result' = [result EXCEPT ![w] = r]
    <2>1. CASE pass
      BY <1>0, <1>1, <2>1 DEF Idempotency, CallNext, TypeOK
    <2>2. CASE ~pass
      BY <2>2 DEF Idempotency, Return
    <2> QED
      BY <2>1, <2>2
  <1>3. /\ keys' = IF set THEN keys \cup {k0} ELSE keys
        /\ claimants' = IF set THEN [claimants EXCEPT ![k0] = @ \cup {e.msg}] ELSE claimants
        /\ skipped' = IF pass THEN skipped
                      ELSE [skipped EXCEPT ![GroupOf[w]] = @ \cup {e.msg}]
    BY DEF Idempotency
  <1>4. /\ stages'[w] = s /\ result'[w] = r
        /\ s \in StageSeqs /\ r \in Results
    BY <1>0, <1>2 DEF TypeOK, StageSeqs, Results
  <1>5. \A d \in held[w] : StageOK(w, d)'
    <2>1. CASE pass
      BY <1>4, <2>1 DEF StageOK
    <2>2. CASE ~pass
      <3>1. e.msg \in skipped'[GroupOf[w]] /\ KeyRaw(e.msg) # NoKey
        BY <1>0, <1>3, <2>2 DEF Bypass, TypeOK
      <3>2. stages'[w] = <<>> /\ result'[w] = "skipped"
        BY <1>4, <2>2
      <3> QED
        BY <1>0, <3>1, <3>2 DEF StageOK, Backed, KeyRaw, IsJob, IsCron
    <2> QED
      BY <2>1, <2>2
  <1>6. /\ TypeOK' /\ ResultBacked'
        /\ \A v \in Workers \ {w} : stages'[v] = stages[v]
    <2>1. /\ keys' \subseteq RawKeys /\ faults' \in Nat
          /\ handled' \in [Groups -> SUBSET Msgs] /\ skipped' \in [Groups -> SUBSET Msgs]
          /\ runs' \in [RawKeys -> Nat] /\ claimants' \in [RawKeys -> SUBSET Msgs]
          /\ \A g \in Groups : handled[g] \subseteq handled'[g] /\ skipped[g] \subseteq skipped'[g]
      BY <1>0, <1>1, <1>3 DEF TypeOK
    <2> HIDE DEF s, r, k0, pass, set
    <2> QED
      BY <1>1, <1>2, <1>4, <1>5, <2>1, StageKeeps
  <1>7. KeyBudget'
    <2> SUFFICES ASSUME NEW k \in Keys
                 PROVE  runs[k] + Cardinality(Pending(k)')
                          <= expiries[k] + (IF k \in keys' THEN 1 ELSE 0)
      BY <1>1 DEF KeyBudget
    <2>1. w \notin Pending(k) /\ \A v \in Workers \ {w} : v \in Pending(k)' <=> v \in Pending(k)
      BY <1>1, <1>6, ChainShapes DEF Pending, KeyRaw, IsJob, IsCron
    <2>2. w \in Pending(k)' => pass /\ k = k0
      BY <1>0, <1>1, <1>4, ChainShapes DEF Pending, KeyRaw, IsJob, IsCron
    <2>3. /\ runs[k] + Cardinality(Pending(k)) <= expiries[k] + (IF k \in keys THEN 1 ELSE 0)
          /\ runs[k] \in Nat /\ expiries[k] \in Nat /\ Cardinality(Pending(k)) \in Nat
      BY <1>0, PendingFinite DEF KeyBudget, TypeOK, RawKeys
    <2>4. Pending(k)' \subseteq Workers /\ Pending(k) \subseteq Workers
      BY DEF Pending
    <2>5. CASE w \in Pending(k)'
      <3>1. Pending(k)' = Pending(k) \cup {w}
        BY <2>1, <2>4, <2>5
      <3>2. Cardinality(Pending(k)') = Cardinality(Pending(k)) + 1
        BY <2>1, <3>1, PendingFinite, FS_AddElement
      <3>3. k \notin keys /\ k \in keys'
        BY <1>3, <2>2, <2>5, ConstantsAssumption DEF Bypass, Won
      <3> QED
        BY <2>3, <3>2, <3>3
    <2>6. CASE w \notin Pending(k)'
      <3>1. Pending(k)' = Pending(k)
        BY <2>1, <2>4, <2>6
      <3>2. k \in keys => k \in keys'
        BY <1>3
      <3> QED
        BY <2>3, <3>1, <3>2
    <2> QED
      BY <2>5, <2>6
  <1> QED
    BY <1>6, <1>7 DEF ChainInv


-----------------------------------------------------------------------------
(* After the chain a worker holds what it held, or nothing.                *)
LEMMA LetGoStep ==
    ASSUME ChainInv, NEW w \in Workers, LetGo(w),
           UNCHANGED <<reg, stages, keys, published, handled, skipped, runs, expiries,
                       claimants, crashes>>,
           queue' \in [Groups -> SUBSET Entry], exhausted' \in [Groups -> SUBSET Msgs],
           faults' \in Nat
    PROVE  ChainInv'
  <1>0. TypeOK /\ ResultBacked /\ KeyBudget
    BY DEF ChainInv
  <1>1. /\ held' = [held EXCEPT ![w] = {}]
        /\ result' = [result EXCEPT ![w] = "none"]
    BY DEF LetGo
  <1>2. /\ held'[w] = {}
        /\ \A v \in Workers \ {w} :
              held'[v] = held[v] /\ stages'[v] = stages[v] /\ result'[v] = result[v]
    BY <1>0, <1>1 DEF TypeOK
  <1>3. TypeOK'
    <2>1. /\ held' \in [Workers -> SUBSET Entry]
          /\ \A v \in Workers : \A c, d \in held'[v] : c = d
          /\ result' \in [Workers -> Results]
      BY <1>0, <1>1 DEF TypeOK, Results
    <2> QED
      BY <1>0, <2>1 DEF TypeOK, Results
  <1>4. ResultBacked'
    BY <1>0, <1>2, BackedKept
  <1>5. KeyBudget'
    <2>1. \A k \in Keys : Pending(k)' \subseteq Pending(k)
      BY <1>2 DEF Pending, KeyRaw, IsJob, IsCron
    <2> QED
      BY <1>0, <2>1, BudgetKept
  <1> QED
    BY <1>3, <1>4, <1>5 DEF ChainInv

(* The next attempt of an entry that has one.                              *)
LEMMA NextAttemptIs ==
    ASSUME NEW e \in Entry, ~LastAttempt(e)
    PROVE  /\ NextAttempt(e) \in Entry /\ NextAttempt(e).msg = e.msg
           /\ NextAttempt(e).attempt = e.attempt + 1 /\ e.attempt \in Nat
  BY ConstantsAssumption DEF Entry, NextAttempt, LastAttempt

LEMMA RetryStep ==
    ASSUME ChainInv, NEW w \in Workers, NEW e \in held[w], Retry(w, e)
    PROVE  ChainInv'
  <1>0. TypeOK /\ ResultBacked /\ KeyBudget /\ e \in Entry
    BY AtStage DEF ChainInv
  <1>1. /\ UNCHANGED <<reg, stages, keys, published, handled, exhausted, skipped, runs,
                       expiries, claimants, crashes>>
        /\ stages[w] = <<>> /\ ~LastAttempt(e)
    BY DEF Retry, historyVars
  <1>2. PICK stored, ok \in BOOLEAN :
           /\ queue' = [g \in Groups |->
                queue[g] \cup (IF stored /\ e.msg \in Gets[g] THEN {NextAttempt(e)} ELSE {})]
           /\ IF ok
              THEN result' = [result EXCEPT ![w] = "retried"] /\ UNCHANGED <<held, faults>>
              ELSE LetGo(w) /\ faults' = faults + 1
    BY DEF Retry, Unpublished, Fault
  <1>3. queue' \in [Groups -> SUBSET Entry]
    <2>1. NextAttempt(e) \in Entry /\ queue \in [Groups -> SUBSET Entry]
      BY <1>0, <1>1, NextAttemptIs DEF TypeOK
    <2> QED
      BY <1>2, <2>1
  <1>4. CASE ~ok
    <2>1. exhausted' \in [Groups -> SUBSET Msgs] /\ faults' \in Nat
      BY <1>0, <1>1, <1>2, <1>4 DEF TypeOK
    <2> QED
      BY <1>1, <1>2, <1>3, <1>4, <2>1, LetGoStep
  <1>5. CASE ok
    <2>1. result' = [result EXCEPT ![w] = "retried"] /\ UNCHANGED <<held, faults>>
      BY <1>2, <1>5
    <2>2. /\ result' \in [Workers -> Results] /\ result'[w] = "retried"
          /\ \A v \in Workers \ {w} : result'[v] = result[v]
      BY <1>0, <2>1 DEF TypeOK, Results
    <2>3. TypeOK'
      BY <1>0, <1>1, <1>3, <2>1, <2>2 DEF TypeOK, Results
    <2>4. \A d \in held'[w] : StageOK(w, d)'
      BY <1>1, <2>2 DEF StageOK, Backed
    <2>5. ResultBacked'
      BY <1>0, <1>1, <2>1, <2>2, <2>4, BackedKept
    <2>6. \A k \in Keys : Pending(k)' \subseteq Pending(k)
      BY <1>1, <2>1 DEF Pending, KeyRaw, IsJob, IsCron
    <2>7. KeyBudget'
      BY <1>0, <1>1, <2>6, BudgetKept
    <2> QED
      BY <2>3, <2>5, <2>7 DEF ChainInv
  <1> QED
    BY <1>4, <1>5

LEMMA AckStep ==
    ASSUME ChainInv, NEW w \in Workers, NEW e \in held[w], Ack(w, e)
    PROVE  ChainInv'
  <1>0. TypeOK /\ e.msg \in Msgs /\ GroupOf[w] \in Groups
    BY AtStage DEF ChainInv
  <1>1. /\ LetGo(w)
        /\ UNCHANGED <<reg, stages, keys, published, handled, skipped, runs, expiries,
                       claimants, crashes>>
    BY DEF Ack
  <1>2. queue' \in [Groups -> SUBSET Entry] /\ faults' \in Nat
    <2>1. queue \in [Groups -> SUBSET Entry] /\ faults \in Nat
      BY <1>0 DEF TypeOK
    <2>2. \/ queue' = [queue EXCEPT ![GroupOf[w]] = @ \ {e}] /\ faults' = faults
          \/ queue' = queue /\ faults' = faults + 1
      BY DEF Ack, Fault
    <2>3. [queue EXCEPT ![GroupOf[w]] = @ \ {e}] \in [Groups -> SUBSET Entry]
      BY <2>1
    <2> QED
      BY <2>1, <2>2, <2>3
  <1>3. exhausted' \in [Groups -> SUBSET Msgs]
    BY <1>0 DEF Ack, TypeOK
  <1> QED
    BY <1>1, <1>2, <1>3, LetGoStep

LEMMA ChainNext == ChainInv /\ [Next]_vars => ChainInv'
  <1> SUFFICES ASSUME ChainInv, [Next]_vars PROVE ChainInv'
    OBVIOUS
  <1>1. CASE UNCHANGED vars
    <2>1. UNCHANGED <<queue, reg, held, stages, result, keys, published, handled, exhausted,
                      skipped, runs, expiries, claimants, faults, crashes>>
      BY <1>1 DEF vars, workerVars, historyVars
    <2>2. TypeOK' /\ ResultBacked'
      BY <2>1 DEF ChainInv, TypeOK, ResultBacked, Backed, Rejected, IsEvent, KeyRaw, IsJob,
         IsCron
    <2>4. \A k \in Keys : Pending(k)' \subseteq Pending(k)
      BY <2>1 DEF Pending, KeyRaw, IsJob, IsCron
    <2>5. KeyBudget'
      BY <2>1, <2>4, BudgetKept DEF ChainInv
    <2> QED
      BY <2>2, <2>5 DEF ChainInv
  <1>2. CASE Next
    <2>1. ASSUME NEW w \in Workers, WorkerStep(w) PROVE ChainInv'
      BY <2>1, ReceiveStep, FilterStep, IdempotencyStep, ErrorSteps, ExecuteStep, RetryStep, AckStep
      DEF WorkerStep, ChainStep
    <2> QED
      BY <1>2, <2>1, PublishStep, RegisterStep, CrashStep, ExpireStep DEF Next
  <1> QED
    BY <1>1, <1>2

(* For any number of groups, workers, messages, retries, failures and      *)
(* crashes: the middleware of NewIdempotencyMiddleware lets a handler be   *)
(* called once per key and window.                                         *)
THEOREM RunsOncePerWindow == Spec => []OncePerWindow
  <1>1. ChainInv => OncePerWindow
    <2> SUFFICES ASSUME ChainInv, NEW k \in Keys PROVE runs[k] <= expiries[k] + 1
      BY DEF OncePerWindow
    <2>1. /\ runs[k] + Cardinality(Pending(k)) <= expiries[k] + (IF k \in keys THEN 1 ELSE 0)
          /\ runs[k] \in Nat /\ expiries[k] \in Nat /\ Cardinality(Pending(k)) \in Nat
      BY PendingFinite DEF ChainInv, KeyBudget, TypeOK, RawKeys
    <2> QED
      BY <2>1
  <1> QED
    BY <1>1, ChainInit, ChainNext, PTL DEF Spec

(* For all of them, types and counters stay as declared, a worker holds one*)
(* entry, and no attempt is counted beyond MaxRetries.                     *)
THEOREM TypeCorrect == Spec => []TypeOK
  <1>1. ChainInv => TypeOK
    BY DEF ChainInv
  <1> QED
    BY <1>1, ChainInit, ChainNext, PTL DEF Spec

-----------------------------------------------------------------------------
(* Who sets a key.  An entry is only where its message goes, and a worker  *)
(* reaches the middleware, the handler or a retry with nothing its filter  *)
(* rejects.                                                                *)
Addressed ==
    /\ \A g \in Groups : \A e \in queue[g] : e.msg \in Gets[g]
    /\ \A w \in Workers : \A e \in held[w] : e.msg \in Gets[GroupOf[w]]

PastFilter(w) ==
    \/ stages[w] = <<"idempotency", "execute">> \/ stages[w] = <<"execute">>
    \/ result[w] \in {"error", "retried"}

FilteredFirst ==
    \A w \in Workers : \A e \in held[w] : PastFilter(w) => ~Rejected(GroupOf[w], e.msg)

FilterInv == ChainInv /\ Addressed /\ FilteredFirst /\ RejectedTakesNoKey

LEMMA FilterInit == Init => FilterInv
  BY ChainInit DEF Init, FilterInv, Addressed, FilteredFirst, RejectedTakesNoKey, RawKeys

(* What holds of the entry when a worker has come to a stage.              *)
LEMMA StageShapes ==
    ASSUME FilterInv, NEW w \in Workers, NEW e \in held[w]
    PROVE  /\ At(w, e, "filter") => stages[w] = <<"filter", "idempotency", "execute">>
           /\ At(w, e, "idempotency") => stages[w] = <<"idempotency", "execute">>
           /\ At(w, e, "execute") => stages[w] = <<"execute">>
  BY ChainShapes DEF FilterInv, ChainInv, ResultBacked, At

(* A step after which every entry is where it was, or where its message    *)
(* goes, no worker has come past its filter with what it rejects, and      *)
(* no key is set but by an accepted message that reached its group.        *)
LEMMA FilterKept ==
    ASSUME FilterInv, ChainInv',
           \A g \in Groups : \A e \in queue'[g] : e \in queue[g] \/ e.msg \in Gets[g],
           \A w \in Workers : \A e \in held'[w] :
               e \in held[w] \/ e.msg \in Gets[GroupOf[w]],
           \A w \in Workers : \A e \in held'[w] :
               PastFilter(w)' =>
                   (e \in held[w] /\ PastFilter(w)) \/ ~Rejected(GroupOf[w], e.msg),
           \A k \in Keys : \A m \in claimants'[k] :
               \/ m \in claimants[k]
               \/ \E g \in Groups : m \in Gets[g] /\ ~Rejected(g, m)
    PROVE  FilterInv'
  <1>1. Addressed'
    BY DEF FilterInv, Addressed
  <1>2. FilteredFirst'
    <2> SUFFICES ASSUME NEW w \in Workers, NEW e \in held'[w], PastFilter(w)'
                 PROVE  ~Rejected(GroupOf[w], e.msg)
      BY DEF FilteredFirst, Rejected, IsEvent
    <2> QED
      BY DEF FilterInv, FilteredFirst
  <1>3. RejectedTakesNoKey'
    <2> SUFFICES ASSUME NEW k \in Keys, NEW m \in claimants'[k]
                 PROVE  \E g \in Groups : m \in Gets[g] /\ ~Rejected(g, m)
      BY DEF RejectedTakesNoKey, Rejected, IsEvent
    <2> QED
      BY DEF FilterInv, RejectedTakesNoKey
  <1> QED
    BY <1>1, <1>2, <1>3 DEF FilterInv

(* The steps outside of the chain.                                         *)
LEMMA FilterOutside ==
    ASSUME FilterInv, ChainInv',
           \/ \E m \in Msgs : Publish(m)
           \/ \E w \in Workers, n \in Names \cup Tasks : Register(w, n)
           \/ \E w \in Workers, n \in Tasks : Unregister(w, n)
           \/ \E w \in Workers : Crash(w)
           \/ \E k \in keys : Expire(k)
           \/ UNCHANGED vars
    PROVE  FilterInv'
  <1>0. TypeOK
    BY DEF FilterInv, ChainInv
  <1>1. CASE \E m \in Msgs : Publish(m)
    <2>1. PICK m \in Msgs : Publish(m)
      BY <1>1
    <2>2. UNCHANGED <<held, stages, result, claimants>>
      BY <2>1 DEF Publish, workerVars
    <2>3. \A g \in Groups : \A e \in queue'[g] : e \in queue[g] \/ e.msg \in Gets[g]
      BY <2>1 DEF Publish
    <2> QED
      BY <2>2, <2>3, FilterKept DEF PastFilter
  <1>2. CASE \E w \in Workers : Crash(w)
    <2>1. PICK w \in Workers : Crash(w)
      BY <1>2
    <2>2. /\ UNCHANGED <<queue, claimants>>
          /\ \A v \in Workers : \A e \in held'[v] :
                e \in held[v] /\ stages'[v] = stages[v] /\ result'[v] = result[v]
      BY <1>0, <2>1 DEF Crash, historyVars, TypeOK
    <2> QED
      BY <2>2, FilterKept DEF PastFilter
  <1>3. CASE \/ \E w \in Workers, n \in Names \cup Tasks : Register(w, n)
             \/ \E w \in Workers, n \in Tasks : Unregister(w, n)
             \/ \E k \in keys : Expire(k)
             \/ UNCHANGED vars
    <2>1. UNCHANGED <<queue, held, stages, result, claimants>>
      BY <1>3 DEF Register, Unregister, Expire, vars, workerVars, historyVars
    <2> QED
      BY <2>1, FilterKept DEF PastFilter
  <1> QED
    BY <1>1, <1>2, <1>3

(* The filter lets an event through, or the middleware has it already.     *)
LEMMA FilterChain ==
    ASSUME FilterInv, ChainInv', NEW w \in Workers, NEW e \in held[w],
           \/ Filter(w, e) \/ Idempotency(w, e) \/ Execute(w, e) \/ NotRegistered(w, e)
           \/ \E applied \in BOOLEAN : IdempotencyErr(w, e, applied)
    PROVE  FilterInv'
  <1>0. TypeOK /\ GroupOf[w] \in Groups /\ \A d \in held[w] : d = e
    BY ConstantsAssumption DEF FilterInv, ChainInv, TypeOK
  <1>1. UNCHANGED <<queue, held>>
    BY DEF Filter, Idempotency, Execute, NotRegistered, IdempotencyErr, historyVars
  <1>2. \A v \in Workers \ {w} : stages'[v] = stages[v] /\ result'[v] = result[v]
    BY <1>0 DEF Filter, Idempotency, Execute, NotRegistered, IdempotencyErr, CallNext, Return,
                TypeOK
  <1>3. PastFilter(w)' => ~Rejected(GroupOf[w], e.msg)
    <2>1. CASE Filter(w, e)
      <3>1. CASE e.msg \in Accepts[GroupOf[w]]
        BY <3>1 DEF Rejected
      <3>2. CASE e.msg \notin Accepts[GroupOf[w]]
        <4>1. stages'[w] = <<>> /\ result'[w] = "rejected"
          BY <1>0, <2>1, <3>2 DEF Filter, Return, TypeOK
        <4> QED
          BY <4>1, ChainShapes DEF PastFilter
      <3> QED
        BY <3>1, <3>2
    <2>2. CASE ~Filter(w, e)
      <3>1. stages[w] = <<"idempotency", "execute">> \/ stages[w] = <<"execute">>
        BY <2>2, StageShapes DEF Idempotency, Execute, NotRegistered, IdempotencyErr
      <3> QED
        BY <3>1 DEF FilterInv, FilteredFirst, PastFilter
    <2> QED
      BY <2>1, <2>2
  <1>4. ASSUME NEW k \in Keys, NEW m \in claimants'[k], m \notin claimants[k]
        PROVE  \E g \in Groups : m \in Gets[g] /\ ~Rejected(g, m)
    <2>1. m = e.msg /\ At(w, e, "idempotency")
      <3>1. CASE Filter(w, e) \/ Execute(w, e) \/ NotRegistered(w, e)
        BY <1>4, <3>1 DEF Filter, Execute, NotRegistered, historyVars
      <3>2. CASE Idempotency(w, e) \/ \E applied \in BOOLEAN : IdempotencyErr(w, e, applied)
        <4>1. \/ claimants' = claimants
              \/ claimants' = [claimants EXCEPT ![KeyRaw(e.msg)] = @ \cup {e.msg}]
          BY <3>2 DEF Idempotency, IdempotencyErr
        <4>2. claimants \in [RawKeys -> SUBSET Msgs] /\ k \in RawKeys
          BY <1>0 DEF TypeOK, RawKeys
        <4>3. m = e.msg
          BY <1>4, <4>1, <4>2
        <4> QED
          BY <3>2, <4>3 DEF Idempotency, IdempotencyErr
      <3> QED
        BY <3>1, <3>2
    <2>2. stages[w] = <<"idempotency", "execute">>
      BY <2>1, StageShapes
    <2> QED
      BY <1>0, <2>1, <2>2 DEF FilterInv, Addressed, FilteredFirst, PastFilter
  <1>5. \A v \in Workers \ {w} : PastFilter(v)' <=> PastFilter(v)
    BY <1>2 DEF PastFilter
  <1> QED
    BY <1>0, <1>1, <1>3, <1>4, <1>5, FilterKept

(* An entry is taken from the group's queue, and a retry goes back to the  *)
(* groups its message reaches.                                             *)
LEMMA FilterReceive ==
    ASSUME FilterInv, ChainInv', NEW w \in Workers, NEW e \in queue[GroupOf[w]], Receive(w, e)
    PROVE  FilterInv'
  <1>0. TypeOK /\ GroupOf[w] \in Groups
    BY ConstantsAssumption DEF FilterInv, ChainInv
  <1>1. /\ UNCHANGED <<queue, claimants>>
        /\ held'[w] = {e} /\ stages'[w] = Stages(e.msg) /\ result'[w] = "none"
        /\ \A v \in Workers \ {w} :
              held'[v] = held[v] /\ stages'[v] = stages[v] /\ result'[v] = result[v]
    BY <1>0 DEF Receive, historyVars, TypeOK
  <1>2. e.msg \in Gets[GroupOf[w]]
    BY <1>0 DEF FilterInv, Addressed
  <1>3. PastFilter(w)' => ~IsEvent(e.msg)
    <2>1. PastFilter(w)' => Stages(e.msg) # <<"filter", "idempotency", "execute">>
      <3> HIDE DEF Stages
      <3>1. <<"idempotency", "execute">> # <<"filter", "idempotency", "execute">>
            /\ <<"execute">> # <<"filter", "idempotency", "execute">>
        OBVIOUS
      <3> QED
        BY <1>1, <3>1 DEF PastFilter
    <2>2. IsEvent(e.msg) => Stages(e.msg) = <<"filter", "idempotency", "execute">>
      BY ConstantsAssumption DEF Stages, IsEvent, IsJob, IsCron
    <2> QED
      BY <2>1, <2>2
  <1>4. \A v \in Workers \ {w} : PastFilter(v)' <=> PastFilter(v)
    BY <1>1 DEF PastFilter
  <1> QED
    BY <1>1, <1>2, <1>3, <1>4, FilterKept DEF Rejected

LEMMA FilterRetry ==
    ASSUME FilterInv, ChainInv', NEW w \in Workers, NEW e \in held[w], Retry(w, e)
    PROVE  FilterInv'
  <1>0. TypeOK /\ e \in Entry
    BY AtStage DEF FilterInv, ChainInv
  <1>1. UNCHANGED <<stages, claimants>>
    BY DEF Retry, historyVars
  <1>2. \A v \in Workers : \A d \in held'[v] : d \in held[v]
    BY <1>0 DEF Retry, Unpublished, LetGo, TypeOK
  <1>4. \A v \in Workers : PastFilter(v)' => PastFilter(v)
    <2>1. result[w] = "error"
      BY DEF Retry
    <2>2. \A v \in Workers \ {w} : result'[v] = result[v]
      BY <1>0 DEF Retry, Unpublished, LetGo, TypeOK
    <2> QED
      BY <1>1, <2>1, <2>2 DEF PastFilter
  <1>3. \A g \in Groups : \A d \in queue'[g] : d \in queue[g] \/ d.msg \in Gets[g]
    <2>1. NextAttempt(e).msg = e.msg
      BY <1>0, NextAttemptIs DEF Retry
    <2> QED
      BY <2>1 DEF Retry
  <1> QED
    BY <1>1, <1>2, <1>3, <1>4, FilterKept

LEMMA FilterAck ==
    ASSUME FilterInv, ChainInv', NEW w \in Workers, NEW e \in held[w], Ack(w, e)
    PROVE  FilterInv'
  <1>0. TypeOK /\ GroupOf[w] \in Groups
    BY ConstantsAssumption DEF FilterInv, ChainInv
  <1>1. /\ UNCHANGED <<stages, claimants>>
        /\ \A v \in Workers : held'[v] \subseteq held[v]
        /\ \A v \in Workers \ {w} : result'[v] = result[v]
        /\ held'[w] = {}
    BY <1>0 DEF Ack, LetGo, TypeOK
  <1>2. \A v \in Workers \ {w} : PastFilter(v)' <=> PastFilter(v)
    BY <1>1 DEF PastFilter
  <1>3. \A g \in Groups : queue'[g] \subseteq queue[g]
    <2>1. queue \in [Groups -> SUBSET Entry]
      BY <1>0 DEF TypeOK
    <2>2. queue' = [queue EXCEPT ![GroupOf[w]] = @ \ {e}] \/ queue' = queue
      BY DEF Ack
    <2> QED
      BY <2>1, <2>2
  <1> QED
    BY <1>1, <1>2, <1>3, FilterKept

LEMMA FilterNext == FilterInv /\ [Next]_vars => FilterInv'
  <1> SUFFICES ASSUME FilterInv, [Next]_vars PROVE FilterInv'
    OBVIOUS
  <1>1. ChainInv'
    BY ChainNext DEF FilterInv
  <1>2. ASSUME NEW w \in Workers, WorkerStep(w) PROVE FilterInv'
    BY <1>1, <1>2, FilterReceive, FilterChain, FilterRetry, FilterAck DEF WorkerStep, ChainStep
  <1> QED
    BY <1>1, <1>2, FilterOutside DEF Next

(* For any groups, filters, retries and crashes: no message sets a key     *)
(* unless a group it reaches accepts it, so that an event nobody wanted    *)
(* never has another one skipped.                                          *)
THEOREM RejectedSetNoKey == Spec => []RejectedTakesNoKey
  <1>1. FilterInv => RejectedTakesNoKey
    BY DEF FilterInv
  <1> QED
    BY <1>1, FilterInit, FilterNext, PTL DEF Spec

-----------------------------------------------------------------------------
(* The contract of the MQ.  A group is through with a message, or has an   *)
(* attempt n of it, or a later one, in its queue.                          *)
Through(g, m) == m \in handled[g] \cup exhausted[g] \cup skipped[g]

HasAttempt(g, m, n) == \E f \in queue[g] : f.msg = m /\ n <= f.attempt

Safe(g, m, n) == Through(g, m) \/ HasAttempt(g, m, n)

(* What the group wants is safe, and so is what a worker holds: the entry  *)
(* itself, which another worker may have acknowledged meanwhile, and, once *)
(* the next attempt is published, that one.                                *)
OwedSafe == \A g \in Groups : \A m \in published \cap Wanted(g) : Safe(g, m, 0)

Reached(w, e) == IF result[w] = "retried" THEN e.attempt + 1 ELSE e.attempt

HeldSafe ==
    \A w \in Workers : \A e \in held[w] :
        ~Rejected(GroupOf[w], e.msg) => Safe(GroupOf[w], e.msg, Reached(w, e))

SkippedKeyed == \A g \in Groups : \A m \in skipped[g] : KeyRaw(m) # NoKey

ContractInv == FilterInv /\ OwedSafe /\ HeldSafe /\ SkippedKeyed

(* The steps of the contract in terms of the chain: attempts begin, or     *)
(* they end.                                                               *)
Enqueues ==
    /\ UNCHANGED <<handled, exhausted, skipped>>
    /\ published \subseteq published'
    /\ \A g \in Groups :
          /\ queue[g] \subseteq queue'[g]
          /\ \A e \in queue'[g] \ queue[g] :
                \/ e.attempt = 0
                \/ \E h \in Groups : e.msg \in Wanted(h) /\ Safe(h, e.msg, e.attempt - 1)
          /\ \A m \in (published' \ published) \cap Gets[g] : HasAttempt(g, m, 0)'

Completes ==
    /\ UNCHANGED published
    /\ \A g \in Groups :
          /\ \A m : Through(g, m) => Through(g, m)'
          /\ \A m : Through(g, m)' =>
                Through(g, m) \/ (m \in Wanted(g) /\ HasAttempt(g, m, 0))
          /\ queue'[g] \subseteq queue[g]
          /\ \A e \in queue[g] \ queue'[g] :
                e.msg \in Wanted(g) =>
                    Through(g, e.msg)' \/ HasAttempt(g, e.msg, e.attempt + 1)'

Still == UNCHANGED <<queue, published, handled, exhausted, skipped>>

(* What a worker holds afterwards it held before, at the same attempt or   *)
(* with the next one in the queue now, or it took it from the queue.       *)
HeldOn ==
    \A v \in Workers : \A e \in held'[v] :
        \/ e \in held[v] /\ (result'[v] = "retried" => result[v] = "retried")
        \/ e \in held[v] /\ HasAttempt(GroupOf[v], e.msg, e.attempt + 1)'
        \/ e \in queue[GroupOf[v]] /\ result'[v] # "retried"

LEMMA StillEnqueues == Still => Enqueues
  BY DEF Still, Enqueues

LEMMA WantedIs ==
    ASSUME NEW g, NEW m
    PROVE  m \in Wanted(g) <=> m \in Gets[g] /\ ~Rejected(g, m)
  BY DEF Wanted

LEMMA SafeMeans ==
    ASSUME NEW g, NEW m, NEW n
    PROVE  /\ Safe(g, m, n) <=> Through(g, m) \/ HasAttempt(g, m, n)
           /\ Safe(g, m, n)' <=> Through(g, m)' \/ HasAttempt(g, m, n)'
  BY DEF Safe

LEMMA EntryNumbers ==
    ASSUME TypeOK, NEW g \in Groups, NEW e \in queue[g]
    PROVE  e.attempt \in Nat /\ e.msg \in Msgs
  BY ConstantsAssumption DEF TypeOK, Entry

(* To have a later attempt is to have an earlier one as well.              *)
LEMMA SafeBefore ==
    ASSUME TypeOK, NEW g \in Groups, NEW m, NEW n \in Nat, NEW k \in Nat, k <= n,
           Safe(g, m, n)
    PROVE  Safe(g, m, k)
  <1>1. CASE Through(g, m)
    BY <1>1, SafeMeans
  <1>2. CASE HasAttempt(g, m, n)
    <2>1. PICK f \in queue[g] : f.msg = m /\ n <= f.attempt
      BY <1>2 DEF HasAttempt
    <2>2. k <= f.attempt
      BY <2>1, EntryNumbers
    <2> QED
      BY <2>1, <2>2, SafeMeans DEF HasAttempt
  <1> QED
    BY <1>1, <1>2, SafeMeans

(* What is safe stays safe, as long as the group wants it.                 *)
LEMMA SafeKept ==
    ASSUME TypeOK, TypeOK', Enqueues \/ Completes, NEW g \in Groups, NEW m \in Wanted(g),
           NEW n \in Nat, Safe(g, m, n)
    PROVE  Safe(g, m, n)'
  <1>1. CASE Enqueues
    <2>1. Through(g, m)' <=> Through(g, m)
      BY <1>1 DEF Enqueues, Through
    <2>2. HasAttempt(g, m, n) => HasAttempt(g, m, n)'
      BY <1>1 DEF Enqueues, HasAttempt
    <2> QED
      BY <2>1, <2>2, SafeMeans
  <1>2. CASE Completes /\ Through(g, m)
    BY <1>2, SafeMeans DEF Completes
  <1>3. CASE Completes /\ HasAttempt(g, m, n)
    <2>1. PICK f \in queue[g] : f.msg = m /\ n <= f.attempt
      BY <1>3 DEF HasAttempt
    <2>2. CASE f \in queue'[g]
      BY <2>1, <2>2, SafeMeans DEF HasAttempt
    <2>3. CASE f \notin queue'[g]
      <3>1. Through(g, m)' \/ HasAttempt(g, m, f.attempt + 1)'
        BY <1>3, <2>1, <2>3 DEF Completes
      <3>2. CASE HasAttempt(g, m, f.attempt + 1)'
        <4>1. PICK d \in queue'[g] : d.msg = m /\ f.attempt + 1 <= d.attempt
          BY <3>2 DEF HasAttempt
        <4>2. d.attempt \in Nat /\ f.attempt \in Nat
          <5>1. d \in Entry
            BY DEF TypeOK
          <5> QED
            BY <5>1, EntryNumbers, ConstantsAssumption DEF Entry
        <4>3. n <= d.attempt
          BY <2>1, <4>1, <4>2
        <4> QED
          BY <4>1, <4>3, SafeMeans DEF HasAttempt
      <3> QED
        BY <3>1, <3>2, SafeMeans
    <2> QED
      BY <2>2, <2>3
  <1> QED
    BY <1>1, <1>2, <1>3, SafeMeans

(* What a worker holds for its group, and what it may count on.            *)
LEMMA HeldIs ==
    ASSUME ContractInv, NEW w \in Workers, NEW e \in held[w]
    PROVE  /\ GroupOf[w] \in Groups
           /\ e \in Entry /\ e.msg \in Msgs /\ e.attempt \in Nat
           /\ e.msg \in Gets[GroupOf[w]]
           /\ ~Rejected(GroupOf[w], e.msg) =>
                 /\ e.msg \in Wanted(GroupOf[w])
                 /\ Safe(GroupOf[w], e.msg, Reached(w, e))
                 /\ Safe(GroupOf[w], e.msg, e.attempt)
                 /\ Safe(GroupOf[w], e.msg, 0)
  <1>0. TypeOK /\ GroupOf[w] \in Groups
    BY ConstantsAssumption DEF ContractInv, FilterInv, ChainInv
  <1>1. e \in Entry /\ e.msg \in Msgs /\ e.attempt \in Nat
    <2>1. e \in Entry
      BY <1>0 DEF TypeOK
    <2> QED
      BY <2>1, ConstantsAssumption DEF Entry
  <1>2. e.msg \in Gets[GroupOf[w]]
    BY DEF ContractInv, FilterInv, Addressed
  <1>3. ASSUME ~Rejected(GroupOf[w], e.msg)
        PROVE  /\ Safe(GroupOf[w], e.msg, Reached(w, e))
               /\ Safe(GroupOf[w], e.msg, e.attempt)
               /\ Safe(GroupOf[w], e.msg, 0)
    <2>1. Safe(GroupOf[w], e.msg, Reached(w, e))
      BY <1>3 DEF ContractInv, HeldSafe
    <2>2. Reached(w, e) \in Nat /\ e.attempt <= Reached(w, e) /\ 0 <= Reached(w, e)
      BY <1>1 DEF Reached
    <2> QED
      BY <1>0, <1>1, <2>1, <2>2, SafeBefore
  <1> QED
    BY <1>0, <1>1, <1>2, <1>3, WantedIs

LEMMA ContractInit == Init => ContractInv
  <1> SUFFICES ASSUME Init PROVE ContractInv
    OBVIOUS
  <1>1. OwedSafe /\ HeldSafe /\ SkippedKeyed
    BY DEF Init, OwedSafe, HeldSafe, SkippedKeyed
  <1> QED
    BY <1>1, FilterInit DEF ContractInv

(* What every step has to show.                                            *)
ContractStep == (Enqueues \/ Completes) /\ HeldOn /\ SkippedKeyed'

(* The steps that leave queues and ends alone, and nothing new is held.    *)
LEMMA StillStep ==
    ASSUME ContractInv, Still,
           \A v \in Workers : \A e \in held'[v] :
               e \in held[v] /\ (result'[v] = "retried" => result[v] = "retried")
    PROVE  ContractStep
  <1>1. HeldOn
    BY DEF HeldOn
  <1>2. SkippedKeyed'
    BY DEF ContractInv, Still, SkippedKeyed, KeyRaw, IsCron, IsJob
  <1> QED
    BY <1>1, <1>2, StillEnqueues DEF ContractStep

LEMMA ContractPublish ==
    ASSUME ContractInv, NEW m \in Msgs, Publish(m)
    PROVE  ContractStep
  <1>1. /\ UNCHANGED <<held, stages, result, handled, exhausted, skipped>>
        /\ published' = published \cup {m}
        /\ queue' = [g \in Groups |->
              queue[g] \cup (IF m \in Gets[g] THEN {[msg |-> m, attempt |-> 0]} ELSE {})]
    BY DEF Publish, workerVars
  <1>2. ASSUME NEW g \in Groups
        PROVE  /\ queue[g] \subseteq queue'[g]
               /\ \A e \in queue'[g] \ queue[g] : e.attempt = 0
               /\ \A n \in (published' \ published) \cap Gets[g] : HasAttempt(g, n, 0)'
    <2>1. queue[g] \subseteq queue'[g] /\ \A e \in queue'[g] \ queue[g] : e.attempt = 0
      BY <1>1
    <2>2. ASSUME m \in Gets[g] PROVE HasAttempt(g, m, 0)'
      <3>1. [msg |-> m, attempt |-> 0] \in queue'[g]
        BY <1>1, <2>2
      <3> QED
        BY <3>1 DEF HasAttempt
    <2> QED
      BY <1>1, <2>1, <2>2
  <1>3. Enqueues
    BY <1>1, <1>2 DEF Enqueues
  <1>4. HeldOn
    BY <1>1 DEF HeldOn
  <1>5. SkippedKeyed'
    BY <1>1 DEF ContractInv, SkippedKeyed, KeyRaw, IsCron, IsJob
  <1> QED
    BY <1>3, <1>4, <1>5 DEF ContractStep

LEMMA ContractOutside ==
    ASSUME ContractInv,
           \/ \E w \in Workers, n \in Names \cup Tasks : Register(w, n)
           \/ \E w \in Workers, n \in Tasks : Unregister(w, n)
           \/ \E w \in Workers : Crash(w)
           \/ \E k \in keys : Expire(k)
           \/ UNCHANGED vars
    PROVE  ContractStep
  <1>0. TypeOK
    BY DEF ContractInv, FilterInv, ChainInv
  <1>1. CASE \E w \in Workers : Crash(w)
    <2>1. PICK w \in Workers : Crash(w)
      BY <1>1
    <2>2. Still /\ \A v \in Workers : \A e \in held'[v] :
                       e \in held[v] /\ result'[v] = result[v]
      BY <1>0, <2>1 DEF Crash, Still, historyVars, TypeOK
    <2> QED
      BY <2>2, StillStep
  <1>2. CASE ~\E w \in Workers : Crash(w)
    <2>1. Still /\ UNCHANGED <<held, result>>
      BY <1>2 DEF Register, Unregister, Expire, Still, vars, workerVars, historyVars
    <2> QED
      BY <2>1, StillStep
  <1> QED
    BY <1>1, <1>2

LEMMA ContractReceive ==
    ASSUME ContractInv, NEW w \in Workers, NEW e \in queue[GroupOf[w]], Receive(w, e)
    PROVE  ContractStep
  <1>0. TypeOK
    BY DEF ContractInv, FilterInv, ChainInv
  <1>1. /\ Still
        /\ held'[w] = {e} /\ result'[w] = "none"
        /\ \A v \in Workers \ {w} : held'[v] = held[v] /\ result'[v] = result[v]
    BY <1>0 DEF Receive, Still, historyVars, TypeOK
  <1>2. HeldOn
    BY <1>1 DEF HeldOn
  <1>3. SkippedKeyed'
    BY <1>1 DEF ContractInv, Still, SkippedKeyed, KeyRaw, IsCron, IsJob
  <1> QED
    BY <1>1, <1>2, <1>3, StillEnqueues DEF ContractStep

(* A stage that ends nothing.                                              *)
LEMMA ContractStage ==
    ASSUME ContractInv, NEW w \in Workers, NEW e \in held[w],
           \/ Filter(w, e) \/ NotRegistered(w, e)
           \/ \E applied \in BOOLEAN : IdempotencyErr(w, e, applied)
    PROVE  ContractStep
  <1>0. TypeOK
    BY DEF ContractInv, FilterInv, ChainInv
  <1>1. Still /\ UNCHANGED held
    BY DEF Filter, NotRegistered, IdempotencyErr, Still, historyVars
  <1>2. \A v \in Workers : result'[v] = "retried" => result[v] = "retried"
    BY <1>0 DEF Filter, NotRegistered, IdempotencyErr, CallNext, Return, TypeOK
  <1> QED
    BY <1>1, <1>2, StillStep

(* A group comes to be through with no message but one that its worker     *)
(* holds, of which it had an attempt if it was not through already.        *)
LEMMA EndsHeld ==
    ASSUME ContractInv, NEW w \in Workers, NEW e \in held[w],
           ~Rejected(GroupOf[w], e.msg), UNCHANGED published,
           \A g \in Groups : \A m :
               /\ Through(g, m) => Through(g, m)'
               /\ Through(g, m)' => Through(g, m) \/ (g = GroupOf[w] /\ m = e.msg),
           \A g \in Groups :
               /\ queue'[g] \subseteq queue[g]
               /\ \A d \in queue[g] \ queue'[g] :
                     d.msg \in Wanted(g) =>
                         Through(g, d.msg)' \/ HasAttempt(g, d.msg, d.attempt + 1)'
    PROVE  Completes
  <1>1. ASSUME NEW g \in Groups, NEW m, Through(g, m)', ~Through(g, m)
        PROVE  m \in Wanted(g) /\ HasAttempt(g, m, 0)
    <2>1. g = GroupOf[w] /\ m = e.msg
      BY <1>1
    <2> QED
      BY <1>1, <2>1, HeldIs, SafeMeans
  <1> QED
    BY <1>1 DEF Completes

(* The group of w counts m among the messages it is through with.          *)
LEMMA ThroughGrows ==
    ASSUME TypeOK, NEW h \in Groups, NEW msg \in Msgs,
           \/ /\ handled' = [handled EXCEPT ![h] = @ \cup {msg}]
              /\ UNCHANGED <<exhausted, skipped>>
           \/ /\ skipped' = [skipped EXCEPT ![h] = @ \cup {msg}]
              /\ UNCHANGED <<handled, exhausted>>
           \/ /\ exhausted' = [exhausted EXCEPT ![h] = @ \cup {msg}]
              /\ UNCHANGED <<handled, skipped>>
           \/ UNCHANGED <<handled, exhausted, skipped>>
    PROVE  \A g \in Groups : \A m :
               /\ Through(g, m) => Through(g, m)'
               /\ Through(g, m)' => Through(g, m) \/ (g = h /\ m = msg)
  <1>1. ASSUME NEW g \in Groups
        PROVE  /\ handled[g] \subseteq handled'[g]
               /\ exhausted[g] \subseteq exhausted'[g]
               /\ skipped[g] \subseteq skipped'[g]
               /\ \A m \in handled'[g] \ handled[g] : g = h /\ m = msg
               /\ \A m \in exhausted'[g] \ exhausted[g] : g = h /\ m = msg
               /\ \A m \in skipped'[g] \ skipped[g] : g = h /\ m = msg
    <2>1. /\ handled \in [Groups -> SUBSET Msgs]
          /\ exhausted \in [Groups -> SUBSET Msgs]
          /\ skipped \in [Groups -> SUBSET Msgs]
      BY DEF TypeOK
    <2> QED
      BY <2>1
  <1> QED
    BY <1>1 DEF Through

LEMMA ContractExecute ==
    ASSUME ContractInv, NEW w \in Workers, NEW e \in held[w], Execute(w, e)
    PROVE  ContractStep
  <1>0. TypeOK /\ GroupOf[w] \in Groups /\ e.msg \in Msgs
    BY HeldIs DEF ContractInv, FilterInv, ChainInv
  <1>1. /\ UNCHANGED <<queue, published, held, exhausted, skipped>>
        /\ \/ handled' = [handled EXCEPT ![GroupOf[w]] = @ \cup {e.msg}]
           \/ UNCHANGED handled
    BY DEF Execute
  <1>2. \A v \in Workers : result'[v] = "retried" => result[v] = "retried"
    BY <1>0 DEF Execute, Return, TypeOK
  <1>3. ~Rejected(GroupOf[w], e.msg)
    <2>1. stages[w] = <<"execute">>
      BY StageShapes DEF Execute, ContractInv
    <2> QED
      BY <2>1 DEF ContractInv, FilterInv, FilteredFirst, PastFilter
  <1>4. Completes
    BY <1>0, <1>1, <1>3, ThroughGrows, EndsHeld
  <1>5. HeldOn
    BY <1>1, <1>2 DEF HeldOn
  <1>6. SkippedKeyed'
    BY <1>1 DEF ContractInv, SkippedKeyed, KeyRaw, IsCron, IsJob
  <1> QED
    BY <1>4, <1>5, <1>6 DEF ContractStep

LEMMA ContractIdempotency ==
    ASSUME ContractInv, NEW w \in Workers, NEW e \in held[w], Idempotency(w, e)
    PROVE  ContractStep
  <1>0. TypeOK /\ GroupOf[w] \in Groups /\ e.msg \in Msgs
    BY HeldIs DEF ContractInv, FilterInv, ChainInv
  <1>1. /\ UNCHANGED <<queue, published, held, handled, exhausted>>
        /\ \/ /\ skipped' = [skipped EXCEPT ![GroupOf[w]] = @ \cup {e.msg}]
              /\ KeyRaw(e.msg) # NoKey
           \/ UNCHANGED skipped
    BY DEF Idempotency, Bypass
  <1>2. \A v \in Workers : result'[v] = "retried" => result[v] = "retried"
    BY <1>0 DEF Idempotency, CallNext, Return, TypeOK
  <1>3. ~Rejected(GroupOf[w], e.msg)
    <2>1. stages[w] = <<"idempotency", "execute">>
      BY StageShapes DEF Idempotency, ContractInv
    <2> QED
      BY <2>1 DEF ContractInv, FilterInv, FilteredFirst, PastFilter
  <1>4. Completes
    BY <1>0, <1>1, <1>3, ThroughGrows, EndsHeld
  <1>5. HeldOn
    BY <1>1, <1>2 DEF HeldOn
  <1>6. SkippedKeyed'
    <2> SUFFICES ASSUME NEW g \in Groups, NEW m \in skipped'[g]
                 PROVE  KeyRaw(m) # NoKey
      BY DEF SkippedKeyed, KeyRaw, IsCron, IsJob
    <2>1. m \in skipped[g] \/ (m = e.msg /\ KeyRaw(e.msg) # NoKey)
      <3>1. skipped \in [Groups -> SUBSET Msgs]
        BY <1>0 DEF TypeOK
      <3>2. skipped'[g] \subseteq skipped[g] \cup {e.msg}
        BY <1>1, <3>1
      <3> QED
        BY <1>1, <3>2
    <2> QED
      BY <2>1 DEF ContractInv, SkippedKeyed
  <1> QED
    BY <1>4, <1>5, <1>6 DEF ContractStep

(* The next attempt comes after one that the group has had.                *)
LEMMA ContractRetry ==
    ASSUME ContractInv, NEW w \in Workers, NEW e \in held[w], Retry(w, e)
    PROVE  ContractStep
  <1>0. TypeOK /\ e \in Entry
    BY HeldIs DEF ContractInv, FilterInv, ChainInv
  <1>1. /\ UNCHANGED <<stages, published, handled, exhausted, skipped>>
        /\ ~LastAttempt(e) /\ stages[w] = <<>> /\ result[w] = "error"
    BY DEF Retry, historyVars
  <1>2. PICK stored, ok \in BOOLEAN :
           /\ ok => stored
           /\ queue' = [g \in Groups |->
                queue[g] \cup (IF stored /\ e.msg \in Gets[g] THEN {NextAttempt(e)} ELSE {})]
           /\ IF ok
              THEN result' = [result EXCEPT ![w] = "retried"] /\ UNCHANGED held
              ELSE LetGo(w)
    BY DEF Retry, Unpublished
  <1>n. /\ NextAttempt(e) \in Entry /\ NextAttempt(e).msg = e.msg
        /\ NextAttempt(e).attempt = e.attempt + 1 /\ e.attempt \in Nat
    BY <1>0, <1>1, NextAttemptIs
  <1>3. ~Rejected(GroupOf[w], e.msg)
    BY <1>1 DEF ContractInv, FilterInv, FilteredFirst, PastFilter
  <1>4. /\ GroupOf[w] \in Groups /\ e.msg \in Gets[GroupOf[w]]
        /\ e.msg \in Wanted(GroupOf[w]) /\ Safe(GroupOf[w], e.msg, e.attempt)
    BY <1>3, HeldIs
  <1>5. ASSUME NEW g \in Groups
        PROVE  /\ queue[g] \subseteq queue'[g]
               /\ \A d \in queue'[g] \ queue[g] :
                     \E h \in Groups : d.msg \in Wanted(h) /\ Safe(h, d.msg, d.attempt - 1)
    <2>1. queue[g] \subseteq queue'[g] /\ \A d \in queue'[g] \ queue[g] : d = NextAttempt(e)
      BY <1>2
    <2>2. NextAttempt(e).attempt - 1 = e.attempt
      BY <1>n
    <2> QED
      BY <1>4, <1>n, <2>1, <2>2
  <1>6. Enqueues
    BY <1>1, <1>5 DEF Enqueues
  <1>7. HeldOn
    <2>1. CASE ok
      <3>1. NextAttempt(e) \in queue'[GroupOf[w]]
        BY <1>2, <1>4, <2>1
      <3>2. HasAttempt(GroupOf[w], e.msg, e.attempt + 1)'
        BY <1>n, <3>1 DEF HasAttempt
      <3>3. UNCHANGED held /\ \A v \in Workers \ {w} : result'[v] = result[v]
        BY <1>0, <1>2, <2>1 DEF TypeOK
      <3>4. \A d \in held[w] : d = e
        BY <1>0 DEF TypeOK
      <3> QED
        BY <3>2, <3>3, <3>4 DEF HeldOn
    <2>2. CASE ~ok
      <3>1. LetGo(w)
        BY <1>2, <2>2
      <3>2. \A v \in Workers : \A d \in held'[v] : d \in held[v] /\ result'[v] = result[v]
        BY <1>0, <3>1 DEF LetGo, TypeOK
      <3> QED
        BY <3>2 DEF HeldOn
    <2> QED
      BY <2>1, <2>2
  <1>8. SkippedKeyed'
    BY <1>1 DEF ContractInv, SkippedKeyed, KeyRaw, IsCron, IsJob
  <1> QED
    BY <1>6, <1>7, <1>8 DEF ContractStep

(* An acknowledged attempt has an end on record or the next one before it. *)
LEMMA ContractAck ==
    ASSUME ContractInv, NEW w \in Workers, NEW e \in held[w], Ack(w, e)
    PROVE  ContractStep
  <1>0. TypeOK /\ ResultBacked /\ GroupOf[w] \in Groups /\ e.msg \in Msgs /\ e.attempt \in Nat
    BY HeldIs DEF ContractInv, FilterInv, ChainInv
  <1>1. /\ UNCHANGED <<stages, published, handled, skipped>>
        /\ stages[w] = <<>> /\ LetGo(w)
        /\ queue' = [queue EXCEPT ![GroupOf[w]] = @ \ {e}] \/ UNCHANGED queue
        /\ exhausted' = IF result[w] = "error"
                        THEN [exhausted EXCEPT ![GroupOf[w]] = @ \cup {e.msg}] ELSE exhausted
    BY DEF Ack
  <1>2. ASSUME NEW g \in Groups
        PROVE  queue'[g] \subseteq queue[g] /\ \A d \in queue[g] \ queue'[g] : g = GroupOf[w] /\ d = e
    <2>1. queue \in [Groups -> SUBSET Entry]
      BY <1>0 DEF TypeOK
    <2> QED
      BY <1>1, <2>1
  <1>3. \A g \in Groups : \A m :
            /\ Through(g, m) => Through(g, m)'
            /\ Through(g, m)' => Through(g, m) \/ (g = GroupOf[w] /\ m = e.msg)
    BY <1>0, <1>1, ThroughGrows
  <1>4. Backed(w, e)
    BY <1>0, <1>1, ChainShapes DEF ResultBacked
  <1>5. ASSUME Rejected(GroupOf[w], e.msg) PROVE Completes
    <2>1. result[w] # "error"
      BY <1>1, <1>5 DEF ContractInv, FilterInv, FilteredFirst, PastFilter
    <2>2. \A g \in Groups : \A m : Through(g, m)' <=> Through(g, m)
      BY <1>1, <2>1 DEF Through
    <2>3. \A g \in Groups : \A d \in queue[g] \ queue'[g] : d.msg \notin Wanted(g)
      BY <1>2, <1>5, WantedIs
    <2>4. UNCHANGED published /\ \A g \in Groups : queue'[g] \subseteq queue[g]
      BY <1>1, <1>2
    <2> QED
      BY <2>2, <2>3, <2>4 DEF Completes
  <1>6. ASSUME ~Rejected(GroupOf[w], e.msg) PROVE Completes
    <2>1. Through(GroupOf[w], e.msg)' \/ result[w] = "retried"
      <3>1. CASE result[w] = "error"
        <4>1. e.msg \in exhausted'[GroupOf[w]]
          BY <1>0, <1>1, <3>1 DEF TypeOK
        <4> QED
          BY <4>1 DEF Through
      <3>2. CASE result[w] \in {"ok", "skipped"}
        <4>1. Through(GroupOf[w], e.msg)
          BY <1>4, <3>2 DEF Backed, Through
        <4> QED
          BY <1>0, <1>3, <4>1
      <3> QED
        BY <1>4, <1>6, <3>1, <3>2 DEF Backed
    <2>2. ASSUME NEW g \in Groups, NEW d \in queue[g] \ queue'[g]
          PROVE  Through(g, d.msg)' \/ HasAttempt(g, d.msg, d.attempt + 1)'
      <3>1. g = GroupOf[w] /\ d = e
        BY <1>2, <2>2
      <3>2. CASE result[w] = "retried" /\ ~Through(g, e.msg)
        <4>1. Safe(g, e.msg, e.attempt + 1)
          BY <1>6, <3>1, <3>2, HeldIs DEF Reached
        <4>2. PICK f \in queue[g] : f.msg = e.msg /\ e.attempt + 1 <= f.attempt
          BY <3>2, <4>1, SafeMeans DEF HasAttempt
        <4>3. f # e
          BY <1>0, <4>2
        <4>4. f \in queue'[g]
          BY <1>2, <4>3
        <4> QED
          BY <3>1, <4>2, <4>4 DEF HasAttempt
      <3> QED
        BY <1>3, <2>1, <3>1, <3>2
    <2>3. \A g \in Groups : queue'[g] \subseteq queue[g]
      BY <1>2
    <2>4. UNCHANGED published
      BY <1>1
    <2> QED
      BY <1>3, <1>6, <2>2, <2>3, <2>4, EndsHeld
  <1>7. HeldOn
    <2>1. \A v \in Workers : \A d \in held'[v] : d \in held[v] /\ result'[v] = result[v]
      BY <1>0, <1>1 DEF LetGo, TypeOK
    <2> QED
      BY <2>1 DEF HeldOn
  <1>8. SkippedKeyed'
    BY <1>1 DEF ContractInv, SkippedKeyed, KeyRaw, IsCron, IsJob
  <1> QED
    BY <1>5, <1>6, <1>7, <1>8 DEF ContractStep

LEMMA ContractSteps ==
    ASSUME ContractInv, [Next]_vars
    PROVE  ContractStep
  <1>1. ASSUME NEW w \in Workers, WorkerStep(w) PROVE ContractStep
    BY <1>1, ContractReceive, ContractStage, ContractExecute, ContractIdempotency,
       ContractRetry, ContractAck
       DEF WorkerStep, ChainStep
  <1> QED
    BY <1>1, ContractPublish, ContractOutside DEF Next

LEMMA ContractNext == ContractInv /\ [Next]_vars => ContractInv'
  <1> SUFFICES ASSUME ContractInv, [Next]_vars PROVE ContractInv'
    OBVIOUS
  <1>1. FilterInv' /\ ContractStep
    BY FilterNext, ContractSteps DEF ContractInv
  <1>t. TypeOK /\ TypeOK'
    BY <1>1 DEF ContractInv, FilterInv, ChainInv
  <1>2. OwedSafe'
    <2> SUFFICES ASSUME NEW g \in Groups, NEW m \in published' \cap Wanted(g)
                 PROVE  Safe(g, m, 0)'
      BY DEF OwedSafe, Wanted, Rejected, IsEvent
    <2>1. CASE m \in published
      <3>1. Safe(g, m, 0)
        BY <2>1 DEF ContractInv, OwedSafe
      <3> QED
        BY <1>1, <1>t, <3>1, SafeKept DEF ContractStep
    <2>2. CASE m \notin published
      <3>1. m \in Gets[g]
        BY WantedIs
      <3>2. HasAttempt(g, m, 0)'
        BY <1>1, <2>2, <3>1 DEF ContractStep, Enqueues, Completes
      <3> QED
        BY <3>2, SafeMeans
    <2> QED
      BY <2>1, <2>2
  <1>3. HeldSafe'
    <2> SUFFICES ASSUME NEW v \in Workers, NEW e \in held'[v], ~Rejected(GroupOf[v], e.msg)
                 PROVE  Safe(GroupOf[v], e.msg, Reached(v, e))'
      BY DEF HeldSafe, Rejected, IsEvent
    <2>g. GroupOf[v] \in Groups
      BY ConstantsAssumption
    <2>0. /\ e.msg \in Wanted(GroupOf[v]) /\ e.attempt \in Nat
          /\ Reached(v, e)' = IF result'[v] = "retried" THEN e.attempt + 1 ELSE e.attempt
      <3>1. e \in Entry
        BY <1>t DEF TypeOK
      <3>2. e.msg \in Gets[GroupOf[v]]
        BY <1>1 DEF FilterInv, Addressed
      <3> QED
        BY <3>1, <3>2, WantedIs, ConstantsAssumption DEF Entry, Reached
    <2>1. CASE e \in held[v] /\ (result'[v] = "retried" => result[v] = "retried")
      <3>1. Safe(GroupOf[v], e.msg, Reached(v, e)) /\ Safe(GroupOf[v], e.msg, e.attempt)
        BY <2>1, HeldIs
      <3>2. CASE result'[v] = "retried"
        <4>1. Reached(v, e)' = Reached(v, e) /\ Reached(v, e) \in Nat
          BY <2>0, <2>1, <3>2 DEF Reached
        <4> QED
          BY <1>1, <1>t, <2>g, <2>0, <3>1, <4>1, SafeKept, SafeMeans DEF ContractStep
      <3>3. CASE result'[v] # "retried"
        <4>1. Reached(v, e)' = e.attempt
          BY <2>0, <3>3
        <4> QED
          BY <1>1, <1>t, <2>g, <2>0, <3>1, <4>1, SafeKept, SafeMeans DEF ContractStep
      <3> QED
        BY <3>2, <3>3
    <2>2. CASE e \in held[v] /\ HasAttempt(GroupOf[v], e.msg, e.attempt + 1)'
      <3>1. PICK f \in queue'[GroupOf[v]] : f.msg = e.msg /\ e.attempt + 1 <= f.attempt
        BY <2>2 DEF HasAttempt
      <3>2. f.attempt \in Nat
        <4>1. f \in Entry
          BY <1>t, <2>g DEF TypeOK
        <4> QED
          BY <4>1, ConstantsAssumption DEF Entry
      <3>3. Reached(v, e)' <= f.attempt
        BY <2>0, <3>1, <3>2
      <3>4. HasAttempt(GroupOf[v], e.msg, Reached(v, e))'
        BY <3>1, <3>3 DEF HasAttempt
      <3> QED
        BY <3>4 DEF Safe
    <2>3. CASE e \in queue[GroupOf[v]] /\ result'[v] # "retried"
      <3>1. HasAttempt(GroupOf[v], e.msg, e.attempt) /\ Reached(v, e)' = e.attempt
        BY <2>0, <2>3 DEF HasAttempt
      <3>2. Safe(GroupOf[v], e.msg, e.attempt)
        BY <3>1, SafeMeans
      <3>3. Safe(GroupOf[v], e.msg, e.attempt)'
        BY <1>1, <1>t, <2>g, <2>0, <3>2, SafeKept DEF ContractStep
      <3> QED
        BY <3>1, <3>3, SafeMeans
    <2> QED
      BY <1>1, <2>1, <2>2, <2>3 DEF ContractStep, HeldOn
  <1> QED
    BY <1>1, <1>2, <1>3 DEF ContractInv, ContractStep

(* For any groups, filters, keys, retries, crashes and failed publishes:   *)
(* a published message waits in every group it goes to until it was        *)
(* handled, ran out of attempts or was rejected by the filter; only one    *)
(* with a key is skipped.                                                  *)
THEOREM NoMessageForgotten == Spec => []NoneForgotten
  <1>1. ContractInv => NoneForgotten
    <2> SUFFICES ASSUME ContractInv, NEW g \in Groups, NEW m \in published \cap Gets[g],
                        ~Rejected(g, m)
                 PROVE  \/ Queued(g, m)
                        \/ m \in handled[g] \cup exhausted[g]
                        \/ m \in skipped[g] /\ KeyRaw(m) # NoKey
      BY DEF NoneForgotten
    <2>1. Through(g, m) \/ HasAttempt(g, m, 0)
      BY WantedIs, SafeMeans DEF ContractInv, OwedSafe
    <2> QED
      BY <2>1 DEF Through, HasAttempt, Queued, ContractInv, SkippedKeyed
  <1> QED
    BY <1>1, ContractInit, ContractNext, PTL DEF Spec

-----------------------------------------------------------------------------
(* The refinement.                                                         *)

pendingOf == [g \in Groups |-> {e \in queue[g] : e.msg \in Wanted(g)}]
owedOf == [g \in Groups |-> published \cap Wanted(g)]
settledOf == [g \in Groups |-> handled[g] \cup exhausted[g] \cup skipped[g]]

(* The members of the three sets, in this state and the next.              *)
LEMMA ContractMembers ==
    ASSUME NEW g \in Groups
    PROVE  /\ \A e : e \in pendingOf[g] <=> e \in queue[g] /\ e.msg \in Wanted(g)
           /\ \A e : e \in pendingOf'[g] <=> e \in queue'[g] /\ e.msg \in Wanted(g)
           /\ \A m : m \in settledOf[g] <=> Through(g, m)
           /\ \A m : m \in settledOf'[g] <=> Through(g, m)'
           /\ owedOf[g] = published \cap Wanted(g)
           /\ owedOf'[g] = published' \cap Wanted(g)
  BY DEF pendingOf, settledOf, owedOf, Through, Wanted, Rejected, IsEvent

LEMMA ContractHas ==
    ASSUME NEW g \in Groups, NEW m \in Wanted(g), NEW n
    PROVE  /\ Contract!Has(pendingOf[g], m, n) <=> HasAttempt(g, m, n)
           /\ Contract!Has(pendingOf'[g], m, n) <=> HasAttempt(g, m, n)'
  BY ContractMembers DEF Contract!Has, HasAttempt

LEMMA ContractTypes ==
    ASSUME TypeOK'
    PROVE  /\ pendingOf' \in [Groups -> SUBSET Contract!Attempt]
           /\ owedOf' \in [Groups -> SUBSET Msgs]
           /\ settledOf' \in [Groups -> SUBSET Msgs]
  <1>1. Contract!Attempt = Entry
    BY DEF Contract!Attempt, Entry
  <1>2. /\ queue' \in [Groups -> SUBSET Entry] /\ published' \subseteq Msgs
        /\ \A g \in Groups : handled'[g] \cup exhausted'[g] \cup skipped'[g] \subseteq Msgs
    BY DEF TypeOK
  <1>3. pendingOf' \in [Groups -> SUBSET Entry]
    BY <1>2 DEF pendingOf
  <1> QED
    BY <1>1, <1>2, <1>3 DEF owedOf, settledOf

LEMMA ContractStart == Init => Contract!Init
  <1> SUFFICES ASSUME Init PROVE Contract!Init
    OBVIOUS
  <1>1. /\ \A g \in Groups : queue[g] = {} /\ handled[g] \cup exhausted[g] \cup skipped[g] = {}
        /\ published = {}
    BY DEF Init
  <1> QED
    BY <1>1 DEF Contract!Init

LEMMA EnqueuesRefines ==
    ASSUME ContractInv, ContractInv', Enqueues
    PROVE  Contract!Enqueue
  <1>t. TypeOK'
    BY DEF ContractInv, FilterInv, ChainInv
  <1>1. ASSUME NEW g \in Groups
        PROVE  pendingOf[g] \subseteq pendingOf'[g] /\ owedOf[g] \subseteq owedOf'[g]
    BY ContractMembers DEF Enqueues
  <1>2. ASSUME NEW g \in Groups, NEW e \in pendingOf'[g] \ pendingOf[g]
        PROVE  \/ e.attempt = 0
               \/ \E h \in Groups :
                     \/ e.msg \in settledOf[h]
                     \/ Contract!Has(pendingOf[h], e.msg, e.attempt - 1)
    <2>1. e \in queue'[g] \ queue[g]
      BY ContractMembers
    <2>2. CASE e.attempt # 0
      <3>1. PICK h \in Groups : e.msg \in Wanted(h) /\ Safe(h, e.msg, e.attempt - 1)
        BY <2>1, <2>2 DEF Enqueues
      <3> QED
        BY <3>1, SafeMeans, ContractMembers, ContractHas
    <2> QED
      BY <2>2
  <1>3. ASSUME NEW g \in Groups, NEW m \in owedOf'[g] \ owedOf[g]
        PROVE  m \in settledOf[g] \/ Contract!Has(pendingOf'[g], m, 0)
    <2>1. m \in Wanted(g) /\ m \in published' \ published
      BY ContractMembers
    <2>2. HasAttempt(g, m, 0)'
      BY <2>1, WantedIs DEF Enqueues
    <2> QED
      BY <2>1, <2>2, ContractHas
  <1>4. UNCHANGED settledOf
    BY DEF Enqueues, settledOf
  <1> QED
    BY <1>t, <1>1, <1>2, <1>3, <1>4, ContractTypes
       DEF Contract!Enqueue, pendingOf, owedOf, settledOf

LEMMA CompletesRefines ==
    ASSUME ContractInv, ContractInv', Completes
    PROVE  Contract!Complete
  <1>t. TypeOK'
    BY DEF ContractInv, FilterInv, ChainInv
  <1>1. ASSUME NEW g \in Groups
        PROVE  settledOf[g] \subseteq settledOf'[g] /\ pendingOf'[g] \subseteq pendingOf[g]
    BY ContractMembers DEF Completes
  <1>2. ASSUME NEW g \in Groups, NEW m \in settledOf'[g] \ settledOf[g]
        PROVE  Contract!Has(pendingOf[g], m, 0)
    <2>1. m \in Wanted(g) /\ HasAttempt(g, m, 0)
      BY ContractMembers DEF Completes
    <2> QED
      BY <2>1, ContractHas
  <1>3. ASSUME NEW g \in Groups, NEW e \in pendingOf[g] \ pendingOf'[g]
        PROVE  \/ e.msg \in settledOf'[g]
               \/ Contract!Has(pendingOf'[g], e.msg, e.attempt + 1)
    <2>1. e \in queue[g] \ queue'[g] /\ e.msg \in Wanted(g)
      BY ContractMembers
    <2>2. Through(g, e.msg)' \/ HasAttempt(g, e.msg, e.attempt + 1)'
      BY <2>1 DEF Completes
    <2> QED
      BY <2>1, <2>2, ContractMembers, ContractHas
  <1>4. UNCHANGED owedOf
    BY DEF Completes, owedOf, Wanted, Rejected, IsEvent
  <1> QED
    BY <1>t, <1>1, <1>2, <1>3, <1>4, ContractTypes
       DEF Contract!Complete, pendingOf, owedOf, settledOf

(* To what is behind the filter each group is one of an MQ that keeps its  *)
(* contract: every publish and every retry of any group brings attempts    *)
(* about in order, whoever is through with a message wanted it and had it, *)
(* and no attempt goes without an end or the next one, although a message  *)
(* is skipped, retried for other groups or delivered twice.                *)
THEOREM ContractImplemented == Spec => ImplementsContract
  <1>1. ContractInv /\ [Next]_vars => [Contract!Next]_(Contract!vars)
    <2> SUFFICES ASSUME ContractInv, [Next]_vars PROVE Contract!Next
      OBVIOUS
    <2>1. ContractInv' /\ (Enqueues \/ Completes)
      BY ContractNext, ContractSteps DEF ContractStep
    <2> QED
      BY <2>1, EnqueuesRefines, CompletesRefines DEF Contract!Next
  <1> QED
    BY <1>1, ContractStart, ContractInit, ContractNext, PTL
       DEF Spec, ImplementsContract, Contract!Spec
=============================================================================
