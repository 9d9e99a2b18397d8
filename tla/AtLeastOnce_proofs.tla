------------------------- MODULE AtLeastOnce_proofs -------------------------
(* What the contract of the MQ interface amounts to, for all groups,       *)
(* messages and bounds on the retries.                                     *)
EXTENDS AtLeastOnce, TLAPS

TypeOK ==
    /\ owed \in [Groups -> SUBSET Msgs]
    /\ pending \in [Groups -> SUBSET Attempt]
    /\ settled \in [Groups -> SUBSET Msgs]

ContractInv == TypeOK /\ Delivered

(* A later attempt is an attempt, and attempts that remain are found.      *)
LEMMA HasAny ==
    ASSUME NEW p \in SUBSET Attempt, NEW m, NEW n \in Nat, Has(p, m, n)
    PROVE  Has(p, m, 0)
  BY DEF Has, Attempt

LEMMA HasMore ==
    ASSUME NEW p, NEW q, p \subseteq q, NEW m, NEW n, Has(p, m, n)
    PROVE  Has(q, m, n)
  BY DEF Has

LEMMA ContractInit == Init => ContractInv
  BY DEF Init, ContractInv, TypeOK, Delivered

LEMMA EnqueueStep ==
    ASSUME ContractInv, Enqueue
    PROVE  ContractInv'
  <1>1. TypeOK'
    BY DEF Enqueue, ContractInv, TypeOK
  <1>2. Delivered'
    <2> SUFFICES ASSUME NEW g \in Groups, NEW m \in owed'[g]
                 PROVE  m \in settled[g] \/ Has(pending'[g], m, 0)
      BY DEF Enqueue, Delivered, Has
    <2>1. CASE m \in owed[g]
      <3>1. m \in settled[g] \/ Has(pending[g], m, 0)
        BY <2>1 DEF ContractInv, Delivered
      <3>2. pending[g] \subseteq pending'[g]
        BY DEF Enqueue
      <3> QED
        BY <3>1, <3>2, HasMore
    <2>2. CASE m \notin owed[g]
      BY <2>2 DEF Enqueue
    <2> QED
      BY <2>1, <2>2
  <1> QED
    BY <1>1, <1>2 DEF ContractInv

LEMMA CompleteStep ==
    ASSUME ContractInv, Complete
    PROVE  ContractInv'
  <1>1. TypeOK'
    BY DEF Complete, ContractInv, TypeOK
  <1>2. Delivered'
    <2> SUFFICES ASSUME NEW g \in Groups, NEW m \in owed[g]
                 PROVE  m \in settled'[g] \/ Has(pending'[g], m, 0)
      BY DEF Complete, Delivered, Has
    <2>1. /\ settled[g] \subseteq settled'[g]
          /\ pending'[g] \in SUBSET Attempt
          /\ \A e \in pending[g] \ pending'[g] :
                e.msg \in settled'[g] \/ Has(pending'[g], e.msg, e.attempt + 1)
      BY DEF Complete
    <2>2. CASE m \in settled[g]
      BY <2>1, <2>2
    <2>3. CASE Has(pending[g], m, 0)
      <3>1. PICK e \in pending[g] : e.msg = m /\ 0 <= e.attempt
        BY <2>3 DEF Has
      <3>2. CASE e \in pending'[g]
        BY <3>1, <3>2 DEF Has
      <3>3. CASE e \notin pending'[g]
        <4>1. e \in Attempt
          BY DEF ContractInv, TypeOK
        <4>2. e.attempt + 1 \in Nat
          BY <4>1 DEF Attempt
        <4>3. m \in settled'[g] \/ Has(pending'[g], m, e.attempt + 1)
          BY <2>1, <3>1, <3>3
        <4> QED
          BY <2>1, <4>2, <4>3, HasAny
      <3> QED
        BY <3>2, <3>3
    <2> QED
      BY <2>2, <2>3 DEF ContractInv, Delivered
  <1> QED
    BY <1>1, <1>2 DEF ContractInv

LEMMA ContractNext == ContractInv /\ [Next]_vars => ContractInv'
  <1> SUFFICES ASSUME ContractInv, [Next]_vars PROVE ContractInv'
    OBVIOUS
  <1>1. CASE UNCHANGED vars
    BY <1>1 DEF ContractInv, TypeOK, Delivered, Has, vars
  <1>2. CASE Next
    BY <1>2, EnqueueStep, CompleteStep DEF Next
  <1> QED
    BY <1>1, <1>2

(* Whatever implements the contract loses nothing: at every moment a group *)
(* is through with a message it is owed, or has an attempt of it before it *)
(* (mq.go, Consumer and Handler).                                          *)
THEOREM ContractDelivers == Spec => []Delivered
  <1>1. ContractInv => Delivered
    BY DEF ContractInv
  <1> QED
    BY <1>1, ContractInit, ContractNext, PTL DEF Spec
=============================================================================
