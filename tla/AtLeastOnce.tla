---------------------------- MODULE AtLeastOnce ----------------------------
(***************************************************************************)
(* What the MQ interface (mq.go) promises its users whichever adapter      *)
(* implements it: at-least-once delivery to every consumer group with a    *)
(* bounded number of attempts.  RedisMQ, RabbitMQ and, for what is behind  *)
(* the filter of a group, HandlerChain are shown to implement it.          *)
(*                                                                         *)
(* The abstraction knows neither streams nor channels, neither pending     *)
(* entries nor unacknowledged deliveries: an attempt of a message is       *)
(* pending for a group, wherever the adapter and its server keep it.       *)
(***************************************************************************)
EXTENDS Naturals

CONSTANTS Groups, Msgs, MaxRetries

VARIABLES
    owed,      \* the messages each group must get
    pending,   \* the attempts each group still has to receive or complete
    settled    \* the messages a group is through with: handled, or failed on
               \* the last attempt, or given up over an error the adapter drops

vars == <<owed, pending, settled>>

Attempt == [msg: Msgs, attempt: 0..MaxRetries]

Init ==
    /\ owed = [g \in Groups |-> {}]
    /\ pending = [g \in Groups |-> {}]
    /\ settled = [g \in Groups |-> {}]

(* Attempt n of m, or a later one, is among the attempts of p.             *)
Has(p, m, n) == \E e \in p : e.msg = m /\ n <= e.attempt

(* Attempts begin: those of a message just published, and attempt n of one *)
(* that some group has had attempt n - 1 of, or is through with.  A group  *)
(* comes to be owed a message only when it gets it.                        *)
Enqueue ==
    /\ pending' \in [Groups -> SUBSET Attempt]
    /\ owed' \in [Groups -> SUBSET Msgs]
    /\ \A g \in Groups :
          /\ pending[g] \subseteq pending'[g]
          /\ \A e \in pending'[g] \ pending[g] :
                \/ e.attempt = 0
                \/ \E h \in Groups :
                      e.msg \in settled[h] \/ Has(pending[h], e.msg, e.attempt - 1)
          /\ owed[g] \subseteq owed'[g]
          /\ \A m \in owed'[g] \ owed[g] : m \in settled[g] \/ Has(pending'[g], m, 0)
    /\ UNCHANGED settled

(* Attempts end: a group is through only with a message it had pending, and*)
(* an attempt goes only when the group is through with its message or has a*)
(* later attempt before it.                                                *)
Complete ==
    /\ pending' \in [Groups -> SUBSET Attempt]
    /\ settled' \in [Groups -> SUBSET Msgs]
    /\ \A g \in Groups :
          /\ settled[g] \subseteq settled'[g]
          /\ \A m \in settled'[g] \ settled[g] : Has(pending[g], m, 0)
          /\ pending'[g] \subseteq pending[g]
          /\ \A e \in pending[g] \ pending'[g] :
                e.msg \in settled'[g] \/ Has(pending'[g], e.msg, e.attempt + 1)
    /\ UNCHANGED owed

Next == Enqueue \/ Complete

Spec == Init /\ [][Next]_vars

-----------------------------------------------------------------------------
(* The promise: a group is through with every message it is owed, or has   *)
(* an attempt of it pending.                                               *)
Delivered ==
    \A g \in Groups : \A m \in owed[g] : m \in settled[g] \/ Has(pending[g], m, 0)
=============================================================================
