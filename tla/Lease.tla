------------------------------- MODULE Lease -------------------------------
(***************************************************************************)
(* What the leader election of Cron (cron_dist.go) promises over a lock    *)
(* whose lease can run out: terms of leadership are granted one after the  *)
(* other, and a term ends for good.  CronDist is shown to implement this   *)
(* over Redis.                                                             *)
(*                                                                         *)
(* The abstraction knows no instances, goroutines or commands: a term is a *)
(* number, and whoever got it acts as the leader for as long as it is      *)
(* among the leading ones.                                                 *)
(***************************************************************************)
EXTENDS Naturals

VARIABLES
    granted,   \* how many terms were granted
    holder,    \* the term that holds the lock; 0 when it is free
    leading,   \* terms whose holder acts as the leader
    ousted     \* terms whose lease ran out too early

vars == <<granted, holder, leading, ousted>>

Init ==
    /\ granted = 0
    /\ holder = 0
    /\ leading = {}
    /\ ousted = {}

(* A new term gets the free lock; its instance may not learn of it.        *)
Grant ==
    /\ holder = 0
    /\ granted' = granted + 1
    /\ holder' = granted'
    /\ leading' \in {leading, leading \cup {granted'}}
    /\ UNCHANGED ousted

(* Terms end, at any time, and never begin again.                          *)
Retire ==
    /\ leading' \subseteq leading
    /\ UNCHANGED <<granted, holder, ousted>>

(* The lock is given up, or runs out, only when its term has ended.        *)
Free ==
    /\ holder \notin leading
    /\ holder' = 0
    /\ UNCHANGED <<granted, leading, ousted>>

(* Or the lease runs out before it is renewed, and the term is marked.     *)
RunOut ==
    /\ holder # 0
    /\ holder' = 0
    /\ ousted' = ousted \cup {holder}
    /\ UNCHANGED <<granted, leading>>

Next == Grant \/ Retire \/ Free \/ RunOut

Spec == Init /\ [][Next]_vars

-----------------------------------------------------------------------------
(* The promise: whoever leads has the latest term, so that there is one    *)
(* leader, unless its lease ran out.                                       *)
LatestLeads == \A t \in leading : t = granted \/ t \in ousted
=============================================================================
