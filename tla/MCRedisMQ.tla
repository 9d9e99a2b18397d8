----------------------------- MODULE MCRedisMQ -----------------------------
(* Topologies for model checking RedisMQ.                                  *)
EXTENDS RedisMQ, TLC

CONSTANTS p1, p2, c1, c2, g1, m1, m2

(* One consumer; an instance without one still runs its delay scheduler.   *)
OnlyProc == c1 :> p1
OnlyGroup == c1 :> g1

(* Two consumers on one instance, in one group.                            *)
SameProc == (c1 :> p1) @@ (c2 :> p1)
SameGroup == (c1 :> g1) @@ (c2 :> g1)

MatchAll == [c \in Consumers |-> Msgs]
MatchOwn == (c1 :> {m1}) @@ (c2 :> {m2})
=============================================================================
