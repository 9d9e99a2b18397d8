----------------------------- MODULE MCRabbitMQ -----------------------------
(* Topologies for model checking RabbitMQ.                                 *)
EXTENDS RabbitMQ, TLC

CONSTANTS p1, p2, c1, c2, q1, q2, m1, m2

(* Two consumers of one group, on instances of their own or on one.        *)
OwnProc == (c1 :> p1) @@ (c2 :> p2)
SameProc == (c1 :> p1) @@ (c2 :> p1)
SameQueue == (c1 :> q1) @@ (c2 :> q1)

(* Two groups of one topic.                                                *)
OwnQueue == (c1 :> q1) @@ (c2 :> q2)

(* The two groups alike.                                                   *)
Symmetry == {(c1 :> c2) @@ (c2 :> c1) @@ (q1 :> q2) @@ (q2 :> q1)}

MatchAll == [q \in Queues |-> Msgs]
=============================================================================
