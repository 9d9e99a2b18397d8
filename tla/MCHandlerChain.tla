--------------------------- MODULE MCHandlerChain ---------------------------
(* Instances of HandlerChain for TLC.                                      *)
EXTENDS HandlerChain

(* One group of two job workers and one subscription.  j1 carries key "k", *)
(* j2 has payload "k" and no key, u has neither, e is an event about "k"   *)
(* that the subscription accepts, x one that it rejects, c a trigger of    *)
(* task T.                                                                 *)
OneWorkerGroup == [w \in Workers |-> IF w = "sub" THEN "events" ELSE "jobs"]
JobMsgs == Msgs \cap {"j1", "j2", "u", "b"}
CronMsgs == Msgs \cap {"c"}
GetsByKind == [g \in Groups |-> CASE g = "events" -> Msgs \ (JobMsgs \cup CronMsgs)
                              [] g = "cron" -> CronMsgs
                              [] OTHER -> JobMsgs]
GetsAll == [g \in Groups |-> Msgs]
AcceptsButX == [g \in Groups |-> IF g = "events" THEN Msgs \ {"x"} ELSE Msgs]
NamesByMsg == [m \in Msgs |-> CASE m = "b" -> "B"
                                [] m \in JobMsgs \ {"b"} -> "A"
                                [] m \in CronMsgs -> "T"
                                [] OTHER -> "none"]
KeysByMsg == [m \in Msgs |-> IF m \in {"j1", "e", "f", "x"} THEN "k" ELSE ""]
BodiesByMsg == [m \in Msgs |-> IF m \in {"j2", "b"} THEN "k" ELSE ""]

(* Each worker a group of its own: every message reaches two groups, and of*)
(* x, which one of them rejects, the retries of the other one reach it too.*)
WorkersApart == [w \in Workers |-> w]
AcceptsApart == [g \in Groups |-> IF g = "w1" THEN Msgs \ {"x"} ELSE Msgs]
=============================================================================
