------------------------------- MODULE Topics -------------------------------
(***************************************************************************)
(* matchTopic (util.go), which decides on Redis whether a subscription     *)
(* gets a message that is on its stream, and what the repository says of   *)
(* namespaces and patterns, over the topics of TopicNames.                 *)
(***************************************************************************)
EXTENDS TopicNames

(* matchTopicTokens.  "#" stands for any number of words, so i starts at   *)
(* none; the faulty form starts at one.                                    *)
FirstSkip_One == 1
FirstSkip == 0

RECURSIVE MatchTokens(_, _)
MatchTokens(pattern, topic) ==
    IF pattern = <<>> THEN topic = <<>>
    ELSE IF Head(pattern) = "#"
         THEN \/ Len(pattern) = 1
              \/ \E i \in FirstSkip..Len(topic) :
                    MatchTokens(Tail(pattern), SubSeq(topic, i + 1, Len(topic)))
    ELSE /\ topic # <<>>
         /\ Head(pattern) \in {"*", Head(topic)}
         /\ MatchTokens(Tail(pattern), Tail(topic))

MatchTopic(pattern, topic) ==
    \/ pattern = topic
    \/ /\ pattern # <<>> /\ topic # <<>>
       /\ \E i \in DOMAIN pattern : pattern[i] \in {"*", "#"}
       /\ MatchTokens(pattern, topic)

-----------------------------------------------------------------------------
(* matchTopic's recursion, with its shortcuts, decides that meaning.       *)
MatchIsMeaning ==
    \A s \in sub, p \in pub : MatchTopic(s.topic, p.topic) <=> Denotes(s.topic, p.topic)

-----------------------------------------------------------------------------
(* What the repository says and the code does not do.                      *)

(* Services of different namespaces coexist safely on one MQ               *)
(* (doc.go:61-62): a subscription of the global bus gets the jobs, tasks   *)
(* and isolated events of a service whose namespace is "event", and two    *)
(* services whose namespaces New rejects are one.                          *)
Service(x) == IF x.comp = "global" THEN <<"global">> ELSE <<x.ns, x.comp>>

NamespacesApart ==
    \A s \in sub, p \in pub : MatchTopic(s.topic, p.topic) => Service(s) = Service(p)

(* A subscription gets what its pattern matches (event.go:49): on RabbitMQ *)
(* patterns that differ in their wildcards alone are bound to one queue    *)
(* when their group is the same, and the consumers of either take what     *)
(* only the other matches.                                                 *)
QueueServesPattern ==
    \A s \in sub, p \in pub : \A other \in Names(Words \cup {"*", "#"}) :
        LET bound == BuildTopic(s.ns, s.comp, other)
        IN QueueName(bound) = QueueName(s.topic) =>
              (MatchTopic(bound, p.topic) => MatchTopic(s.topic, p.topic))
=============================================================================
