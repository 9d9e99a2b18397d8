----------------------------- MODULE TopicNames -----------------------------
(***************************************************************************)
(* Which subscription sees which message: the topics that Jobs, Cron and   *)
(* EventBus build (util.go, eventbus_impl.go) under the namespace New gives*)
(* the client (client.go), the Redis stream a topic lives on               *)
(* (redisStreamForTopic), the RabbitMQ queue of a subscription             *)
(* (sanitizeQueueName) and what a pattern means.  A topic is the sequence  *)
(* of its dot-separated words.  Subscribing and publishing each happen     *)
(* once, in either order.  Topics adds the code's matchTopic.              *)
(***************************************************************************)
EXTENDS Naturals, Sequences, FiniteSetsExt

CONSTANTS
    Namespaces,   \* Config.Namespace of the services that share the MQ
    Invalid,      \* those that isValidNamespace rejects, the empty one too
    Components,   \* the components of each that are used
    Words,        \* words of business names
    MaxWords      \* bound on their number

ComponentTokens == {"job", "event", "cron"}

(* "global" is the EventBus in global mode, of whatever namespace; a valid *)
(* namespace has letters, digits and hyphens alone (isValidNamespace).     *)
ASSUME ConstantsAssumption ==
    /\ Components \subseteq ComponentTokens \cup {"global"}
    /\ {"*", "#", ""} \cap (Words \cup (Namespaces \ Invalid)) = {}
    /\ MaxWords \in Nat

VARIABLES
    sub,   \* the subscription, if any
    pub    \* the message published, if any

vars == <<sub, pub>>

Names(words) == UNION {[1..n -> words] : n \in 1..MaxWords}

-----------------------------------------------------------------------------
(* New replaces a namespace it does not like, without an error.            *)
Namespace(ns) == IF ns \in Invalid THEN "default" ELSE ns

(* buildTopicPrefix, and globalEventPrefix in global mode.                 *)
TopicPrefix(ns, comp) ==
    IF comp = "global" THEN <<"taskbus", "event">>
    ELSE <<"taskbus", Namespace(ns), comp>>

(* buildTopic, buildEventTopic and, with the pattern "#", buildWildcardTopic. *)
BuildTopic(ns, comp, name) == TopicPrefix(ns, comp) \o name

(* isComponentToken; the faulty form has forgotten one.                    *)
IsComponentToken_NoCron(w) == w \in {"job", "event"}
IsComponentToken(w) == w \in ComponentTokens

(* redisStreamForTopic.  The faulty form leaves the namespace out.         *)
StreamForTopic_NoNamespace(topic) ==
    IF topic[1] # "taskbus" \/ Len(topic) < 3 THEN topic
    ELSE IF IsComponentToken(topic[2]) THEN <<"taskbus", topic[2]>>
    ELSE IF IsComponentToken(topic[3]) THEN <<"taskbus", topic[3]>>
    ELSE topic

StreamForTopic(topic) ==
    IF topic[1] # "taskbus" \/ Len(topic) < 3 THEN topic
    ELSE IF IsComponentToken(topic[2]) THEN <<"taskbus", topic[2]>>
    ELSE IF IsComponentToken(topic[3]) THEN <<"taskbus", topic[2], topic[3]>>
    ELSE topic

(* sanitizeQueueName takes the wildcards out (and spaces and slashes, which*)
(* are in no word here); the queue of a subscription is this and its group.*)
QueueName(topic) ==
    [i \in DOMAIN topic |-> IF topic[i] \in {"*", "#"} THEN "" ELSE topic[i]]

-----------------------------------------------------------------------------
Init == sub = {} /\ pub = {}

(* StartWorkers (with "#"), Subscribe, or the executor of Cron.            *)
Subscribe(ns, comp, pattern) ==
    /\ sub = {}
    /\ sub' = {[ns |-> ns, comp |-> comp, topic |-> BuildTopic(ns, comp, pattern)]}
    /\ UNCHANGED pub

(* Enqueue, bus.Publish, or the trigger of a Cron task.                    *)
Publish(ns, comp, name) ==
    /\ pub = {}
    /\ pub' = {[ns |-> ns, comp |-> comp, topic |-> BuildTopic(ns, comp, name)]}
    /\ UNCHANGED sub

Next ==
    \E ns \in Namespaces, comp \in Components :
        \/ \E p \in Names(Words \cup {"*", "#"}) : Subscribe(ns, comp, p)
        \/ \E n \in Names(Words) : Publish(ns, comp, n)

Spec == Init /\ [][Next]_vars

-----------------------------------------------------------------------------
(* The meaning of a pattern: for each "#" one can choose the word of the   *)
(* topic after which it ends so that the pattern covers the topic exactly  *)
(* and every other word of it falls on an equal word, or on any word for   *)
(* "*".                                                                    *)
Hashes(pattern) == {i \in DOMAIN pattern : pattern[i] = "#"}

(* The last "#" among the first i words of a pattern, 0 when there is none.*)
LastHash(pattern, i) == Max(({0} \cup Hashes(pattern)) \cap 0..i)

(* Where the first i words of a pattern end when each "#" ends at until.   *)
End(pattern, until, i) ==
    LET h == LastHash(pattern, i) IN IF h = 0 THEN i ELSE until[h] + (i - h)

Denotes(pattern, topic) ==
    \E until \in [Hashes(pattern) -> 0..Len(topic)] :
        /\ End(pattern, until, Len(pattern)) = Len(topic)
        /\ \A i \in Hashes(pattern) : End(pattern, until, i - 1) <= until[i]
        /\ \A i \in DOMAIN pattern \ Hashes(pattern) :
              LET at == End(pattern, until, i)
              IN at \in DOMAIN topic /\ pattern[i] \in {"*", topic[at]}

(* A message is on the stream its subscribers read: a pattern and a topic  *)
(* it denotes are mapped to one stream, although the mapping never looks   *)
(* at wildcards.                                                           *)
MatchedIsRead ==
    \A s \in sub, p \in pub :
        Denotes(s.topic, p.topic) => StreamForTopic(s.topic) = StreamForTopic(p.topic)

Owner(x) == IF x.comp = "global" THEN <<"global">> ELSE <<Namespace(x.ns), x.comp>>

(* A namespace New accepts and redisStreamForTopic takes for a component.  *)
NamedAfterComponent(x) == x.comp # "global" /\ Namespace(x.ns) \in ComponentTokens

(* Namespaces and components keep apart: a subscription neither denotes    *)
(* nor shares a stream with what another one publishes, and on RabbitMQ    *)
(* shares no queue with a subscription to it, whatever group they give, as *)
(* long as neither namespace is named after a component                    *)
(* (redis_adapter.go:85).                                                  *)
Isolated ==
    \A s \in sub, p \in pub :
        /\ ~NamedAfterComponent(s) /\ ~NamedAfterComponent(p)
        /\ \/ Denotes(s.topic, p.topic)
           \/ StreamForTopic(s.topic) = StreamForTopic(p.topic)
           \/ QueueName(s.topic) = QueueName(p.topic)
        => Owner(s) = Owner(p)
=============================================================================
