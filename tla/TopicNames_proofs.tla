-------------------------- MODULE TopicNames_proofs --------------------------
(* Proofs of TopicNames: every message is on the stream of whoever its     *)
(* pattern denotes it to, and namespaces and components keep apart.        *)
EXTENDS TopicNames, TLAPS

(***************************************************************************)
(* The invariant: what is subscribed to or published was built by          *)
(* BuildTopic from a namespace and a component of the constants.           *)
(***************************************************************************)
Uses(words) == {[ns |-> ns, comp |-> comp, topic |-> BuildTopic(ns, comp, name)] :
                    ns \in Namespaces, comp \in Components, name \in Names(words)}

Built == sub \subseteq Uses(Words \cup {"*", "#"}) /\ pub \subseteq Uses(Words)

THEOREM BuiltInvariant == Spec => []Built
<1>1. Init => Built
  BY DEF Init, Built
<1>2. Built /\ [Next]_vars => Built'
  <2> SUFFICES ASSUME Built, [Next]_vars PROVE Built'
    OBVIOUS
  <2>1. CASE UNCHANGED vars
    BY <2>1 DEF Built, vars
  <2>2. ASSUME NEW ns \in Namespaces, NEW comp \in Components,
               NEW p \in Names(Words \cup {"*", "#"}), Subscribe(ns, comp, p)
        PROVE  Built'
    BY <2>2 DEF Built, Subscribe, Uses, Names
  <2>3. ASSUME NEW ns \in Namespaces, NEW comp \in Components,
               NEW n \in Names(Words), Publish(ns, comp, n)
        PROVE  Built'
    BY <2>3 DEF Built, Publish, Uses, Names
  <2> QED
    BY <2>1, <2>2, <2>3 DEF Next
<1> QED
  BY <1>1, <1>2, PTL DEF Spec

(***************************************************************************)
(* What a built topic looks like.                                          *)
(***************************************************************************)
Scope(x) == IF x.comp = "global" THEN 2 ELSE 3

(* A topic is a sequence of three words or more that starts with the words *)
(* of its prefix, none of which is a wildcard.                             *)
LEMMA TopicShape ==
    ASSUME NEW words, NEW x \in Uses(words)
    PROVE  /\ x.comp \in ComponentTokens \cup {"global"}
           /\ DOMAIN x.topic = 1..Len(x.topic)
           /\ Len(x.topic) \in Nat /\ Len(x.topic) >= 3
           /\ x.topic[1] = "taskbus"
           /\ x.comp = "global" => x.topic[2] = "event"
           /\ x.comp # "global" =>
                 /\ x.topic[2] = Namespace(x.ns) /\ x.topic[3] = x.comp
                 /\ x.topic[2] \notin {"*", "#", ""}
<1>1. PICK ns \in Namespaces, comp \in Components, name \in Names(words) :
         x = [ns |-> ns, comp |-> comp, topic |-> BuildTopic(ns, comp, name)]
  BY DEF Uses
<1>2. PICK n \in 1..MaxWords : name \in [1..n -> words]
  BY DEF Names
<1>3. name \in Seq(words) /\ Len(name) = n /\ n \in Nat /\ n >= 1
  <2>1. MaxWords \in Nat
    BY ConstantsAssumption
  <2>2. n \in Nat /\ n >= 1
    BY <1>2, <2>1
  <2> QED
    BY <1>2, <2>2
<1>4. x.comp = comp /\ x.ns = ns /\ x.topic = TopicPrefix(ns, comp) \o name
  BY <1>1 DEF BuildTopic
<1>5. comp \in ComponentTokens \cup {"global"}
  BY ConstantsAssumption
<1>6. Namespace(ns) \notin {"*", "#", ""}
  BY ConstantsAssumption DEF Namespace
<1>7. CASE comp = "global"
  BY <1>3, <1>4, <1>5, <1>7 DEF TopicPrefix
<1>8. CASE comp # "global"
  <2> DEFINE prefix == <<"taskbus", Namespace(ns), comp>>
  <2>1. x.topic = prefix \o name
    BY <1>4, <1>8 DEF TopicPrefix
  <2>2. /\ Len(x.topic) = 3 + n /\ DOMAIN x.topic = 1..(3 + n)
        /\ x.topic[1] = "taskbus" /\ x.topic[2] = Namespace(ns) /\ x.topic[3] = comp
    <3> HIDE DEF Namespace
    <3> QED
      BY <1>3, <2>1
  <2> QED
    <3>1. x.comp = comp /\ comp # "global" /\ comp \in ComponentTokens
      BY <1>4, <1>5, <1>8
    <3>2. x.ns = ns
      BY <1>4
    <3>3. Len(x.topic) \in Nat /\ Len(x.topic) >= 3 /\ DOMAIN x.topic = 1..Len(x.topic)
      BY <1>3, <2>2
    <3> QED
      BY <1>6, <2>2, <3>1, <3>2, <3>3
<1> QED
  BY <1>7, <1>8

(* Up to its first "#", the words of a pattern stand at their own places.  *)
LEMMA EndBeforeHash ==
    ASSUME NEW pattern, NEW until, NEW i \in Nat, Hashes(pattern) \cap 0..i = {}
    PROVE  End(pattern, until, i) = i
<1>1. ({0} \cup Hashes(pattern)) \cap 0..i = {0}
  OBVIOUS
<1>2. Max({0}) = 0
  BY DEF Max
<1>3. LastHash(pattern, i) = 0
  BY <1>1, <1>2 DEF LastHash
<1> QED
  BY <1>3 DEF End

(* A pattern denotes topics that start with the words of its prefix.       *)
LEMMA PrefixKept ==
    ASSUME NEW words, NEW x \in Uses(words), NEW topic,
           DOMAIN topic = 1..Len(topic), Denotes(x.topic, topic)
    PROVE  \A i \in 1..Scope(x) : i \in DOMAIN topic /\ topic[i] = x.topic[i]
<1> DEFINE pattern == x.topic
<1>1. /\ DOMAIN pattern = 1..Len(pattern) /\ Len(pattern) \in Nat /\ Len(pattern) >= 3
      /\ \A i \in 1..Scope(x) : pattern[i] \notin {"*", "#"}
  <2>1. /\ DOMAIN pattern = 1..Len(pattern) /\ Len(pattern) \in Nat /\ Len(pattern) >= 3
        /\ pattern[1] = "taskbus" /\ pattern[2] \notin {"*", "#"}
    BY TopicShape
  <2>2. x.comp # "global" => pattern[3] \notin {"*", "#"}
    BY TopicShape DEF ComponentTokens
  <2>3. ASSUME NEW i \in 1..Scope(x) PROVE pattern[i] \notin {"*", "#"}
    <3>1. i \in {1, 2} \/ (i = 3 /\ x.comp # "global")
      BY DEF Scope
    <3> QED
      BY <2>1, <2>2, <3>1
  <2> QED
    BY <2>1, <2>3
<1>2. PICK until \in [Hashes(pattern) -> 0..Len(topic)] :
         \A i \in DOMAIN pattern \ Hashes(pattern) :
            LET at == End(pattern, until, i)
            IN at \in DOMAIN topic /\ pattern[i] \in {"*", topic[at]}
  BY DEF Denotes
<1> SUFFICES ASSUME NEW i \in 1..Scope(x)
             PROVE  i \in DOMAIN topic /\ topic[i] = pattern[i]
  OBVIOUS
<1>3. i \in Nat /\ i \in DOMAIN pattern /\ 1..i \subseteq 1..Scope(x)
  BY <1>1 DEF Scope
<1>4. \A j \in 1..i : j \notin Hashes(pattern)
  BY <1>1, <1>3 DEF Hashes
<1>5. Hashes(pattern) \cap 0..i = {}
  BY <1>1, <1>3, <1>4 DEF Hashes
<1>6. End(pattern, until, i) = i
  BY <1>3, <1>5, EndBeforeHash
<1>7. i \in DOMAIN pattern \ Hashes(pattern)
  BY <1>1, <1>3 DEF Hashes
<1>8. i \in DOMAIN topic /\ pattern[i] \in {"*", topic[i]}
  BY <1>2, <1>6, <1>7
<1> QED
  BY <1>1, <1>8

(***************************************************************************)
(* The stream of a topic names the component and, unless the first word    *)
(* after "taskbus" is one itself, the namespace.                           *)
(***************************************************************************)
LEMMA StreamOfTopic ==
    ASSUME NEW words, NEW x \in Uses(words)
    PROVE  StreamForTopic(x.topic) =
              IF x.topic[2] \in ComponentTokens THEN <<"taskbus", x.topic[2]>>
              ELSE <<"taskbus", Namespace(x.ns), x.comp>>
<1>1. x.topic[2] \notin ComponentTokens => x.comp # "global"
  BY TopicShape DEF ComponentTokens
<1>2. x.comp # "global" => x.topic[2] = Namespace(x.ns) /\ x.topic[3] = x.comp
                           /\ x.comp \in ComponentTokens
  BY TopicShape
<1>3. x.topic[1] = "taskbus" /\ Len(x.topic) \in Nat /\ Len(x.topic) >= 3
  BY TopicShape
<1>4. CASE x.topic[2] \in ComponentTokens
  BY <1>3, <1>4 DEF StreamForTopic, IsComponentToken
<1>5. CASE x.topic[2] \notin ComponentTokens
  BY <1>1, <1>2, <1>3, <1>5 DEF StreamForTopic, IsComponentToken
<1> QED
  BY <1>4, <1>5

(***************************************************************************)
(* Every subscriber reads the stream of every message its pattern denotes, *)
(* whatever the namespaces, those named after a component included.        *)
(***************************************************************************)
THEOREM MatchedIsReadHolds == Spec => []MatchedIsRead
<1>1. Built => MatchedIsRead
  <2> SUFFICES ASSUME Built, NEW s \in sub, NEW p \in pub, Denotes(s.topic, p.topic)
               PROVE  StreamForTopic(s.topic) = StreamForTopic(p.topic)
    BY DEF MatchedIsRead
  <2>1. s \in Uses(Words \cup {"*", "#"}) /\ p \in Uses(Words)
    BY DEF Built
  <2>2. DOMAIN p.topic = 1..Len(p.topic)
    BY <2>1, TopicShape
  <2>3. \A i \in 1..Scope(s) : p.topic[i] = s.topic[i]
    BY <2>1, <2>2, PrefixKept
  <2>4. p.topic[2] = s.topic[2]
    BY <2>3 DEF Scope
  <2>5. CASE s.topic[2] \in ComponentTokens
    BY <2>1, <2>4, <2>5, StreamOfTopic
  <2>6. CASE s.topic[2] \notin ComponentTokens
    <3>1. s.comp # "global" /\ p.comp # "global"
      BY <2>1, <2>4, <2>6, TopicShape DEF ComponentTokens
    <3>2. p.topic[3] = s.topic[3]
      BY <2>3, <3>1 DEF Scope
    <3>3. Namespace(s.ns) = Namespace(p.ns) /\ s.comp = p.comp
      BY <2>1, <2>4, <3>1, <3>2, TopicShape
    <3> QED
      BY <2>1, <2>4, <2>6, <3>3, StreamOfTopic
  <2> QED
    BY <2>5, <2>6
<1> QED
  BY <1>1, BuiltInvariant, PTL

(***************************************************************************)
(* When no namespace is named after a component, the second word says      *)
(* whether the topic is global, and with the third it names the owner.     *)
(***************************************************************************)
LEMMA SecondWord ==
    ASSUME NEW words, NEW x \in Uses(words), ~NamedAfterComponent(x)
    PROVE  x.comp = "global" <=> x.topic[2] \in ComponentTokens
BY TopicShape DEF NamedAfterComponent, ComponentTokens

LEMMA SameWordsSameOwner ==
    ASSUME NEW words, NEW x \in Uses(words), ~NamedAfterComponent(x),
           NEW others, NEW y \in Uses(others), ~NamedAfterComponent(y),
           x.topic[2] = y.topic[2], x.comp # "global" => x.topic[3] = y.topic[3]
    PROVE  Owner(x) = Owner(y)
<1>1. x.comp = "global" <=> y.comp = "global"
  BY SecondWord
<1>2. CASE x.comp = "global"
  BY <1>1, <1>2 DEF Owner
<1>3. CASE x.comp # "global"
  <2>1. Namespace(x.ns) = Namespace(y.ns) /\ x.comp = y.comp
    BY <1>1, <1>3, TopicShape
  <2> QED
    BY <1>1, <1>3, <2>1 DEF Owner
<1> QED
  BY <1>2, <1>3

(***************************************************************************)
(* Namespaces and components share no message, no stream and no queue, as  *)
(* long as none is named after a component.                                *)
(***************************************************************************)
THEOREM IsolatedHolds == Spec => []Isolated
<1>1. Built => Isolated
  <2> SUFFICES ASSUME Built, NEW s \in sub, NEW p \in pub,
                      ~NamedAfterComponent(s), ~NamedAfterComponent(p),
                      \/ Denotes(s.topic, p.topic)
                      \/ StreamForTopic(s.topic) = StreamForTopic(p.topic)
                      \/ QueueName(s.topic) = QueueName(p.topic)
               PROVE  Owner(s) = Owner(p)
    BY DEF Isolated
  <2>1. s \in Uses(Words \cup {"*", "#"}) /\ p \in Uses(Words)
    BY DEF Built
  <2>2. /\ DOMAIN s.topic = 1..Len(s.topic) /\ Len(s.topic) \in Nat /\ Len(s.topic) >= 3
        /\ DOMAIN p.topic = 1..Len(p.topic) /\ Len(p.topic) \in Nat /\ Len(p.topic) >= 3
    BY <2>1, TopicShape
  <2>3. CASE Denotes(s.topic, p.topic)
    <3>1. \A i \in 1..Scope(s) : p.topic[i] = s.topic[i]
      BY <2>1, <2>2, <2>3, PrefixKept
    <3>2. s.topic[2] = p.topic[2] /\ (s.comp # "global" => s.topic[3] = p.topic[3])
      BY <3>1 DEF Scope
    <3> QED
      BY <2>1, <3>2, SameWordsSameOwner
  <2>4. CASE StreamForTopic(s.topic) = StreamForTopic(p.topic)
    <3> DEFINE Stream(x) == IF x.comp = "global" THEN <<"taskbus", "event">>
                            ELSE <<"taskbus", Namespace(x.ns), x.comp>>
    <3>1. StreamForTopic(s.topic) = Stream(s)
      BY <2>1, SecondWord, StreamOfTopic, TopicShape
    <3>2. StreamForTopic(p.topic) = Stream(p)
      BY <2>1, SecondWord, StreamOfTopic, TopicShape
    <3>3. Stream(s) = Stream(p)
      BY <2>4, <3>1, <3>2
    <3> HIDE DEF Stream
    <3>4. Len(Stream(s)) = Len(Stream(p)) /\ Stream(s)[2] = Stream(p)[2]
          /\ Stream(s)[3] = Stream(p)[3]
      BY <3>3
    <3> USE DEF Stream
    <3>5. CASE s.comp = "global" /\ p.comp = "global"
      BY <3>5 DEF Owner
    <3>6. CASE s.comp # "global" /\ p.comp # "global"
      BY <3>4, <3>6 DEF Owner
    <3>7. CASE (s.comp = "global") # (p.comp = "global")
      BY <3>4, <3>7
    <3> QED
      BY <3>5, <3>6, <3>7
  <2>5. CASE QueueName(s.topic) = QueueName(p.topic)
    <3> DEFINE Word(topic, i) == IF topic[i] \in {"*", "#"} THEN "" ELSE topic[i]
    <3>1. \A i \in {2, 3} : Word(s.topic, i) = Word(p.topic, i)
      <4>1. DOMAIN QueueName(s.topic) = DOMAIN s.topic
        BY DEF QueueName
      <4> SUFFICES ASSUME NEW i \in {2, 3} PROVE Word(s.topic, i) = Word(p.topic, i)
        OBVIOUS
      <4>2. i \in DOMAIN s.topic /\ i \in DOMAIN p.topic
        BY <2>2
      <4> QED
        BY <2>5, <4>2 DEF QueueName
    <3>2. s.topic[2] \notin {"*", "#", ""} /\ p.topic[2] \notin {"*", "#", ""}
      BY <2>1, TopicShape
    <3>3. s.topic[2] = p.topic[2]
      <4>1. Word(s.topic, 2) = Word(p.topic, 2)
        BY <3>1
      <4> QED
        BY <3>2, <4>1
    <3>4. ASSUME s.comp # "global" PROVE s.topic[3] = p.topic[3]
      <4>1. p.comp # "global"
        BY <2>1, <3>3, <3>4, SecondWord
      <4>2. s.topic[3] \notin {"*", "#", ""} /\ p.topic[3] \notin {"*", "#", ""}
        BY <2>1, <3>4, <4>1, TopicShape DEF ComponentTokens
      <4>3. Word(s.topic, 3) = Word(p.topic, 3)
        BY <3>1
      <4> QED
        BY <4>2, <4>3
    <3> QED
      BY <2>1, <3>3, <3>4, SameWordsSameOwner
  <2> QED
    BY <2>3, <2>4, <2>5
<1> QED
  BY <1>1, BuiltInvariant, PTL
=============================================================================
