--------------------------- MODULE Workers_proofs ---------------------------
(* Theorems about Workers, for every value of its constants.               *)
EXTENDS Workers, FiniteSetTheorems, TLAPS

Groups == Names \cup {EmptyName, DefaultGroup, Main} \cup Streams

Consumer == [group: Groups, state: {"running", "cancelled", "cut", "done"}]

Positive == Nat \ {0}

(* Types, and what belongs to a phase: before "open" there is no consumer, *)
(* and only the undo and the stop function wait, for a consumer there is.  *)
TypeInv ==
    /\ call \in {"none", "workers", "subscribe", "client"}
    /\ phase \in {"idle", "normalize", "open", "ready", "undo", "stopping", "failed", "stopped"}
    /\ consumers \in Seq(Consumer)
    /\ phase \in {"idle", "normalize"} => consumers = <<>>
    /\ walker \in Positive
    /\ waiting \in BOOLEAN
    /\ waiting => phase \in {"undo", "stopping"} /\ walker \in DOMAIN consumers

(* The map the caller gave, and what normalizeGroups has made of the names *)
(* it has looked at: each of their groups, with the largest of its sizes.  *)
GivenInv ==
    /\ DOMAIN given \subseteq Groups
    /\ \A n \in DOMAIN given : given[n] \in Int
    /\ todo \subseteq DOMAIN given
    /\ phase = "idle" => DOMAIN given = {} /\ DOMAIN resolved = {}
    /\ phase # "normalize" => todo = {}
    /\ DOMAIN given # {} <=> call = "workers"

Seen == DOMAIN given \ todo

ResolvedInv ==
    /\ resolved \in [DOMAIN resolved -> Positive]
    /\ DOMAIN resolved \subseteq Groups
    /\ call = "workers" =>
          /\ DOMAIN resolved = {ResolveGroup(n) : n \in Seen}
          /\ \A g \in DOMAIN resolved :
                /\ \E n \in Seen : ResolveGroup(n) = g /\ Size(given[n]) = resolved[g]
                /\ \A n \in Seen : ResolveGroup(n) = g => Size(given[n]) <= resolved[g]

(* The consumers of a call that has opened all it meant to.                *)
CountedInv ==
    /\ \A k \in DOMAIN consumers : consumers[k].group \in DOMAIN resolved
    /\ phase \in {"ready", "stopping", "stopped"} /\ call = "workers" =>
          \A g \in DOMAIN resolved : Opened(g) = resolved[g]

(* The consumers that the undo or the stop function has passed.            *)
Ended(k) ==
    /\ consumers[k].state # "running"
    /\ \/ ctxDone \/ expired
       \/ Waits(consumers[k]) => consumers[k].state \in {"done", "cut"}

Passed(k) ==
    \/ phase = "stopped" \/ (phase = "failed" /\ call # "client")
    \/ phase \in {"undo", "stopping"} /\ k < walker

WalkedInv ==
    /\ \A k \in DOMAIN consumers : Passed(k) => Ended(k)
    /\ waiting => consumers[walker].state # "running"

(* The inductive invariant.                                                *)
WorkersInv == TypeInv /\ GivenInv /\ ResolvedInv /\ CountedInv /\ WalkedInv

LEMMA InvInit == Init => WorkersInv
  <1> SUFFICES ASSUME Init PROVE WorkersInv
    OBVIOUS
  <1>0. DOMAIN given = {} /\ DOMAIN resolved = {}
    BY DEF Init, NoGroups
  <1>1. TypeInv /\ GivenInv
    <2>1. TypeInv
      <3>1. <<>> \in Seq(Consumer) /\ 1 \in Positive
        BY DEF Positive
      <3> QED
        BY <3>1 DEF Init, TypeInv
    <2>2. GivenInv
      BY <1>0 DEF Init, GivenInv
    <2> QED
      BY <2>1, <2>2
  <1>2. ResolvedInv
    BY DEF Init, ResolvedInv, Positive, NoGroups
  <1>3. CountedInv /\ WalkedInv
    BY DEF Init, CountedInv, WalkedInv
  <1> QED
    BY <1>1, <1>2, <1>3 DEF WorkersInv

LEMMA SizeIsPositive == \A s \in Int : Size(s) \in Positive
  BY DEF Size, Positive

LEMMA ConsumerFields ==
    ASSUME TypeInv
    PROVE  /\ DOMAIN consumers = 1..Len(consumers) /\ Len(consumers) \in Nat
           /\ \A k \in DOMAIN consumers :
                 /\ consumers[k] \in Consumer
                 /\ consumers[k].group \in Groups
                 /\ consumers[k].state \in {"running", "cancelled", "cut", "done"}
  <1>1. consumers \in Seq(Consumer)
    BY DEF TypeInv
  <1>2. /\ DOMAIN consumers = 1..Len(consumers) /\ Len(consumers) \in Nat
        /\ \A k \in DOMAIN consumers : consumers[k] \in Consumer
    BY <1>1
  <1> QED
    BY <1>2 DEF Consumer

(* The consumers stay where they are and go on: none starts to run again,  *)
(* and what has ended has ended.                                           *)
GoesOn(c, d) ==
    /\ d \in Consumer
    /\ d.group = c.group
    /\ c.state # "running" => d.state # "running"
    /\ c.state \in {"done", "cut"} => d.state \in {"done", "cut"}

Aged ==
    /\ DOMAIN consumers' = DOMAIN consumers
    /\ consumers' = [k \in DOMAIN consumers |-> consumers'[k]]
    /\ \A k \in DOMAIN consumers : GoesOn(consumers[k], consumers'[k])

LEMMA AgedSteps ==
    ASSUME TypeInv,
           \/ consumers' = consumers
           \/ CancelNext
           \/ CloseFails
           \/ \E k \in DOMAIN consumers : Finish(k) \/ Break(k)
           \/ CancelCtx
    PROVE  Aged /\ consumers' \in Seq(Consumer)
  <1>1. CASE consumers' = consumers
    <2>1. consumers' = [k \in DOMAIN consumers |-> consumers'[k]]
      BY <1>1, ConsumerFields DEF TypeInv
    <2> QED
      BY <1>1, <2>1, ConsumerFields DEF Aged, GoesOn, TypeInv
  <1>2. CASE CancelNext
    <2>1. /\ walker \in DOMAIN consumers
          /\ consumers' = [consumers EXCEPT ![walker].state = Cancelled(@)]
      BY <1>2 DEF CancelNext, AfterCancel
    <2>2. /\ DOMAIN consumers' = DOMAIN consumers
          /\ consumers' = [k \in DOMAIN consumers |-> consumers'[k]]
          /\ \A k \in DOMAIN consumers : GoesOn(consumers[k], consumers'[k])
      BY <2>1, ConsumerFields DEF Cancelled, Consumer, GoesOn
    <2> QED
      BY <2>2, ConsumerFields DEF Aged, GoesOn
  <1>3. CASE \E k \in DOMAIN consumers : Finish(k) \/ Break(k)
    <2>1. PICK j \in DOMAIN consumers : Finish(j) \/ Break(j)
      BY <1>3
    <2>2. \/ consumers' = [consumers EXCEPT ![j].state = "done"]
          \/ /\ consumers[j].state = "running"
             /\ consumers' = [consumers EXCEPT ![j].state = "cancelled"]
      BY <2>1 DEF Finish, Break
    <2>3. /\ DOMAIN consumers' = DOMAIN consumers
          /\ consumers' = [k \in DOMAIN consumers |-> consumers'[k]]
          /\ \A k \in DOMAIN consumers : GoesOn(consumers[k], consumers'[k])
      BY <2>2, ConsumerFields DEF Consumer, GoesOn
    <2> QED
      BY <2>3, ConsumerFields DEF Aged, GoesOn
  <1>4. CASE CancelCtx
    <2>1. consumers' = [k \in DOMAIN consumers |->
                           [consumers[k] EXCEPT !.state = Cancelled(@)]]
      BY <1>4 DEF CancelCtx
    <2>2. /\ DOMAIN consumers' = DOMAIN consumers
          /\ consumers' = [k \in DOMAIN consumers |-> consumers'[k]]
          /\ \A k \in DOMAIN consumers : GoesOn(consumers[k], consumers'[k])
      BY <2>1, ConsumerFields DEF Cancelled, Consumer, GoesOn
    <2> QED
      BY <2>2, ConsumerFields DEF Aged, GoesOn
  <1>5. CASE CloseFails
    <2>1. /\ walker \in DOMAIN consumers
          /\ consumers' = [consumers EXCEPT ![walker].state = CutOff(@)]
      BY <1>5 DEF CloseFails
    <2>2. /\ DOMAIN consumers' = DOMAIN consumers
          /\ consumers' = [k \in DOMAIN consumers |-> consumers'[k]]
          /\ \A k \in DOMAIN consumers : GoesOn(consumers[k], consumers'[k])
      BY <2>1, ConsumerFields DEF CutOff, Consumer, GoesOn
    <2> QED
      BY <2>2, ConsumerFields DEF Aged, GoesOn
  <1> QED
    BY <1>1, <1>2, <1>3, <1>4, <1>5

(* One more, and Close, which puts them into another order.                *)
LEMMA OpenSteps ==
    ASSUME TypeInv, ResolvedInv, CountedInv, NEW g \in DOMAIN resolved, Open(g)
    PROVE  /\ consumers' \in Seq(Consumer)
           /\ \A k \in DOMAIN consumers' : consumers'[k].group \in DOMAIN resolved
  <1> DEFINE new == [group |-> g, state |-> IF ctxDone THEN "cancelled" ELSE "running"]
  <1>1. consumers' = Append(consumers, new) /\ new.group = g
    BY DEF Open
  <1>2. new \in Consumer
    BY DEF Consumer, ResolvedInv
  <1> HIDE DEF new
  <1>3. /\ consumers' \in Seq(Consumer)
        /\ \A k \in DOMAIN consumers' :
              (k \in DOMAIN consumers /\ consumers'[k] = consumers[k]) \/ consumers'[k] = new
    BY <1>1, <1>2, ConsumerFields DEF TypeInv
  <1> QED
    BY <1>1, <1>3 DEF CountedInv

LEMMA CloseSteps ==
    ASSUME TypeInv, Close
    PROVE  /\ consumers' \in Seq(Consumer)
           /\ DOMAIN consumers' = DOMAIN consumers
           /\ \A k \in DOMAIN consumers : \E j \in DOMAIN consumers : consumers'[k] = consumers[j]
  <1>1. PICK order \in CloseOrders : consumers' = [k \in DOMAIN consumers |-> consumers[order[k]]]
    BY DEF Close
  <1>2. order \in [DOMAIN consumers -> DOMAIN consumers]
    BY DEF CloseOrders, Bijection, Injection
  <1>3. \A k \in DOMAIN consumers : order[k] \in DOMAIN consumers
    BY <1>2
  <1>4. \A k \in DOMAIN consumers : consumers'[k] = consumers[order[k]] /\ consumers'[k] \in Consumer
    BY <1>1, <1>3, ConsumerFields
  <1>5. consumers' = [k \in 1..Len(consumers) |-> consumers'[k]]
    BY <1>1, ConsumerFields
  <1> QED
    BY <1>1, <1>3, <1>4, <1>5, ConsumerFields

LEMMA TypeNext ==
    ASSUME WorkersInv, [Next]_vars
    PROVE  TypeInv'
  <1>0. TypeInv /\ ResolvedInv /\ CountedInv
    BY DEF WorkersInv
  <1>1. consumers' \in Seq(Consumer)
    <2>1. CASE \E g \in DOMAIN resolved : Open(g)
      BY <1>0, <2>1, OpenSteps
    <2>2. CASE Close
      BY <1>0, <2>2, CloseSteps
    <2>3. CASE \/ CancelNext \/ CloseFails \/ CancelCtx
               \/ \E k \in DOMAIN consumers : Finish(k) \/ Break(k)
      BY <1>0, <2>3, AgedSteps
    <2>4. CASE ~(\/ \E g \in DOMAIN resolved : Open(g)
                 \/ Close \/ CancelNext \/ CloseFails \/ CancelCtx
                 \/ \E k \in DOMAIN consumers : Finish(k) \/ Break(k))
      <3>1. consumers' = consumers
        BY <2>4 DEF Next, CallStep, StartWorkers, Normalize, Subscribe, New, OpenFails, Ready,
                    Stop, WaitNext, AllStopped, Use, Leave, Expire, vars
      <3> QED
        BY <1>0, <3>1 DEF TypeInv
    <2> QED
      BY <2>1, <2>2, <2>3, <2>4
  <1>2. CASE \/ \E ns \in SUBSET Names : \E groups \in [ns -> Sizes] : StartWorkers(groups)
             \/ \E g \in Names, c \in Sizes : Subscribe(g, c)
             \/ \E streams \in SUBSET Streams : New(streams)
             \/ \E n \in todo : Normalize(n)
    <2>1. /\ UNCHANGED <<consumers, walker, waiting>>
          /\ call' \in {"workers", "subscribe", "client", call}
          /\ phase \in {"idle", "normalize"} /\ phase' \in {"normalize", "open"}
      BY <1>2 DEF StartWorkers, Subscribe, New, Normalize, stopVars
    <2> QED
      BY <1>0, <1>1, <2>1 DEF TypeInv
  <1>3. CASE \/ \E g \in DOMAIN resolved : OpenFails(g)
             \/ Stop \/ Close
    <2>1. /\ UNCHANGED <<call, waiting>> /\ walker' = 1
          /\ phase \in {"open", "ready"} /\ phase' \in {"failed", "undo", "stopping"}
      BY <1>3 DEF OpenFails, Turn, FirstUndone, Stop, Close
    <2> QED
      BY <1>0, <1>1, <2>1 DEF TypeInv, Positive
  <1>4. CASE \/ \E g \in DOMAIN resolved : Open(g)
             \/ Ready
             \/ \E a \in Streams \cup {Main} : Use(a)
    <2>1. /\ UNCHANGED <<call, waiting, walker>>
          /\ phase \in {"open", "ready"} /\ phase' \in {"open", "ready"}
      BY <1>4 DEF Open, Turn, Ready, Use, callVars, stopVars
    <2> QED
      BY <1>0, <1>1, <2>1 DEF TypeInv
  <1>5. CASE CancelNext \/ (\E k \in DOMAIN consumers : Finish(k) \/ Break(k)) \/ CancelCtx
    <2>1. DOMAIN consumers' = DOMAIN consumers
      BY <1>0, <1>5, AgedSteps DEF Aged
    <2>2. UNCHANGED <<call, phase, walker>>
      BY <1>5 DEF CancelNext, Finish, Break, CancelCtx, callVars, stopVars
    <2>3. \/ waiting' = waiting
          \/ waiting' = TRUE /\ phase \in {"undo", "stopping"} /\ walker \in DOMAIN consumers
      BY <1>5 DEF CancelNext, Finish, Break, CancelCtx, stopVars
    <2>4. phase \in {"idle", "normalize"} => consumers' = <<>>
      <3>1. CASE CancelNext \/ \E k \in DOMAIN consumers : Finish(k) \/ Break(k)
        BY <1>0, <3>1 DEF CancelNext, Finish, Break, TypeInv
      <3>2. CASE CancelCtx
        BY <1>0, <1>1, <2>1, <3>2, ConsumerFields DEF TypeInv
      <3> QED
        BY <1>5, <3>1, <3>2
    <2> QED
      <3>1. CASE waiting' = waiting
        BY <1>0, <1>1, <2>1, <2>2, <2>4, <3>1 DEF TypeInv
      <3>2. CASE waiting' = TRUE /\ phase \in {"undo", "stopping"} /\ walker \in DOMAIN consumers
        BY <1>0, <1>1, <2>1, <2>2, <2>4, <3>2 DEF TypeInv
      <3> QED
        BY <2>3, <3>1, <3>2
  <1>6. CASE WaitNext \/ AllStopped
    <2>1. /\ UNCHANGED <<call, consumers>>
          /\ phase \in {"undo", "stopping"} /\ phase' \in {phase, "failed", "stopped"}
          /\ walker' \in {walker, walker + 1} /\ waiting' = FALSE
      BY <1>0, <1>6 DEF WaitNext, AllStopped, callVars, stopVars, TypeInv
    <2>2. walker' \in Positive
      BY <1>0, <2>1 DEF TypeInv, Positive
    <2> QED
      BY <1>0, <1>1, <2>1, <2>2 DEF TypeInv
  <1>7. CASE \/ \E a \in Streams \cup {Main} : Leave(a)
             \/ Expire
             \/ UNCHANGED vars
    <2>1. UNCHANGED <<call, phase, consumers, walker, waiting>>
      BY <1>7 DEF Leave, Expire, vars, callVars, stopVars
    <2> QED
      BY <1>0, <1>1, <2>1 DEF TypeInv
  <1>8. CASE CloseFails
    <2>1. /\ UNCHANGED <<call, phase>>
          /\ phase \in {"undo", "stopping"}
          /\ ~waiting' /\ waiting' \in BOOLEAN /\ walker' = walker + 1
      BY <1>0, <1>8 DEF CloseFails, callVars, TypeInv
    <2>2. walker' \in Positive
      BY <1>0, <2>1 DEF TypeInv, Positive
    <2> QED
      BY <1>0, <1>1, <2>1, <2>2 DEF TypeInv
  <1> QED
    BY <1>2, <1>3, <1>4, <1>5, <1>6, <1>7, <1>8 DEF Next, CallStep

(* normalizeGroups looks at one more name.                                 *)
LEMMA NormalizeStep ==
    ASSUME TypeInv, GivenInv, ResolvedInv, NEW n \in todo, Normalize(n)
    PROVE  GivenInv' /\ ResolvedInv'
  <1> DEFINE g == ResolveGroup(n)
             s == Size(given[n])
  <1>1. /\ UNCHANGED <<call, given>>
        /\ resolved' = Merged(resolved, g, s)
        /\ todo' = todo \ {n}
        /\ phase = "normalize"
        /\ phase' = IF todo' = {} THEN "open" ELSE "normalize"
    BY DEF Normalize
  <1>2. n \in DOMAIN given /\ call = "workers" /\ s \in Positive /\ g \in Groups
    BY SizeIsPositive DEF GivenInv, ResolveGroup, Groups
  <1>3. Seen' = Seen \cup {n} /\ n \notin Seen
    BY <1>1, <1>2 DEF Seen, GivenInv
  <1> HIDE DEF s
  <1>4. GivenInv'
    BY <1>1 DEF GivenInv
  <1>5. CASE g \in DOMAIN resolved /\ s <= resolved[g]
    <2>1. resolved' = resolved
      BY <1>1, <1>5 DEF Merged
    <2>2. DOMAIN resolved = {ResolveGroup(m) : m \in Seen'}
      BY <1>2, <1>3, <1>5 DEF ResolvedInv
    <2>3. s \in Nat /\ resolved[g] \in Nat /\ Size(given[n]) = s
      BY <1>2, <1>5 DEF ResolvedInv, Positive, s
    <2>4. ResolvedInv'
      BY <1>1, <1>2, <1>3, <1>5, <2>1, <2>2, <2>3 DEF ResolvedInv
    <2> QED
      BY <1>4, <2>4
  <1>6. CASE ~(g \in DOMAIN resolved /\ s <= resolved[g])
    <2>1. /\ DOMAIN resolved' = DOMAIN resolved \cup {g}
          /\ resolved'[g] = s
          /\ \A h \in DOMAIN resolved \ {g} : resolved'[h] = resolved[h]
          /\ resolved' = [h \in DOMAIN resolved' |-> resolved'[h]]
      <3>1. resolved' = With(resolved, g, s)
        BY <1>1, <1>6 DEF Merged
      <3>2. /\ DOMAIN resolved' = DOMAIN resolved \cup {g}
            /\ resolved'[g] = s
            /\ \A h \in DOMAIN resolved \ {g} : resolved'[h] = resolved[h]
        BY <3>1 DEF With
      <3>3. resolved' = [h \in DOMAIN resolved \cup {g} |-> resolved'[h]]
        BY <3>1 DEF With
      <3> QED
        BY <3>2, <3>3
    <2>2. \A h \in DOMAIN resolved : resolved[h] \in Positive
      BY DEF ResolvedInv
    <2>3. resolved' \in [DOMAIN resolved' -> Positive] /\ DOMAIN resolved' \subseteq Groups
      BY <1>2, <2>1, <2>2 DEF ResolvedInv
    <2>4. DOMAIN resolved' = {ResolveGroup(m) : m \in Seen'}
      BY <1>2, <1>3, <2>1 DEF ResolvedInv
    <2>5. ASSUME NEW h \in DOMAIN resolved'
          PROVE  /\ \E m \in Seen' : ResolveGroup(m) = h /\ Size(given[m]) = resolved'[h]
                 /\ \A m \in Seen' : ResolveGroup(m) = h => Size(given[m]) <= resolved'[h]
      <3>1. CASE h = g
        <4>1. \A m \in Seen : ResolveGroup(m) = g => Size(given[m]) <= s
          <5> SUFFICES ASSUME NEW m \in Seen, ResolveGroup(m) = g PROVE Size(given[m]) <= s
            OBVIOUS
          <5>1. g \in DOMAIN resolved /\ Size(given[m]) <= resolved[g]
            BY <1>2 DEF ResolvedInv
          <5>2. Size(given[m]) \in Nat /\ resolved[g] \in Nat /\ s \in Nat
            BY <1>2, <2>2, <5>1, SizeIsPositive DEF Positive, Seen, GivenInv
          <5> QED
            BY <1>6, <5>1, <5>2
        <4>2. Size(given[n]) = s /\ s <= s
          BY <1>2 DEF s, Positive
        <4> QED
          BY <1>3, <2>1, <3>1, <4>1, <4>2
      <3>2. CASE h # g
        BY <1>2, <1>3, <2>1, <2>5, <3>2 DEF ResolvedInv
      <3> QED
        BY <3>1, <3>2
    <2> QED
      BY <1>1, <1>4, <2>3, <2>4, <2>5 DEF ResolvedInv
  <1> QED
    BY <1>4, <1>5, <1>6

LEMMA MapsNext ==
    ASSUME WorkersInv, [Next]_vars
    PROVE  GivenInv' /\ ResolvedInv'
  <1>0. TypeInv /\ GivenInv /\ ResolvedInv
    BY DEF WorkersInv
  <1>1. ASSUME NEW ns \in SUBSET Names, NEW groups \in [ns -> Sizes], StartWorkers(groups)
        PROVE  GivenInv' /\ ResolvedInv'
    <2>1. /\ phase = "idle" /\ phase' = "normalize" /\ call' = "workers"
          /\ todo' = DOMAIN given' /\ resolved' = resolved
          /\ given' = IF DOMAIN groups = {} THEN With(groups, EmptyName, 1) ELSE groups
      BY <1>1 DEF StartWorkers
    <2>2. DOMAIN given' # {} /\ DOMAIN given' \subseteq Groups
      BY <2>1 DEF With, Groups
    <2>3. \A n \in DOMAIN given' : given'[n] \in Int
      <3>1. Sizes \subseteq Int /\ DOMAIN groups = ns
        BY ConstantsAssumption
      <3>2. CASE ns = {}
        <4>1. given' = [h \in {EmptyName} |-> 1]
          BY <2>1, <3>1, <3>2 DEF With
        <4> QED
          BY <4>1
      <3>3. CASE ns # {}
        <4>1. given' = groups
          BY <2>1, <3>1, <3>3
        <4> QED
          BY <3>1, <4>1
      <3> QED
        BY <3>2, <3>3
    <2>4. GivenInv'
      BY <2>1, <2>2, <2>3 DEF GivenInv
    <2>5. Seen' = {} /\ DOMAIN resolved = {}
      BY <1>0, <2>1 DEF Seen, GivenInv
    <2> QED
      BY <1>0, <2>1, <2>4, <2>5 DEF ResolvedInv
  <1>2. ASSUME phase = "idle", phase' = "open", call' \in {"subscribe", "client"},
               UNCHANGED <<given, todo>>,
               resolved' \in [DOMAIN resolved' -> Positive], DOMAIN resolved' \subseteq Groups
        PROVE  GivenInv' /\ ResolvedInv'
    <2>1. call # "workers" /\ DOMAIN given = {} /\ todo = {}
      BY <1>0, <1>2 DEF GivenInv
    <2> QED
      BY <1>0, <1>2, <2>1 DEF GivenInv, ResolvedInv
  <1>3. ASSUME NEW g \in Names, NEW c \in Sizes, Subscribe(g, c)
        PROVE  GivenInv' /\ ResolvedInv'
    <2>1. /\ phase = "idle" /\ phase' = "open" /\ call' = "subscribe"
          /\ resolved' = With(NoGroups, g, Size(c)) /\ UNCHANGED <<given, todo>>
      BY <1>3 DEF Subscribe
    <2>2. Size(c) \in Positive
      BY ConstantsAssumption, SizeIsPositive
    <2>3. resolved' = [h \in {g} |-> Size(c)]
      BY <2>1 DEF With, NoGroups
    <2> QED
      BY <1>2, <2>1, <2>2, <2>3 DEF Groups
  <1>4. ASSUME NEW streams \in SUBSET Streams, New(streams)
        PROVE  GivenInv' /\ ResolvedInv'
    <2>1. /\ phase = "idle" /\ phase' = "open" /\ call' = "client"
          /\ resolved' = With(StreamAdapters(streams), Main, 1) /\ UNCHANGED <<given, todo>>
      BY <1>4 DEF New
    <2>2. resolved' = [h \in streams \cup {Main} |-> 1]
      BY <2>1 DEF With, StreamAdapters
    <2> QED
      BY <1>2, <2>1, <2>2 DEF Groups, Positive
  <1>5. ASSUME UNCHANGED <<call, given, todo, resolved>>,
               phase' = "normalize" => phase = "normalize",
               phase' = "idle" => phase = "idle",
               phase = "normalize" => phase' = "normalize"
        PROVE  GivenInv' /\ ResolvedInv'
    BY <1>0, <1>5 DEF GivenInv, ResolvedInv, Seen
  <1>6. CASE \/ \E g \in DOMAIN resolved : Open(g) \/ OpenFails(g)
             \/ Ready \/ CancelNext \/ CloseFails \/ WaitNext \/ AllStopped \/ Stop \/ Close
    <2>1. /\ UNCHANGED <<call, given, todo, resolved>>
          /\ phase' \notin {"normalize", "idle"} \/ phase' = phase
          /\ phase # "normalize" \/ phase' = phase
      BY <1>6 DEF Open, OpenFails, Turn, Ready, CancelNext, CloseFails, WaitNext, AllStopped,
                  Stop, Close, callVars
    <2> QED
      BY <1>5, <2>1
  <1>7. CASE \/ \E a \in Streams \cup {Main} : Use(a) \/ Leave(a)
             \/ \E k \in DOMAIN consumers : Finish(k) \/ Break(k)
             \/ CancelCtx \/ Expire
             \/ UNCHANGED vars
    <2>1. UNCHANGED <<call, phase, given, todo, resolved>>
      BY <1>7 DEF Use, Leave, Finish, Break, CancelCtx, Expire, vars, callVars
    <2> QED
      BY <1>5, <2>1
  <1> QED
    BY <1>0, <1>1, <1>3, <1>4, <1>6, <1>7, NormalizeStep DEF Next, CallStep

(* A step that leaves every consumer in its group leaves the numbers.      *)
LEMMA SameNumbers ==
    ASSUME Aged
    PROVE  \A g : Opened(g)' = Opened(g)
  <1>1. \A k \in DOMAIN consumers : consumers'[k].group = consumers[k].group
    BY DEF Aged, GoesOn
  <1>2. ASSUME NEW g
        PROVE  {k \in DOMAIN consumers' : consumers'[k].group = g}
             = {k \in DOMAIN consumers : consumers[k].group = g}
    BY <1>1 DEF Aged
  <1> QED
    BY <1>2 DEF Opened

LEMMA CountedNext ==
    ASSUME WorkersInv, [Next]_vars
    PROVE  CountedInv'
  <1>0. TypeInv /\ GivenInv /\ ResolvedInv /\ CountedInv
    BY DEF WorkersInv
  <1>1. ASSUME Aged, DOMAIN resolved \subseteq DOMAIN resolved',
               phase' \in {"ready", "stopping", "stopped"} /\ call' = "workers" =>
                   /\ call = "workers" /\ resolved' = resolved
                   /\ \/ phase \in {"ready", "stopping", "stopped"}
                      \/ \A g \in DOMAIN resolved : Opened(g) = resolved[g]
        PROVE  CountedInv'
    <2>1. \A k \in DOMAIN consumers' : consumers'[k].group \in DOMAIN resolved'
      BY <1>0, <1>1 DEF CountedInv, Aged, GoesOn
    <2>2. ASSUME phase' \in {"ready", "stopping", "stopped"}, call' = "workers",
                 NEW g \in DOMAIN resolved'
          PROVE  Opened(g)' = resolved'[g]
      <3>1. resolved' = resolved /\ Opened(g) = resolved[g]
        BY <1>0, <1>1, <2>2 DEF CountedInv
      <3>2. Opened(g)' = Opened(g)
        BY <1>1, SameNumbers
      <3> QED
        BY <3>1, <3>2
    <2> QED
      BY <2>1, <2>2 DEF CountedInv
  <1>2. CASE \/ \E ns \in SUBSET Names : \E groups \in [ns -> Sizes] : StartWorkers(groups)
             \/ \E g \in Names, c \in Sizes : Subscribe(g, c)
             \/ \E streams \in SUBSET Streams : New(streams)
             \/ \E n \in todo : Normalize(n)
    <2>1. consumers' = consumers /\ phase' \in {"normalize", "open"} /\ consumers = <<>>
      BY <1>0, <1>2 DEF StartWorkers, Subscribe, New, Normalize, TypeInv
    <2> QED
      BY <2>1 DEF CountedInv
  <1>3. CASE \E g \in DOMAIN resolved : Open(g)
    <2>1. /\ \A k \in DOMAIN consumers' : consumers'[k].group \in DOMAIN resolved
          /\ phase' = "open" /\ resolved' = resolved
      BY <1>0, <1>3, OpenSteps DEF Open, Turn, callVars
    <2> QED
      BY <2>1 DEF CountedInv
  <1>4. CASE Close
    <2>1. call' = "client" /\ resolved' = resolved
      BY <1>4 DEF Close
    <2>2. \A k \in DOMAIN consumers' : consumers'[k].group \in DOMAIN resolved
      BY <1>0, <1>4, CloseSteps DEF CountedInv
    <2> QED
      BY <2>1, <2>2 DEF CountedInv
  <1>5. CASE \/ \E g \in DOMAIN resolved : OpenFails(g)
             \/ Ready \/ CancelNext \/ CloseFails \/ WaitNext \/ AllStopped \/ Stop
    <2>1. Aged
      <3>1. consumers' = consumers \/ CancelNext \/ CloseFails
        BY <1>5 DEF OpenFails, Ready, WaitNext, AllStopped, Stop
      <3> QED
        BY <1>0, <3>1, AgedSteps
    <2>2. resolved' = resolved /\ call' = call
      BY <1>5 DEF OpenFails, Ready, CancelNext, CloseFails, WaitNext, AllStopped, Stop, callVars
    <2>3. \/ phase' \in {"undo", "failed"}
          \/ phase \in {"ready", "stopping", "stopped"}
          \/ phase' = phase
          \/ \A g \in DOMAIN resolved : Opened(g) = resolved[g]
      BY <1>5 DEF OpenFails, Ready, CancelNext, CloseFails, WaitNext, AllStopped, Stop, callVars
    <2> QED
      BY <1>1, <2>1, <2>2, <2>3
  <1>6. CASE \/ \E a \in Streams \cup {Main} : Use(a) \/ Leave(a)
             \/ \E k \in DOMAIN consumers : Finish(k) \/ Break(k)
             \/ CancelCtx \/ Expire
             \/ UNCHANGED vars
    <2>1. UNCHANGED <<call, phase, resolved>>
      BY <1>6 DEF Use, Leave, Finish, Break, CancelCtx, Expire, vars, callVars
    <2>2. Aged
      <3>1. \/ consumers' = consumers \/ CancelCtx
            \/ \E k \in DOMAIN consumers : Finish(k) \/ Break(k)
        BY <1>6 DEF Use, Leave, Expire, vars
      <3> QED
        BY <1>0, <3>1, AgedSteps
    <2> QED
      BY <1>1, <2>1, <2>2
  <1> QED
    BY <1>2, <1>3, <1>4, <1>5, <1>6 DEF Next, CallStep

(* What the undo and the stop function have passed stays ended; they pass a*)
(* consumer they have cancelled once it has ended or time is up, and one   *)
(* whose channel cannot be closed at once.                                 *)
LEMMA WalkedNext ==
    ASSUME WorkersInv, [Next]_vars
    PROVE  WalkedInv'
  <1>0. TypeInv /\ WalkedInv
    BY DEF WorkersInv
  <1>1. ASSUME Aged, call' = call, ctxDone => ctxDone', expired => expired',
               NEW k \in DOMAIN consumers, Ended(k)
        PROVE  Ended(k)'
    BY <1>1 DEF Ended, Waits, Aged, GoesOn
  <1>2. CASE \/ \E ns \in SUBSET Names : \E groups \in [ns -> Sizes] : StartWorkers(groups)
             \/ \E g \in Names, c \in Sizes : Subscribe(g, c)
             \/ \E streams \in SUBSET Streams : New(streams)
             \/ \E n \in todo : Normalize(n)
    <2>1. consumers' = consumers /\ consumers = <<>> /\ ~waiting'
      BY <1>0, <1>2 DEF StartWorkers, Subscribe, New, Normalize, TypeInv, stopVars
    <2> QED
      BY <2>1 DEF WalkedInv
  <1>3. CASE \/ \E g \in DOMAIN resolved : Open(g) \/ OpenFails(g)
             \/ Ready \/ Stop \/ Close
    <2>a. phase \in {"open", "ready"} /\ waiting' = waiting
      BY <1>3 DEF Open, OpenFails, Turn, Ready, Stop, Close, stopVars
    <2>b. \/ phase' \in {"open", "ready"}
          \/ phase' = "failed" /\ call' = "client"
          \/ phase' \in {"undo", "stopping"} /\ walker' = 1
      <3>1. CASE \E g \in DOMAIN resolved : OpenFails(g)
        BY <3>1 DEF OpenFails, FirstUndone
      <3>2. CASE (\E g \in DOMAIN resolved : Open(g)) \/ Ready
        BY <2>a, <3>2 DEF Open, Ready, callVars
      <3>3. CASE Stop \/ Close
        BY <3>3 DEF Stop, Close
      <3> QED
        BY <1>3, <3>1, <3>2, <3>3
    <2>1. /\ ~waiting'
          /\ \/ phase' \in {"open", "ready"}
             \/ phase' = "failed" /\ call' = "client"
             \/ phase' \in {"undo", "stopping"} /\ walker' = 1
      BY <1>0, <2>a, <2>b DEF TypeInv
    <2>2. \A k \in DOMAIN consumers' : k \in Nat /\ ~(k < 1)
      <3>1. consumers' \in Seq(Consumer)
        BY TypeNext DEF TypeInv
      <3>2. DOMAIN consumers' = 1..Len(consumers')
        BY <3>1
      <3> QED
        BY <3>2
    <2>3. \A k \in DOMAIN consumers' : ~Passed(k)'
      BY <2>1, <2>2 DEF Passed
    <2> QED
      BY <2>1, <2>3 DEF WalkedInv
  <1>4. CASE CancelNext
    <2>1. /\ UNCHANGED <<call, phase, walker, ctxDone, expired>>
          /\ walker \in DOMAIN consumers
          /\ consumers' = [consumers EXCEPT ![walker].state = Cancelled(@)]
      BY <1>4 DEF CancelNext, AfterCancel, callVars
    <2>2. consumers'[walker].state # "running"
      BY <1>0, <2>1, ConsumerFields DEF Cancelled, Consumer
    <2>3. Aged
      BY <1>0, <1>4, AgedSteps
    <2>4. \A k \in DOMAIN consumers : Passed(k)' => Passed(k)
      BY <2>1 DEF Passed
    <2> QED
      BY <1>0, <1>1, <2>1, <2>2, <2>3, <2>4 DEF WalkedInv, Aged
  <1>5. CASE WaitNext
    <2>1. /\ UNCHANGED <<call, phase, consumers, ctxDone, expired>>
          /\ waiting /\ waiting' = FALSE /\ walker' = walker + 1
          /\ WaitOver
      BY <1>5 DEF WaitNext, callVars
    <2>2. /\ walker \in DOMAIN consumers /\ consumers[walker].state # "running"
          /\ phase \in {"undo", "stopping"}
      BY <1>0, <2>1 DEF TypeInv, WalkedInv
    <2>3. Ended(walker)
      BY <2>1, <2>2 DEF WaitOver, DeadlinePassed, Ended
    <2>4. \A k \in DOMAIN consumers : Passed(k)' => Passed(k) \/ k = walker
      BY <1>0, <2>1, <2>2, ConsumerFields DEF Passed, TypeInv, Positive
    <2>5. \A k \in DOMAIN consumers : Ended(k) => Ended(k)'
      BY <2>1 DEF Ended, Waits
    <2> QED
      BY <1>0, <2>1, <2>3, <2>4, <2>5 DEF WalkedInv
  <1>6. CASE AllStopped
    <2>1. /\ UNCHANGED <<call, consumers, waiting, ctxDone, expired>>
          /\ phase \in {"undo", "stopping"}
          /\ ~waiting /\ walker \notin DOMAIN consumers
      BY <1>6 DEF AllStopped, stopVars
    <2>2. \A k \in DOMAIN consumers : k < walker
      BY <1>0, <2>1, ConsumerFields DEF TypeInv, Positive
    <2>3. \A k \in DOMAIN consumers : Passed(k)
      BY <2>1, <2>2 DEF Passed
    <2>4. \A k \in DOMAIN consumers : Ended(k) => Ended(k)'
      BY <2>1 DEF Ended, Waits
    <2> QED
      BY <1>0, <2>1, <2>3, <2>4 DEF WalkedInv
  <1>7. CASE \/ \E a \in Streams \cup {Main} : Use(a) \/ Leave(a)
             \/ \E k \in DOMAIN consumers : Finish(k) \/ Break(k)
             \/ CancelCtx \/ Expire
             \/ UNCHANGED vars
    <2>1. /\ UNCHANGED <<call, phase, walker, waiting>>
          /\ ctxDone => ctxDone'
          /\ expired => expired'
      BY <1>7 DEF Use, Leave, Finish, Break, CancelCtx, Expire, vars, callVars, stopVars
    <2>2. Aged
      <3>1. \/ consumers' = consumers \/ CancelCtx
            \/ \E k \in DOMAIN consumers : Finish(k) \/ Break(k)
        BY <1>7 DEF Use, Leave, Expire, vars
      <3> QED
        BY <1>0, <3>1, AgedSteps
    <2>3. \A k \in DOMAIN consumers : Passed(k)' => Passed(k)
      BY <2>1 DEF Passed
    <2>4. waiting => consumers'[walker].state # "running"
      BY <1>0, <2>2 DEF WalkedInv, Aged, GoesOn, TypeInv
    <2>5. ASSUME NEW k \in DOMAIN consumers', Passed(k)' PROVE Ended(k)'
      <3>1. k \in DOMAIN consumers /\ Ended(k)
        BY <1>0, <2>2, <2>3, <2>5 DEF WalkedInv, Aged
      <3> QED
        BY <1>1, <2>1, <2>2, <3>1
    <2> QED
      BY <2>1, <2>4, <2>5 DEF WalkedInv
  <1>8. CASE CloseFails
    <2>1. /\ UNCHANGED <<call, phase, ctxDone, expired>>
          /\ phase \in {"undo", "stopping"}
          /\ ~waiting' /\ walker' = walker + 1 /\ walker \in DOMAIN consumers
          /\ consumers' = [consumers EXCEPT ![walker].state = CutOff(@)]
      BY <1>8 DEF CloseFails, callVars
    <2>2. consumers'[walker].state \in {"done", "cut"}
      BY <1>0, <2>1, ConsumerFields DEF CutOff, Consumer
    <2>3. Aged
      BY <1>0, <1>8, AgedSteps
    <2>4. \A k \in DOMAIN consumers : Passed(k)' => Passed(k) \/ k = walker
      BY <1>0, <2>1, ConsumerFields DEF Passed, TypeInv, Positive
    <2>5. ASSUME NEW k \in DOMAIN consumers', Passed(k)' PROVE Ended(k)'
      <3>1. CASE k = walker
        BY <2>2, <3>1 DEF Ended
      <3>2. CASE k # walker
        <4>1. k \in DOMAIN consumers /\ Ended(k)
          BY <1>0, <2>3, <2>4, <2>5, <3>2 DEF WalkedInv, Aged
        <4> QED
          BY <1>1, <2>1, <2>3, <4>1
      <3> QED
        BY <3>1, <3>2
    <2> QED
      BY <2>1, <2>5 DEF WalkedInv
  <1> QED
    BY <1>2, <1>3, <1>4, <1>5, <1>6, <1>7, <1>8 DEF Next, CallStep

LEMMA InvNext == WorkersInv /\ [Next]_vars => WorkersInv'
  BY TypeNext, MapsNext, CountedNext, WalkedNext DEF WorkersInv

-----------------------------------------------------------------------------
LEMMA MaxIs ==
    ASSUME NEW S \in SUBSET Int, NEW x \in S, \A y \in S : y <= x
    PROVE  Max(S) = x
  <1>1. \E z \in S : \A y \in S : z >= y
    BY SMT
  <1>2. Max(S) \in S /\ \A y \in S : Max(S) >= y
    BY <1>1, Zenon DEF Max
  <1>3. \A z \in S : (\A y \in S : z >= y) => z = x
    BY SMT
  <1> QED
    BY <1>2, <1>3, Zenon

(* For any maps of groups and any order in which Go ranges over them: the  *)
(* caller of StartWorkers has the consumers its map means, no more and no  *)
(* less.                                                                   *)
THEOREM OrderDoesNotShow == Spec => []OrderFree
  <1>1. WorkersInv => OrderFree
    <2> SUFFICES ASSUME WorkersInv, phase \in {"ready", "stopping", "stopped"},
                        DOMAIN given # {}
                 PROVE  /\ {c.group : c \in {consumers[k] : k \in DOMAIN consumers}} = DOMAIN Meant
                        /\ \A g \in DOMAIN Meant : Opened(g) = Meant[g]
      BY DEF OrderFree
    <2>1. call = "workers" /\ Seen = DOMAIN given /\ \A n \in DOMAIN given : given[n] \in Int
      BY DEF WorkersInv, GivenInv, Seen
    <2>2. DOMAIN Meant = DOMAIN resolved
      BY <2>1 DEF WorkersInv, ResolvedInv, Meant
    <2>3. ASSUME NEW g \in DOMAIN resolved
          PROVE  /\ Opened(g) = resolved[g] /\ resolved[g] \in Positive
                 /\ Meant[g] = resolved[g]
      <3> DEFINE Sizeds == {Size(given[n]) : n \in {m \in DOMAIN given : ResolveGroup(m) = g}}
      <3>1. Opened(g) = resolved[g] /\ resolved[g] \in Positive
        BY <2>1 DEF WorkersInv, CountedInv, ResolvedInv
      <3>2. resolved[g] \in Sizeds /\ \A y \in Sizeds : y <= resolved[g]
        BY <2>1 DEF WorkersInv, ResolvedInv
      <3>3. Sizeds \subseteq Int
        BY <2>1, SizeIsPositive DEF Positive
      <3>4. Meant[g] = Max(Sizeds)
        BY <2>2 DEF Meant
      <3> HIDE DEF Sizeds
      <3> QED
        BY <3>1, <3>2, <3>3, <3>4, MaxIs
    <2>4. \A k \in DOMAIN consumers : consumers[k].group \in DOMAIN resolved
      BY DEF WorkersInv, CountedInv
    <2>5. ASSUME NEW g \in DOMAIN resolved
          PROVE  \E k \in DOMAIN consumers : consumers[k].group = g
      <3>1. Opened(g) # 0
        BY <2>3 DEF Positive
      <3>2. {k \in DOMAIN consumers : consumers[k].group = g} # {}
        BY <3>1, FS_EmptySet DEF Opened
      <3> QED
        BY <3>2
    <2>6. {c.group : c \in {consumers[k] : k \in DOMAIN consumers}} = DOMAIN resolved
      BY <2>4, <2>5
    <2> QED
      BY <2>2, <2>3, <2>6
  <1> QED
    BY <1>1, InvInit, InvNext, PTL DEF Spec

(* For any number of consumers, any failure and any expiry: after the undo,*)
(* the stop function or Close none is running.                             *)
THEOREM NothingRunsOn == Spec => []NothingLeftRunning
  <1>1. WorkersInv => NothingLeftRunning
    BY DEF WorkersInv, WalkedInv, Passed, Ended, NothingLeftRunning
  <1> QED
    BY <1>1, InvInit, InvNext, PTL DEF Spec

(* And while their contexts last, every handler they wait for has returned,*)
(* also behind a consumer whose channel could not be closed, which they    *)
(* leave without waiting (jobs_impl.go:63, rabbitmq_adapter.go:302).       *)
THEOREM StoppedInTime == Spec => []StoppedIsQuiet
  <1>1. WorkersInv => StoppedIsQuiet
    BY DEF WorkersInv, WalkedInv, Passed, Ended, StoppedIsQuiet
  <1> QED
    BY <1>1, InvInit, InvNext, PTL DEF Spec
=============================================================================
