------------------------ MODULE AuthorityInboxProofs ------------------------
(***************************************************************************)
(* Theorems about AuthorityInbox.                                          *)
(*                                                                         *)
(* What a partition reads from its inbox is a recursive function of the    *)
(* deliveries.  Lemmas Applying and Reading show once that the recursions  *)
(* have their values; what holds of every value is shown by looking at the *)
(* least number at which it would fail (Least).                            *)
(***************************************************************************)
EXTENDS AuthorityInbox, FiniteSetTheorems, WellFoundedInduction, TLAPS

(* A set of numbers has a least element.                                   *)
LEMMA Least ==
  ASSUME NEW T, T \subseteq Nat, T # {}
  PROVE  \E n \in T : \A m \in T : n <= m
<1>1. IsWellFoundedOn(OpToRel(<, Nat), Nat)
  BY NatLessThanWellFounded
<1>2. PICK n \in T : \A m \in T : ~(<<m, n>> \in OpToRel(<, Nat))
  BY <1>1, WFMin, Zenon
<1>3. \A m \in T : m < n => <<m, n>> \in OpToRel(<, Nat)
  BY DEF OpToRel
<1>4. \A m \in T : ~(m < n)
  BY <1>2, <1>3, Zenon
<1> QED
  BY <1>4

(* A non-empty set of numbers with an upper bound has a greatest element.  *)
LEMMA Greatest ==
  ASSUME NEW T, T \subseteq Nat, T # {}, NEW bound \in Nat,
         \A n \in T : n <= bound
  PROVE  \E n \in T : \A m \in T : m <= n
<1> DEFINE U == {n \in Nat : \A m \in T : m <= n}
<1>1. bound \in U
  OBVIOUS
<1>2. PICK n \in U : \A m \in U : n <= m
  BY <1>1, Least
<1>3. CASE n \in T
  BY <1>2, <1>3
<1>4. CASE n \notin T
  <2>1. PICK k \in T : TRUE
    OBVIOUS
  <2>2. k <= n /\ k # n /\ n - 1 \in Nat
    BY <2>1, <1>2, <1>4
  <2>3. n - 1 \in U
    BY <2>2, <1>2, <1>4
  <2> QED
    BY <2>3, <1>2
<1> QED
  BY <1>3, <1>4

(* The fold over a list of events has a value after each of them.          *)
LEMMA Applying ==
  ASSUME NEW proj, NEW events, Len(events) \in Nat
  PROVE  \E state :
           /\ state[0] = [proj |-> proj, sound |-> TRUE]
           /\ \A i \in 1..Len(events) : state[i] = Reduced(state[i - 1], events[i])
           /\ AppliedAll(proj, events) = state[Len(events)]
<1> DEFINE Def(f, m) == f = [i \in 0..m |->
                               IF i = 0 THEN [proj |-> proj, sound |-> TRUE]
                                        ELSE Reduced(f[i - 1], events[i])]
           T == {m \in Nat : ~\E f : Def(f, m)}
<1> HIDE DEF Def
<1>1. T = {}
  <2> SUFFICES ASSUME T # {} PROVE FALSE
    OBVIOUS
  <2>1. PICK m \in T : \A k \in T : m <= k
    BY Least
  <2>2. m \in Nat /\ ~\E f : Def(f, m)
    OBVIOUS
  <2>3. CASE m = 0
    <3>1. Def([i \in 0..0 |-> [proj |-> proj, sound |-> TRUE]], 0)
      BY DEF Def
    <3> QED
      BY <3>1, <2>2, <2>3
  <2>4. CASE m > 0
    <3>1. m - 1 \in Nat /\ ~(m <= m - 1)
      BY <2>2, <2>4
    <3>2. PICK f : Def(f, m - 1)
      BY <3>1, <2>1
    <3>3. f = [i \in 0..(m - 1) |-> IF i = 0 THEN [proj |-> proj, sound |-> TRUE]
                                    ELSE Reduced(f[i - 1], events[i])]
      BY <3>2 DEF Def
    <3> DEFINE g == [i \in 0..m |-> IF i = m THEN Reduced(f[m - 1], events[m])
                                              ELSE f[i]]
    <3>4. \A i \in 0..m : g[i] = IF i = 0 THEN [proj |-> proj, sound |-> TRUE]
                                  ELSE Reduced(g[i - 1], events[i])
      <4> SUFFICES ASSUME NEW i \in 0..m
                   PROVE  g[i] = IF i = 0 THEN [proj |-> proj, sound |-> TRUE]
                                 ELSE Reduced(g[i - 1], events[i])
        OBVIOUS
      <4>1. CASE i = m
        BY <4>1, <2>2, <2>4
      <4>2. CASE i # m
        <5>1. i \in 0..(m - 1) /\ g[i] = f[i]
          BY <4>2, <2>2, <2>4
        <5>2. i # 0 => i - 1 \in 0..m /\ i - 1 # m /\ g[i - 1] = f[i - 1]
          BY <4>2, <2>2, <2>4
        <5> HIDE DEF g
        <5> QED
          BY <5>1, <5>2, <3>3
      <4> QED
        BY <4>1, <4>2
    <3>5. g = [i \in 0..m |-> g[i]]
      OBVIOUS
    <3> HIDE DEF g
    <3>6. Def(g, m)
      BY <3>4, <3>5 DEF Def
    <3> QED
      BY <3>6, <2>2
  <2> QED
    BY <2>2, <2>3, <2>4
<1>2. \E f : Def(f, Len(events))
  BY <1>1
<1> HIDE DEF T
<1>3. PICK state : /\ Def(state, Len(events))
                   /\ AppliedAll(proj, events) = state[Len(events)]
  <2>1. Def(CHOOSE f : Def(f, Len(events)), Len(events))
    BY <1>2
  <2>2. AppliedAll(proj, events) = (CHOOSE f : Def(f, Len(events)))[Len(events)]
    BY DEF AppliedAll, Def
  <2> QED
    BY <2>1, <2>2
<1>4. state = [i \in 0..Len(events) |->
                 IF i = 0 THEN [proj |-> proj, sound |-> TRUE]
                          ELSE Reduced(state[i - 1], events[i])]
  BY <1>3 DEF Def
<1>5. state[0] = [proj |-> proj, sound |-> TRUE]
  BY <1>4
<1>6. \A i \in 1..Len(events) : state[i] = Reduced(state[i - 1], events[i])
  <2> SUFFICES ASSUME NEW i \in 1..Len(events)
               PROVE  state[i] = Reduced(state[i - 1], events[i])
    OBVIOUS
  <2>1. i \in 0..Len(events) /\ i # 0
    OBVIOUS
  <2> QED
    BY <1>4, <2>1
<1> QED
  BY <1>3, <1>5, <1>6

(* So has the reading of an inbox, after each token.                       *)
LEMMA Reading ==
  ASSUME NEW p, NEW start, NEW last \in Nat
  PROVE  \E state :
           /\ state[0] = start
           /\ \A n \in 1..last :
                state[n] = IF n \in Pending(p) THEN TakeDelivery(p, state[n - 1], n)
                                               ELSE state[n - 1]
           /\ ReadFrom(p, start, last) = state[last]
<1> DEFINE pending == Pending(p)
           Def(f, m) == f = [token \in 0..m |->
                               IF token = 0 THEN start
                               ELSE IF token \in pending
                                    THEN TakeDelivery(p, f[token - 1], token)
                               ELSE f[token - 1]]
           T == {m \in Nat : ~\E f : Def(f, m)}
<1> HIDE DEF pending
<1> HIDE DEF Def
<1>1. T = {}
  <2> SUFFICES ASSUME T # {} PROVE FALSE
    OBVIOUS
  <2>1. PICK m \in T : \A k \in T : m <= k
    BY Least
  <2>2. m \in Nat /\ ~\E f : Def(f, m)
    OBVIOUS
  <2>3. CASE m = 0
    <3>1. Def([token \in 0..0 |-> start], 0)
      BY DEF Def
    <3> QED
      BY <3>1, <2>2, <2>3
  <2>4. CASE m > 0
    <3>1. m - 1 \in Nat /\ ~(m <= m - 1)
      BY <2>2, <2>4
    <3>2. PICK f : Def(f, m - 1)
      BY <3>1, <2>1
    <3>3. f = [token \in 0..(m - 1) |->
                 IF token = 0 THEN start
                 ELSE IF token \in pending THEN TakeDelivery(p, f[token - 1], token)
                 ELSE f[token - 1]]
      BY <3>2 DEF Def
    <3> DEFINE g == [token \in 0..m |->
                       IF token = m
                       THEN IF m \in pending THEN TakeDelivery(p, f[m - 1], m)
                                             ELSE f[m - 1]
                       ELSE f[token]]
    <3>4. \A i \in 0..m : g[i] = IF i = 0 THEN start
                            ELSE IF i \in pending THEN TakeDelivery(p, g[i - 1], i)
                            ELSE g[i - 1]
      <4> SUFFICES ASSUME NEW i \in 0..m
                   PROVE  g[i] = IF i = 0 THEN start
                            ELSE IF i \in pending THEN TakeDelivery(p, g[i - 1], i)
                            ELSE g[i - 1]
        OBVIOUS
      <4>1. CASE i = m
        BY <4>1, <2>2, <2>4
      <4>2. CASE i # m
        <5>1. i \in 0..(m - 1) /\ g[i] = f[i]
          BY <4>2, <2>2, <2>4
        <5>2. i # 0 => i - 1 \in 0..m /\ i - 1 # m /\ g[i - 1] = f[i - 1]
          BY <4>2, <2>2, <2>4
        <5> HIDE DEF g
        <5> QED
          BY <5>1, <5>2, <3>3
      <4> QED
        BY <4>1, <4>2
    <3>5. g = [i \in 0..m |-> g[i]]
      OBVIOUS
    <3> HIDE DEF g
    <3>6. Def(g, m)
      BY <3>4, <3>5 DEF Def
    <3> QED
      BY <3>6, <2>2
  <2> QED
    BY <2>2, <2>3, <2>4
<1>2. \E f : Def(f, last)
  BY <1>1
<1> HIDE DEF T
<1>3. PICK state : /\ Def(state, last)
                   /\ ReadFrom(p, start, last) = state[last]
  <2>1. Def(CHOOSE f : Def(f, last), last)
    BY <1>2
  <2>2. ReadFrom(p, start, last) = (CHOOSE f : Def(f, last))[last]
    BY DEF ReadFrom, Def, pending
  <2> QED
    BY <2>1, <2>2
<1> QED
  BY <1>3 DEF Def, pending

-----------------------------------------------------------------------------
(* Types, without the bounds of the numbers in them.                       *)

Rec == [age : Nat, facts : SUBSET Nat]
World == UNION {[S -> Rec] : S \in SUBSET Agent}
Fact == [type : {"settled", "credited"}, token : Nat, agents : SUBSET Agent]
Handover == [type : {"departed", "arrived"}, agent : Agent, record : Rec]
Event == Fact \cup Handover
Entry == [token : Nat, events : Seq(Event)]
OperationKey == (Partition \X Nat \X Agent \X {"transfer", "move"}) \cup Seq(Nat)
Operation == [kind : {"transfer", "move", "advance"}, key : OperationKey,
              due : Nat, parties : SUBSET Agent, to : [Partition -> Seq(Event)]]
Journey == [from : Partition, to : Partition, token : Nat, due : Nat]
Report == [clocks : SUBSET Nat, agents : World]
Digest == [partition : Partition, state : Report, departed : SUBSET Agent,
           first : BOOLEAN]
Reader == [proj : World, entries : Seq(Entry),
           outcome : {"taken", "failed", "poisoned"}]

AuthorityTypes ==
  /\ operations \in Seq(Operation)
  /\ owner \in [Agent -> Partition \cup {NoPartition}]
  /\ DOMAIN pendingMoves \subseteq Agent
  /\ \A a \in DOMAIN pendingMoves : pendingMoves[a] \in Journey
  /\ records \in World
  /\ now \in Nat /\ published \in [Partition -> Nat]
  /\ receipts \subseteq Digest

InboxTypes ==
  /\ stream \in [Partition -> Seq(Entry)] /\ projection \in [Partition -> World]
  /\ cursor \in [Partition -> Nat]
  /\ \A p \in Partition : cursor[p] <= Len(operations)

TickTypes ==
  /\ clock \in [Partition -> Nat] /\ ticked \in [Partition -> Nat]
  /\ boundary \in [Partition -> [proj : World, clock : Nat]]
  /\ tail \in [Partition -> Seq({"time", "delivery"})]
  /\ pc \in [Partition -> Places] /\ working \in [Partition -> World]
  /\ agenda \in [Partition -> SUBSET Agent]
  /\ recovering \in [Partition -> BOOLEAN]

RouterTypes ==
  /\ lastSynced \in [Partition -> Seq(Report)]
  /\ lastReported \in [Partition -> SUBSET Agent]
  /\ crashes \in Nat /\ timeouts \in Nat

InboxTypesInv == AuthorityTypes /\ InboxTypes /\ TickTypes /\ RouterTypes

(* The constants.                                                          *)
LEMMA Constants ==
  /\ IsFiniteSet(Partition) /\ IsFiniteSet(Agent) /\ NoPartition \notin Partition
  /\ Home \in [Agent -> Partition] /\ Movers \subseteq Agent
  /\ Depositors \subseteq Agent /\ TravelTicks \in Nat /\ MaxTicks \in Nat \ {0}
  /\ MaxSettlements \in Nat /\ MaxCrashes \in Nat /\ MaxTimeouts \in Nat
BY AuthorityInboxAssumption DEF AuthorityInboxAssumption

(* A world maps some agents to records.                                    *)
LEMMA Worlds ==
  ASSUME NEW proj
  PROVE  proj \in World <=>
           /\ DOMAIN proj \subseteq Agent
           /\ proj = [a \in DOMAIN proj |-> proj[a]]
           /\ \A a \in DOMAIN proj : proj[a] \in Rec
<1>1. ASSUME proj \in World
      PROVE  /\ DOMAIN proj \subseteq Agent
             /\ proj = [a \in DOMAIN proj |-> proj[a]]
             /\ \A a \in DOMAIN proj : proj[a] \in Rec
  <2>1. PICK S \in SUBSET Agent : proj \in [S -> Rec]
    BY <1>1 DEF World
  <2> QED
    BY <2>1
<1>2. ASSUME DOMAIN proj \subseteq Agent, proj = [a \in DOMAIN proj |-> proj[a]],
             \A a \in DOMAIN proj : proj[a] \in Rec
      PROVE  proj \in World
  <2>1. proj \in [DOMAIN proj -> Rec]
    BY <1>2
  <2> QED
    BY <1>2, <2>1 DEF World
<1> QED
  BY <1>1, <1>2

(* A finite set has a list of its members.                                 *)
LEMMA Lists ==
  ASSUME NEW S, IsFiniteSet(S)
  PROVE  /\ Cardinality(S) \in Nat
         /\ SetToSeq(S) \in [1..Cardinality(S) -> S]
         /\ \A x \in S : \E i \in 1..Cardinality(S) : SetToSeq(S)[i] = x
         /\ \A i, j \in 1..Cardinality(S) :
              SetToSeq(S)[i] = SetToSeq(S)[j] => i = j
<1>1. /\ Cardinality(S) \in Nat
      /\ ExistsBijection(1..Cardinality(S), S)
  BY FS_CardinalityType
<1>2. PICK f \in [1..Cardinality(S) -> S] : IsInjective(f)
  BY <1>1 DEF ExistsBijection, Bijection, Injection, IsInjective
<1>3. /\ SetToSeq(S) \in [1..Cardinality(S) -> S]
      /\ IsInjective(SetToSeq(S))
  BY <1>2 DEF SetToSeq
<1>4. SetToSeq(S) \in Injection(1..Cardinality(S), S)
  BY <1>3 DEF Injection
<1>5. /\ IsFiniteSet(1..Cardinality(S))
      /\ Cardinality(1..Cardinality(S)) = Cardinality(S)
  <2>1. 1 \in Int /\ Cardinality(S) \in Int
    BY <1>1
  <2> QED
    BY <1>1, <2>1, FS_Interval
<1>6. SetToSeq(S) \in Surjection(1..Cardinality(S), S)
  BY <1>4, <1>5, FS_Injection
<1> QED
  BY <1>1, <1>3, <1>6 DEF Surjection, IsInjective

(* What the changes of a projection yield.                                 *)
LEMMA WorldChanges ==
  ASSUME NEW proj \in World
  PROVE
  /\ \A token \in Nat, agents \in SUBSET Agent :
       /\ WithFact(proj, token, agents) \in World
       /\ DOMAIN WithFact(proj, token, agents) = DOMAIN proj
  /\ \A a \in Agent :
       Without(proj, a) \in World /\ DOMAIN Without(proj, a) = DOMAIN proj \ {a}
  /\ \A a \in Agent, rec \in Rec :
       /\ With(proj, a, rec) \in World
       /\ DOMAIN With(proj, a, rec) = DOMAIN proj \cup {a}
  /\ \A ticks \in Nat :
       AgedBy(proj, ticks) \in World /\ DOMAIN AgedBy(proj, ticks) = DOMAIN proj
<1>1. /\ DOMAIN proj \subseteq Agent
      /\ \A a \in DOMAIN proj : proj[a] \in Rec
  BY Worlds
<1>2. ASSUME NEW token \in Nat, NEW agents \in SUBSET Agent
      PROVE  /\ WithFact(proj, token, agents) \in World
             /\ DOMAIN WithFact(proj, token, agents) = DOMAIN proj
  <2>1. \A a \in DOMAIN proj :
          (IF a \in agents THEN [proj[a] EXCEPT !.facts = @ \cup {token}]
                           ELSE proj[a]) \in Rec
    BY <1>1 DEF Rec
  <2>2. WithFact(proj, token, agents) \in [DOMAIN proj -> Rec]
    BY <2>1 DEF WithFact
  <2> QED
    BY <1>1, <2>2 DEF World
<1>3. ASSUME NEW a \in Agent
      PROVE  Without(proj, a) \in World /\ DOMAIN Without(proj, a) = DOMAIN proj \ {a}
  <2>1. Without(proj, a) \in [DOMAIN proj \ {a} -> Rec]
    BY <1>1 DEF Without
  <2>2. DOMAIN proj \ {a} \in SUBSET Agent
    BY <1>1
  <2> QED
    BY <2>1, <2>2 DEF World
<1>4. ASSUME NEW a \in Agent, NEW rec \in Rec
      PROVE  /\ With(proj, a, rec) \in World
             /\ DOMAIN With(proj, a, rec) = DOMAIN proj \cup {a}
  <2>1. With(proj, a, rec) \in [DOMAIN proj \cup {a} -> Rec]
    BY <1>1 DEF With
  <2>2. DOMAIN proj \cup {a} \in SUBSET Agent
    BY <1>1
  <2> QED
    BY <2>1, <2>2 DEF World
<1>5. ASSUME NEW ticks \in Nat
      PROVE  AgedBy(proj, ticks) \in World /\ DOMAIN AgedBy(proj, ticks) = DOMAIN proj
  <2>1. \A a \in DOMAIN proj : [proj[a] EXCEPT !.age = @ + ticks] \in Rec
    BY <1>1 DEF Rec
  <2>2. AgedBy(proj, ticks) \in [DOMAIN proj -> Rec]
    BY <2>1 DEF AgedBy
  <2> QED
    BY <1>1, <2>2 DEF World
<1> QED
  BY <1>2, <1>3, <1>4, <1>5

(* An event makes a world of a world, and so does a list of events.        *)
LEMMA AppliedTyped ==
  ASSUME NEW proj \in World, NEW event \in Event
  PROVE  Applied(proj, event) \in World
<1>1. CASE event \in Fact
  <2>1. /\ event.type \in {"settled", "credited"}
        /\ event.token \in Nat /\ event.agents \in SUBSET Agent
    BY <1>1 DEF Fact
  <2>2. Applied(proj, event) = WithFact(proj, event.token, event.agents)
    BY <2>1 DEF Applied
  <2> QED
    BY <2>1, <2>2, WorldChanges
<1>2. CASE event \in Handover /\ event.type = "departed"
  <2>1. event.agent \in Agent
    BY <1>2 DEF Handover
  <2>2. Applied(proj, event) = Without(proj, event.agent)
    BY <1>2 DEF Applied
  <2> QED
    BY <2>1, <2>2, WorldChanges
<1>3. CASE event \in Handover /\ event.type = "arrived"
  <2>1. event.agent \in Agent /\ event.record \in Rec
    BY <1>3 DEF Handover
  <2>2. Applied(proj, event) = With(proj, event.agent, event.record)
    BY <1>3 DEF Applied
  <2>3. \A a \in Agent, rec \in Rec : With(proj, a, rec) \in World
    BY WorldChanges
  <2> QED
    BY <2>1, <2>2, <2>3
<1> QED
  BY <1>1, <1>2, <1>3 DEF Event, Handover

Reduction == [proj : World, sound : BOOLEAN]

LEMMA ReducedTyped ==
  ASSUME NEW state \in Reduction, NEW event \in Event
  PROVE  Reduced(state, event) \in Reduction
<1>1. state.proj \in World /\ Applied(state.proj, event) \in World
  BY AppliedTyped DEF Reduction
<1>2. CASE state.sound /\ Applicable(state.proj, event)
  <2>1. Reduced(state, event) = [state EXCEPT !.proj = Applied(state.proj, event)]
    BY <1>2 DEF Reduced
  <2> QED
    BY <1>1, <2>1 DEF Reduction
<1>3. CASE ~(state.sound /\ Applicable(state.proj, event))
  <2>1. Reduced(state, event) = [state EXCEPT !.sound = FALSE]
    BY <1>3 DEF Reduced
  <2> QED
    BY <2>1 DEF Reduction
<1> QED
  BY <1>2, <1>3

LEMMA AppliedAllTyped ==
  ASSUME NEW proj \in World, NEW events \in Seq(Event)
  PROVE  AppliedAll(proj, events) \in Reduction
<1>1. Len(events) \in Nat /\ \A i \in 1..Len(events) : events[i] \in Event
  OBVIOUS
<1>2. PICK state :
        /\ state[0] = [proj |-> proj, sound |-> TRUE]
        /\ \A i \in 1..Len(events) : state[i] = Reduced(state[i - 1], events[i])
        /\ AppliedAll(proj, events) = state[Len(events)]
  BY <1>1, Applying
<1> DEFINE Bad == {i \in 0..Len(events) : state[i] \notin Reduction}
<1>3. Bad = {}
  <2> SUFFICES ASSUME Bad # {} PROVE FALSE
    OBVIOUS
  <2>0. Bad \subseteq Nat
    BY <1>1
  <2>1. PICK i \in Bad : \A j \in Bad : i <= j
    <3> HIDE DEF Bad
    <3> QED
      BY <2>0, Least
  <2>2. i # 0
    <3>1. state[0] \in Reduction
      BY <1>2 DEF Reduction
    <3> QED
      BY <3>1
  <2>3. i \in 1..Len(events) /\ i - 1 \in 0..Len(events) /\ i - 1 \notin Bad
    BY <1>1, <2>1, <2>2
  <2>4. state[i] \in Reduction
    BY <1>1, <1>2, <2>3, ReducedTyped
  <2> QED
    BY <2>4
<1> QED
  BY <1>1, <1>2, <1>3

(* What is delivered of an operation.                                      *)
LEMMA DeliveryTyped ==
  ASSUME AuthorityTypes, NEW token \in DOMAIN operations, NEW p \in Partition
  PROVE  /\ DeliveryOf(token, p) \in Seq(Event)
         /\ operations[token].to[p] # <<>> => DeliveryOf(token, p) # <<>>
<1> DEFINE operation == operations[token]
           paid == {a \in operation.parties :
                      operation.kind = "advance" /\ owner[a] = p}
<1>1. operation \in Operation /\ token \in Nat
  BY DEF AuthorityTypes
<1>2. operation.parties \in SUBSET Agent /\ operation.to[p] \in Seq(Event)
  BY <1>1 DEF Operation
<1>3. IsFiniteSet(paid) /\ paid \subseteq Agent
  BY <1>2, Constants, FS_Subset
<1>4. /\ Cardinality(paid) \in Nat
      /\ SetToSeq(paid) \in [1..Cardinality(paid) -> paid]
  BY <1>3, Lists
<1>5. \A i \in 1..Cardinality(paid) : Credited(token, SetToSeq(paid)[i]) \in Event
  <2> SUFFICES ASSUME NEW i \in 1..Cardinality(paid)
               PROVE  Credited(token, SetToSeq(paid)[i]) \in Event
    OBVIOUS
  <2>1. SetToSeq(paid)[i] \in Agent
    BY <1>3, <1>4
  <2> QED
    BY <1>1, <2>1 DEF Credited, Event, Fact
<1> HIDE DEF paid
<1>6. [i \in 1..Cardinality(paid) |-> Credited(token, SetToSeq(paid)[i])] \in Seq(Event)
  BY <1>4, <1>5
<1>7. DeliveryOf(token, p)
        = [i \in 1..Cardinality(paid) |-> Credited(token, SetToSeq(paid)[i])]
            \o operation.to[p]
  BY DEF DeliveryOf, paid
<1> DEFINE credits == [i \in 1..Cardinality(paid) |-> Credited(token, SetToSeq(paid)[i])]
           rest == operation.to[p]
<1> HIDE DEF credits, rest
<1>8. credits \in Seq(Event) /\ rest \in Seq(Event)
      /\ DeliveryOf(token, p) = credits \o rest
  BY <1>2, <1>6, <1>7 DEF credits, rest
<1>9. rest # <<>> => credits \o rest # <<>>
  <2>1. rest # <<>> => Len(rest) # 0
    BY <1>8
  <2>2. Len(credits \o rest) = Len(credits) + Len(rest)
        /\ Len(credits) \in Nat /\ Len(rest) \in Nat
    BY <1>8
  <2>3. rest # <<>> => Len(credits \o rest) # 0
    BY <2>1, <2>2
  <2> QED
    BY <2>3
<1>10. credits \o rest \in Seq(Event)
  BY <1>8
<1> QED
  BY <1>8, <1>9, <1>10 DEF rest

LEMMA PendingTokens ==
  ASSUME AuthorityTypes, NEW p
  PROVE  /\ Pending(p) \subseteq DOMAIN operations
         /\ DOMAIN operations = 1..Len(operations) /\ Len(operations) \in Nat
         /\ \A token \in Pending(p) : token \in Nat
BY DEF AuthorityTypes, Pending

(* Reading keeps types.                                                    *)
LEMMA TakeTyped ==
  ASSUME AuthorityTypes, NEW p \in Partition, NEW state \in Reader,
         NEW token \in DOMAIN operations
  PROVE  TakeDelivery(p, state, token) \in Reader
<1> DEFINE events == DeliveryOf(token, p)
           entry == [token |-> token, events |-> events]
           reduced == AppliedAll(state.proj, events)
<1>1. events \in Seq(Event) /\ token \in Nat
  BY DeliveryTyped DEF AuthorityTypes
<1>2. /\ state.proj \in World /\ state.entries \in Seq(Entry)
      /\ entry \in Entry
  BY <1>1 DEF Reader, Entry
<1>3. reduced.proj \in World
  BY <1>1, <1>2, AppliedAllTyped DEF Reduction
<1>4. Append(state.entries, entry) \in Seq(Entry)
  BY <1>2
<1> HIDE DEF events, reduced, entry
<1>5. TakeDelivery(p, state, token) \in
        {state, [state EXCEPT !.outcome = "failed"],
         [proj |-> reduced.proj, entries |-> Append(state.entries, entry),
          outcome |-> "taken"],
         [proj |-> reduced.proj, entries |-> Append(state.entries, entry),
          outcome |-> "poisoned"]}
  BY DEF TakeDelivery, events, reduced, entry
<1> QED
  BY <1>3, <1>4, <1>5 DEF Reader

LEMMA ReadTyped ==
  ASSUME AuthorityTypes, NEW p \in Partition, NEW start \in Reader,
         NEW last \in 0..Len(operations)
  PROVE  ReadFrom(p, start, last) \in Reader
<1>1. last \in Nat
  BY PendingTokens
<1>2. PICK state :
        /\ state[0] = start
        /\ \A n \in 1..last :
             state[n] = IF n \in Pending(p) THEN TakeDelivery(p, state[n - 1], n)
                                            ELSE state[n - 1]
        /\ ReadFrom(p, start, last) = state[last]
  BY <1>1, Reading
<1> DEFINE Bad == {n \in 0..last : state[n] \notin Reader}
<1>3. Bad = {}
  <2> SUFFICES ASSUME Bad # {} PROVE FALSE
    OBVIOUS
  <2>0. Bad \subseteq Nat
    BY <1>1
  <2>1. PICK n \in Bad : \A m \in Bad : n <= m
    <3> HIDE DEF Bad
    <3> QED
      BY <2>0, Least
  <2>2. n \in 1..last /\ n - 1 \in 0..last /\ n - 1 \notin Bad
    BY <1>1, <1>2, <2>1
  <2>3. state[n - 1] \in Reader
    BY <2>2
  <2>4. n \in Pending(p) => TakeDelivery(p, state[n - 1], n) \in Reader
    BY <2>3, PendingTokens, TakeTyped
  <2> QED
    BY <1>2, <2>2, <2>3, <2>4
<1> QED
  BY <1>1, <1>2, <1>3

LEMMA UnreadTyped ==
  ASSUME InboxTypes, NEW p \in Partition
  PROVE  Unread(p) \in Reader
BY DEF InboxTypes, Unread, Reader

LEMMA TakenTyped ==
  ASSUME AuthorityTypes, InboxTypes, NEW p \in Partition
  PROVE  Taken(p) \in Reader
<1>1. Len(operations) \in 0..Len(operations)
  BY PendingTokens
<1> QED
  BY <1>1, UnreadTyped, ReadTyped DEF Taken

-----------------------------------------------------------------------------
(* Deliveries enter a stream once, in order.                               *)

Increasing(entries) ==
  \A i, j \in 1..Len(entries) : i < j => entries[i].token < entries[j].token

Extends(before, after) ==
  /\ Len(before) <= Len(after)
  /\ \A i \in 1..Len(before) : after[i] = before[i]

\* What a reader has in the stream when it has come to token m.
Delivered(p, state, m) ==
  /\ Increasing(state.entries) /\ state.outcome # "failed"
  /\ state.outcome = "taken" =>
       /\ \A i \in 1..Len(state.entries) :
            LET entry == state.entries[i]
            IN \/ entry.token <= cursor[p]
               \/ /\ entry.token \in Pending(p) /\ entry.token <= m
                  /\ entry.events = DeliveryOf(entry.token, p)
       /\ \A token \in Pending(p) : token <= m => IsAppended(state.entries, token)

Further(n, m) == IF n <= m THEN m ELSE n

LEMMA ReaderEntries ==
  ASSUME NEW state \in Reader
  PROVE  /\ state.entries \in Seq(Entry) /\ Len(state.entries) \in Nat
         /\ DOMAIN state.entries = 1..Len(state.entries)
         /\ \A i \in 1..Len(state.entries) :
              state.entries[i] \in Entry /\ state.entries[i].token \in Nat
<1>1. state.entries \in Seq(Entry)
  BY DEF Reader
<1>2. \A i \in 1..Len(state.entries) : state.entries[i] \in Entry
  BY <1>1
<1>3. \A entry \in Entry : entry.token \in Nat
  BY DEF Entry
<1> QED
  BY <1>1, <1>2, <1>3

LEMMA ExtendsOn ==
  ASSUME NEW first \in Reader, NEW second \in Reader, NEW third \in Reader,
         Extends(first.entries, second.entries), Extends(second.entries, third.entries)
  PROVE  Extends(first.entries, third.entries)
<1>1. /\ Len(first.entries) \in Nat /\ Len(second.entries) \in Nat
      /\ Len(third.entries) \in Nat
  BY ReaderEntries
<1>2. Len(first.entries) <= Len(third.entries)
  BY <1>1 DEF Extends
<1>3. ASSUME NEW i \in 1..Len(first.entries)
      PROVE  third.entries[i] = first.entries[i]
  <2>1. i \in 1..Len(second.entries)
    BY <1>1 DEF Extends
  <2> QED
    BY <2>1 DEF Extends
<1> QED
  BY <1>2, <1>3 DEF Extends

LEMMA TakeDelivered ==
  ASSUME AuthorityTypes, NEW p \in Partition, cursor[p] \in Nat,
         NEW state \in Reader, NEW m \in Nat, Delivered(p, state, m),
         NEW n \in Pending(p), n <= m + 1
  PROVE  /\ Delivered(p, TakeDelivery(p, state, n), Further(n, m))
         /\ Extends(state.entries, TakeDelivery(p, state, n).entries)
<1> DEFINE taken == TakeDelivery(p, state, n)
           old == state.entries
           entry == [token |-> n, events |-> DeliveryOf(n, p)]
           new == Append(old, entry)
<1>1. /\ n \in Nat /\ n \in DOMAIN operations /\ n > cursor[p]
      /\ \A token \in Pending(p) : token \in Nat
  BY PendingTokens DEF Pending
<1>2. /\ old \in Seq(Entry) /\ Len(old) \in Nat /\ DOMAIN old = 1..Len(old)
      /\ \A i \in 1..Len(old) : old[i] \in Entry /\ old[i].token \in Nat
  BY ReaderEntries
<1>3. Further(n, m) \in Nat /\ m <= Further(n, m) /\ n <= Further(n, m)
      /\ (n > m => Further(n, m) = n) /\ (n <= m => Further(n, m) = m)
  BY <1>1 DEF Further
<1>4. CASE state.outcome # "taken"
  <2>1. taken = state
    BY <1>4 DEF TakeDelivery
  <2> QED
    BY <1>2, <1>4, <2>1 DEF Delivered, Extends
<1>5. CASE state.outcome = "taken" /\ IsAppended(old, n)
  <2>1. PICK i \in 1..Len(old) : old[i].token = n
    BY <1>2, <1>5 DEF IsAppended
  <2>2. old[i].events = DeliveryOf(n, p) /\ n <= m
    BY <1>1, <1>5, <2>1 DEF Delivered
  <2>3. old[i] = entry
    BY <1>2, <2>1, <2>2 DEF Entry
  <2>4. entry \in ToSet(old)
    BY <1>2, <2>3 DEF ToSet
  <2>5. taken = state
    BY <1>5, <2>4 DEF TakeDelivery
  <2> QED
    BY <1>2, <1>3, <2>2, <2>5 DEF Extends
<1>6. CASE state.outcome = "taken" /\ ~IsAppended(old, n)
  <2>1. n > m
    BY <1>1, <1>6 DEF Delivered
  <2>2. \A i \in 1..Len(old) : old[i].token < n
    <3> SUFFICES ASSUME NEW i \in 1..Len(old) PROVE old[i].token < n
      OBVIOUS
    <3>1. old[i].token <= cursor[p] \/ old[i].token <= m
      BY <1>6 DEF Delivered
    <3> QED
      BY <1>1, <1>2, <2>1, <3>1
  <2>3. /\ Len(new) = Len(old) + 1 /\ new[Len(old) + 1] = entry
        /\ \A i \in 1..Len(old) : new[i] = old[i]
    <3>1. entry \in Entry
      BY <1>1, DeliveryTyped DEF Entry
    <3> QED
      BY <1>2, <3>1
  <2> HIDE DEF entry, new
  <2>4. Increasing(new)
    <3> SUFFICES ASSUME NEW i \in 1..Len(new), NEW j \in 1..Len(new), i < j
                 PROVE  new[i].token < new[j].token
      BY DEF Increasing
    <3>1. i \in 1..Len(old)
      BY <1>2, <2>3
    <3>2. CASE j \in 1..Len(old)
      BY <2>3, <3>1, <3>2 DEF Delivered, Increasing
    <3>3. CASE j = Len(old) + 1
      BY <2>2, <2>3, <3>1, <3>3 DEF entry
    <3> QED
      BY <1>2, <2>3, <3>2, <3>3
  <2>5. /\ taken.entries = new
        /\ taken.outcome \in {"taken", "poisoned"}
    BY <1>6 DEF TakeDelivery, new, entry
  <2>6. \A i \in 1..Len(new) :
          \/ new[i].token <= cursor[p]
          \/ /\ new[i].token \in Pending(p) /\ new[i].token <= n
             /\ new[i].events = DeliveryOf(new[i].token, p)
    <3> SUFFICES ASSUME NEW i \in 1..Len(new)
                 PROVE  \/ new[i].token <= cursor[p]
                        \/ /\ new[i].token \in Pending(p) /\ new[i].token <= n
                           /\ new[i].events = DeliveryOf(new[i].token, p)
      OBVIOUS
    <3>1. CASE i \in 1..Len(old)
      <4>1. new[i] = old[i] /\ new[i].token \in Nat
        BY <1>2, <2>3, <3>1
      <4>2. \/ old[i].token <= cursor[p]
            \/ /\ old[i].token \in Pending(p) /\ old[i].token <= m
               /\ old[i].events = DeliveryOf(old[i].token, p)
        BY <1>6, <3>1 DEF Delivered
      <4> QED
        BY <1>1, <2>1, <4>1, <4>2
    <3>2. CASE i = Len(old) + 1
      BY <1>1, <2>3, <3>2 DEF entry
    <3> QED
      BY <1>2, <2>3, <3>1, <3>2
  <2>7. \A token \in Pending(p) : token <= n => IsAppended(new, token)
    <3> SUFFICES ASSUME NEW token \in Pending(p), token <= n
                 PROVE  IsAppended(new, token)
      OBVIOUS
    <3>0. DOMAIN new = 1..Len(new)
      BY <1>2, <2>3 DEF new
    <3>1. CASE token = n
      <4>1. Len(old) + 1 \in DOMAIN new /\ new[Len(old) + 1].token = n
        BY <1>2, <2>3, <3>0 DEF entry
      <4> QED
        BY <3>1, <4>1 DEF IsAppended
    <3>2. CASE token # n
      <4>1. token <= m
        BY <1>1, <3>2
      <4>2. PICK i \in 1..Len(old) : old[i].token = token
        BY <1>2, <1>6, <4>1 DEF Delivered, IsAppended
      <4>3. i \in DOMAIN new /\ new[i].token = token
        BY <1>2, <2>3, <3>0, <4>2
      <4> QED
        BY <4>3 DEF IsAppended
    <3> QED
      BY <3>1, <3>2
  <2>8. Delivered(p, taken, Further(n, m))
    BY <1>3, <2>1, <2>4, <2>5, <2>6, <2>7 DEF Delivered
  <2>9. Extends(old, taken.entries)
    BY <1>2, <2>3, <2>5 DEF Extends
  <2> QED
    BY <2>8, <2>9
<1> QED
  BY <1>4, <1>5, <1>6

(* Whoever goes on reading goes on delivering.                             *)
LEMMA ReadDelivered ==
  ASSUME AuthorityTypes, NEW p \in Partition, cursor[p] \in Nat,
         NEW start \in Reader, NEW m \in Nat, Delivered(p, start, m),
         NEW last \in 0..Len(operations)
  PROVE  /\ Delivered(p, ReadFrom(p, start, last), Further(last, m))
         /\ Extends(start.entries, ReadFrom(p, start, last).entries)
         /\ start.outcome # "taken" => ReadFrom(p, start, last) = start
<1>1. last \in Nat /\ last \in 0..last
  BY PendingTokens
<1>2. PICK state :
        /\ state[0] = start
        /\ \A n \in 1..last :
             state[n] = IF n \in Pending(p) THEN TakeDelivery(p, state[n - 1], n)
                                            ELSE state[n - 1]
        /\ ReadFrom(p, start, last) = state[last]
  BY <1>1, Reading
<1> DEFINE Good(n) == /\ state[n] \in Reader
                      /\ Delivered(p, state[n], Further(n, m))
                      /\ Extends(start.entries, state[n].entries)
                      /\ start.outcome # "taken" => state[n] = start
           Bad == {n \in 0..last : ~Good(n)}
<1>3. Bad = {}
  <2> SUFFICES ASSUME Bad # {} PROVE FALSE
    OBVIOUS
  <2>0. Bad \subseteq Nat
    BY <1>1
  <2>1. PICK n \in Bad : \A i \in Bad : n <= i
    <3> HIDE DEF Bad
    <3> QED
      BY <2>0, Least
  <2>2. n \in 0..last /\ ~Good(n)
    BY <2>1
  <2>3. Good(0)
    <3>1. Further(0, m) = m
      BY DEF Further
    <3>2. start.entries \in Seq(Entry)
      BY DEF Reader
    <3> QED
      BY <1>2, <3>1, <3>2 DEF Extends
  <2>4. /\ n \in 1..last /\ n - 1 \in 0..last /\ n - 1 \in Nat /\ n \in Nat
        /\ Good(n - 1)
    <3> HIDE DEF Good
    <3> QED
      BY <1>1, <2>1, <2>2, <2>3
  <2>5. CASE n \notin Pending(p)
    <3>1. state[n] = state[n - 1]
      BY <1>2, <2>4, <2>5
    <3>2. \A token \in Pending(p) : token \in Nat /\ token # n
      BY <2>5, PendingTokens
    <3>3. /\ Further(n - 1, m) \in Nat /\ Further(n, m) \in Nat
          /\ Further(n - 1, m) <= Further(n, m)
          /\ \A token \in Nat \ {n} :
               token <= Further(n, m) => token <= Further(n - 1, m)
      BY <2>4 DEF Further
    <3>4. \A i \in 1..Len(state[n].entries) : state[n].entries[i].token \in Nat
      BY <2>4, <3>1, ReaderEntries
    <3>5. Delivered(p, state[n - 1], Further(n - 1, m))
      BY <2>4
    <3>6. Delivered(p, state[n], Further(n, m))
      BY <3>1, <3>2, <3>3, <3>4, <3>5 DEF Delivered
    <3> QED
      BY <2>2, <2>4, <3>1, <3>6
  <2>6. CASE n \in Pending(p)
    <3>1. state[n] = TakeDelivery(p, state[n - 1], n)
      BY <1>2, <2>4, <2>6
    <3>2. /\ Further(n - 1, m) \in Nat /\ n <= Further(n - 1, m) + 1
          /\ Further(n, Further(n - 1, m)) = Further(n, m)
      BY <2>4 DEF Further
    <3>3. state[n - 1] \in Reader /\ Delivered(p, state[n - 1], Further(n - 1, m))
      BY <2>4
    <3>4. /\ Delivered(p, state[n], Further(n, m))
          /\ Extends(state[n - 1].entries, state[n].entries)
      BY <2>6, <3>1, <3>2, <3>3, TakeDelivered
    <3>5. state[n] \in Reader
      BY <2>6, <3>1, <3>3, TakeTyped, PendingTokens
    <3>6. Extends(start.entries, state[n].entries)
      <4>1. Extends(start.entries, state[n - 1].entries)
        BY <2>4
      <4>2. start \in Reader /\ state[n - 1] \in Reader /\ state[n] \in Reader
        BY <3>3, <3>5
      <4> HIDE DEF Bad, Good
      <4> QED
        BY <3>4, <4>1, <4>2, ExtendsOn
    <3>7. ASSUME start.outcome # "taken" PROVE state[n] = start
      <4>1. state[n - 1] = start
        BY <2>4, <3>7
      <4> QED
        BY <3>1, <3>7, <4>1 DEF TakeDelivery
    <3> QED
      BY <2>2, <3>4, <3>5, <3>6, <3>7
  <2> QED
    BY <2>5, <2>6
<1>4. Good(last)
  BY <1>1, <1>3
<1> QED
  BY <1>2, <1>4

-----------------------------------------------------------------------------
(* Every step keeps the types.                                             *)

LEMMA AcknowledgedTokens ==
  ASSUME AuthorityTypes, InboxTypes, NEW p \in Partition
  PROVE  /\ Acknowledged(p) \in Nat /\ cursor[p] <= Acknowledged(p)
         /\ Acknowledged(p) <= Len(operations)
         /\ Acknowledged(p) \in Pending(p) \cup {cursor[p]}
         /\ \A token \in Pending(p) : token <= Acknowledged(p)
<1>1. /\ cursor[p] \in Nat /\ cursor[p] <= Len(operations)
      /\ Len(operations) \in Nat
      /\ \A token \in Pending(p) :
           token \in Nat /\ token > cursor[p] /\ token <= Len(operations)
  BY PendingTokens DEF InboxTypes, Pending
<1>2. CASE Pending(p) = {}
  BY <1>1, <1>2 DEF Acknowledged
<1>3. CASE Pending(p) # {}
  <2>1. Pending(p) \subseteq Nat
    BY <1>1
  <2>2. \E token \in Pending(p) : \A other \in Pending(p) : other <= token
    BY <1>1, <1>3, <2>1, Greatest
  <2>3. /\ Acknowledged(p) \in Pending(p)
        /\ \A other \in Pending(p) : other <= Acknowledged(p)
    BY <1>3, <2>2 DEF Acknowledged
  <2> QED
    BY <1>1, <2>3
<1> QED
  BY <1>2, <1>3

LEMMA AppendsTyped ==
  ASSUME InboxTypes, NEW p \in Partition, NEW taken \in Reader
  PROVE  /\ AppendsOf(p, taken) \in Seq({"time", "delivery"})
         /\ \A i \in 1..Len(AppendsOf(p, taken)) : AppendsOf(p, taken)[i] = "delivery"
<1> DEFINE n == Len(taken.entries) - Len(stream[p])
<1>1. n \in Int
  <2>1. Len(taken.entries) \in Nat
    BY ReaderEntries
  <2>2. stream[p] \in Seq(Entry)
    BY DEF InboxTypes
  <2> QED
    BY <2>1, <2>2
<1>2. AppendsOf(p, taken) = [i \in 1..n |-> "delivery"]
  BY DEF AppendsOf
<1> HIDE DEF n
<1>3. CASE n \in Nat
  BY <1>2, <1>3
<1>4. CASE n \notin Nat
  <2>1. 1..n = 1..0
    BY <1>1, <1>4
  <2>2. AppendsOf(p, taken) = [i \in 1..0 |-> "delivery"]
    BY <1>2, <2>1, Zenon
  <2> QED
    BY <2>2
<1> QED
  BY <1>3, <1>4

\* What a report leaves of the authority, field by field.
AuthorityFields(state) ==
  /\ state = [owner |-> state.owner, pendingMoves |-> state.pendingMoves,
              records |-> state.records, published |-> state.published,
              receipts |-> state.receipts]
  /\ state.owner \in [Agent -> Partition \cup {NoPartition}]
  /\ DOMAIN state.pendingMoves \subseteq Agent
  /\ \A a \in DOMAIN state.pendingMoves : state.pendingMoves[a] \in Journey
  /\ state.records \in World
  /\ state.published \in [Partition -> Nat]
  /\ state.receipts \subseteq Digest

Boundary(clocks) == clocks = {} \/ \E c \in Nat : clocks = {c}

LEMMA ReportTyped ==
  ASSUME AuthorityTypes, RouterTypes, NEW p \in Partition, NEW proj \in World,
         NEW clocks, Boundary(clocks)
  PROVE  /\ AuthorityFields(AfterReport(p, proj, clocks))
         /\ Reported(p, proj, clocks) \in Report
<1> DEFINE gone == LeftTown(p, proj)
           digest == DigestOf(p, proj, clocks)
           after ==
             [owner |-> [a \in Agent |-> IF a \in gone THEN NoPartition
                                         ELSE IF a \in DOMAIN proj THEN p
                                         ELSE owner[a]],
              pendingMoves |-> [a \in DOMAIN pendingMoves \ gone |-> pendingMoves[a]],
              records |-> [a \in (DOMAIN records \ gone) \cup DOMAIN proj |->
                             IF a \in DOMAIN proj THEN proj[a] ELSE records[a]],
              published |-> [published EXCEPT ![p] =
                               IF clocks = {} THEN @ ELSE CHOOSE c \in clocks : TRUE],
              receipts |-> receipts \cup {digest}]
           current ==
             [owner |-> owner, pendingMoves |-> pendingMoves, records |-> records,
              published |-> published, receipts |-> receipts]
<1>1. Reported(p, proj, clocks) \in Report
  BY DEF Boundary, Reported, Report
<1>2. gone \in SUBSET Agent
  BY DEF LeftTown, RouterTypes
<1>3. digest \in Digest
  BY <1>1, <1>2 DEF DigestOf, Digest
<1>4. AuthorityFields(current)
  BY DEF AuthorityFields, AuthorityTypes
<1>5. AuthorityFields(after)
  <2>1. after.owner \in [Agent -> Partition \cup {NoPartition}]
    BY DEF AuthorityTypes
  <2>2. /\ DOMAIN after.pendingMoves \subseteq Agent
        /\ \A a \in DOMAIN after.pendingMoves : after.pendingMoves[a] \in Journey
    BY DEF AuthorityTypes
  <2>3. after.records \in World
    <3>1. /\ DOMAIN records \subseteq Agent /\ DOMAIN proj \subseteq Agent
          /\ \A a \in DOMAIN records : records[a] \in Rec
          /\ \A a \in DOMAIN proj : proj[a] \in Rec
      BY Worlds DEF AuthorityTypes
    <3>2. after.records \in [(DOMAIN records \ gone) \cup DOMAIN proj -> Rec]
      BY <3>1
    <3>3. (DOMAIN records \ gone) \cup DOMAIN proj \in SUBSET Agent
      BY <3>1
    <3> QED
      BY <3>2, <3>3 DEF World
  <2>4. after.published \in [Partition -> Nat]
    <3>1. clocks # {} => (CHOOSE c \in clocks : TRUE) \in Nat
      BY DEF Boundary
    <3> QED
      BY <3>1 DEF AuthorityTypes
  <2>5. after.receipts \subseteq Digest
    BY <1>3 DEF AuthorityTypes
  <2> QED
    BY <2>1, <2>2, <2>3, <2>4, <2>5 DEF AuthorityFields
<1> HIDE DEF gone, digest
<1>6. AfterReport(p, proj, clocks) \in {current, after}
  BY DEF AfterReport, gone, digest
<1> QED
  BY <1>1, <1>4, <1>5, <1>6

LEMMA AuthorityBecomesTyped ==
  ASSUME AuthorityTypes, NEW state, AuthorityFields(state),
         AuthorityBecomes(state), operations' \in Seq(Operation), now' \in Nat
  PROVE  AuthorityTypes'
BY DEF AuthorityFields, AuthorityBecomes, AuthorityTypes

LEMMA RouterReportedTyped ==
  ASSUME RouterTypes, NEW p \in Partition, NEW proj \in World, NEW clocks,
         Reported(p, proj, clocks) \in Report, RouterHasReported(p, proj, clocks),
         crashes' \in Nat, timeouts' \in Nat
  PROVE  RouterTypes'
<1>1. DOMAIN proj \in SUBSET Agent
  BY Worlds
<1>2. <<Reported(p, proj, clocks)>> \in Seq(Report)
  OBVIOUS
<1> QED
  BY <1>1, <1>2 DEF RouterTypes, RouterHasReported

LEMMA StreamsTakenTyped ==
  ASSUME AuthorityTypes, InboxTypes, NEW p \in Partition,
         StreamsTaken(p, Taken(p)), UNCHANGED operations
  PROVE  InboxTypes'
<1>1. Taken(p) \in Reader
  BY TakenTyped
<1>2. Taken(p).entries \in Seq(Entry) /\ Taken(p).proj \in World
  BY <1>1 DEF Reader
<1>3. Acknowledged(p) \in Nat /\ Acknowledged(p) <= Len(operations)
  BY AcknowledgedTokens
<1> HIDE DEF Taken
<1> QED
  BY <1>2, <1>3 DEF StreamsTaken, InboxTypes

\* The part of materializeInbox that reads.
Materializes(p) ==
  IF recovering[p] THEN UNCHANGED <<inbox, tail>>
  ELSE /\ StreamsTaken(p, Taken(p))
       /\ tail' = [tail EXCEPT ![p] = @ \o AppendsOf(p, Taken(p))]

LEMMA MaterializesTyped ==
  ASSUME InboxTypesInv, NEW p \in Partition, Materializes(p), UNCHANGED operations
  PROVE  /\ InboxTypes'
         /\ tail' \in [Partition -> Seq({"time", "delivery"})]
<1>1. AuthorityTypes /\ InboxTypes /\ TickTypes
  BY DEF InboxTypesInv
<1>2. CASE recovering[p]
  BY <1>1, <1>2 DEF Materializes, inbox, InboxTypes, TickTypes
<1>3. CASE ~recovering[p]
  <2>1. StreamsTaken(p, Taken(p))
        /\ tail' = [tail EXCEPT ![p] = tail[p] \o AppendsOf(p, Taken(p))]
    BY <1>3 DEF Materializes
  <2>2. InboxTypes'
    BY <1>1, <2>1, StreamsTakenTyped
  <2>3. AppendsOf(p, Taken(p)) \in Seq({"time", "delivery"})
    BY <1>1, TakenTyped, AppendsTyped
  <2>4. tail[p] \o AppendsOf(p, Taken(p)) \in Seq({"time", "delivery"})
    BY <1>1, <2>3 DEF TickTypes
  <2> QED
    BY <1>1, <2>1, <2>2, <2>4 DEF TickTypes
<1> QED
  BY <1>2, <1>3

LEMMA StuckPlaces ==
  ASSUME NEW taken
  PROVE  StuckAt(taken) \in {"failed", "poisoned"}
BY DEF StuckAt

LEMMA MaterializeTyped ==
  ASSUME InboxTypesInv, NEW p \in Partition, NEW given \in World, NEW clocks,
         Boundary(clocks), NEW place \in Places,
         MaterializeAndPublish(p, given, clocks, place),
         UNCHANGED <<clock, lifecycle, agenda, recovering, faults>>
  PROVE  InboxTypesInv'
<1> DEFINE proj == IF recovering[p] THEN given ELSE Taken(p).proj
<1>1. AuthorityTypes /\ InboxTypes /\ TickTypes /\ RouterTypes
  BY DEF InboxTypesInv
<1>2. Taken(p) \in Reader /\ Taken(p).proj \in World
  BY <1>1, TakenTyped DEF Reader
<1>3. proj \in World
  BY <1>2
<1>4. /\ UNCHANGED <<operations, now>> /\ WorkOn(p, proj) /\ Materializes(p)
      /\ \/ UNCHANGED <<authorityState, router>> /\ Goto(p, StuckAt(Taken(p)))
         \/ UNCHANGED <<authorityState, router>> /\ Goto(p, "failed")
         \/ Published(p, proj, clocks) /\ Goto(p, place)
  BY DEF MaterializeAndPublish, Materializes
<1> HIDE DEF proj
<1>5. InboxTypes' /\ tail' \in [Partition -> Seq({"time", "delivery"})]
  BY <1>4, MaterializesTyped
<1>6. \E other \in Places : Goto(p, other)
  BY <1>4, StuckPlaces DEF Places
<1>7. TickTypes'
  BY <1>1, <1>3, <1>4, <1>5, <1>6 DEF TickTypes, WorkOn, Goto, lifecycle
<1>8. operations' \in Seq(Operation) /\ now' \in Nat /\ crashes' \in Nat
      /\ timeouts' \in Nat
  BY <1>1, <1>4 DEF AuthorityTypes, RouterTypes, faults
<1>9. AuthorityTypes' /\ RouterTypes'
  <2>1. CASE UNCHANGED <<authorityState, router>>
    BY <1>1, <1>4, <1>8, <2>1
       DEF AuthorityTypes, RouterTypes, authorityState, router
  <2>2. CASE Published(p, proj, clocks)
    <3>1. /\ AuthorityFields(AfterReport(p, proj, clocks))
          /\ Reported(p, proj, clocks) \in Report
      BY <1>1, <1>3, ReportTyped
    <3>2. /\ AuthorityBecomes(AfterReport(p, proj, clocks))
          /\ RouterHasReported(p, proj, clocks)
      BY <2>2 DEF Published
    <3> QED
      BY <1>1, <1>3, <1>8, <3>1, <3>2, AuthorityBecomesTyped, RouterReportedTyped
  <2> QED
    BY <1>4, <2>1, <2>2
<1> QED
  BY <1>5, <1>7, <1>9 DEF InboxTypesInv

LEMMA LeaveBarrierTyped ==
  ASSUME InboxTypesInv, NEW p \in Partition, LeaveBarrier(p), UNCHANGED operations
  PROVE  /\ Materializes(p)
         /\ InboxTypes' /\ tail' \in [Partition -> Seq({"time", "delivery"})]
         /\ pc' \in [Partition -> Places] /\ working' \in [Partition -> World]
<1>1. AuthorityTypes /\ InboxTypes /\ TickTypes
  BY DEF InboxTypesInv
<1>2. Taken(p).proj \in World
  BY <1>1, TakenTyped DEF Reader
<1>3. /\ Materializes(p)
      /\ \/ Goto(p, "ready") /\ UNCHANGED working
         \/ /\ WorkOn(p, Taken(p).proj)
            /\ Goto(p, "ready") \/ Goto(p, StuckAt(Taken(p)))
  BY DEF LeaveBarrier, Materializes
<1>4. /\ pc' \in [Partition -> Places] /\ working' \in [Partition -> World]
  BY <1>1, <1>2, <1>3, StuckPlaces DEF TickTypes, Goto, WorkOn, Places
<1> QED
  BY <1>3, <1>4, MaterializesTyped

LEMMA ClocksTyped ==
  ASSUME TickTypes, NEW p \in Partition
  PROVE  ClockOf(p) \in Nat /\ Target(p) \in Nat /\ Target(p) = ClockOf(p) + 1
         /\ boundary[p].proj \in World /\ boundary[p].clock \in Nat
<1>1. boundary[p] \in [proj : World, clock : Nat] /\ clock[p] \in Nat
  BY DEF TickTypes
<1>2. ClockOf(p) \in {boundary[p].clock, clock[p]}
  BY DEF ClockOf
<1> QED
  BY <1>1, <1>2 DEF Target

LEMMA PreTickTyped ==
  ASSUME InboxTypesInv, NEW p \in Partition, PreTick(p)
  PROVE  InboxTypesInv'
<1>1. boundary[p].proj \in World /\ Boundary({ClockOf(p)})
  BY ClocksTyped DEF InboxTypesInv, Boundary
<1>2. (IF now < Target(p) THEN "waiting" ELSE "ready") \in Places
  BY DEF Places
<1> QED
  BY <1>1, <1>2, MaterializeTyped DEF PreTick

LEMMA FinishTickTyped ==
  ASSUME InboxTypesInv, NEW p \in Partition, FinishTick(p)
  PROVE  InboxTypesInv'
<1>1. working[p] \in World /\ clock[p] \in Nat /\ Target(p) \in Nat
  BY ClocksTyped DEF InboxTypesInv, TickTypes
<1>2. Boundary({IF recovering[p] THEN Target(p) ELSE clock[p]})
  BY <1>1 DEF Boundary
<1>3. "finished" \in Places
  BY DEF Places
<1> QED
  BY <1>1, <1>2, <1>3, MaterializeTyped DEF FinishTick

LEMMA DrainTyped ==
  ASSUME InboxTypesInv, NEW p \in Partition, DrainAfterCycle(p)
  PROVE  InboxTypesInv'
<1>1. working[p] \in World /\ Boundary({}) /\ "body" \in Places
  BY DEF InboxTypesInv, TickTypes, Boundary, Places
<1> QED
  BY <1>1, MaterializeTyped DEF DrainAfterCycle

LEMMA FindAdvancedTyped ==
  ASSUME InboxTypesInv, NEW p \in Partition, FindAdvanced(p)
  PROVE  InboxTypesInv'
<1>1. /\ InboxTypes' /\ tail' \in [Partition -> Seq({"time", "delivery"})]
      /\ pc' \in [Partition -> Places] /\ working' \in [Partition -> World]
  BY LeaveBarrierTyped DEF FindAdvanced
<1>2. AuthorityTypes' /\ RouterTypes'
  BY DEF FindAdvanced, InboxTypesInv, AuthorityTypes, RouterTypes,
         authorityState, router, faults
<1>3. TickTypes'
  BY <1>1 DEF FindAdvanced, InboxTypesInv, TickTypes, lifecycle
<1> QED
  BY <1>1, <1>2, <1>3 DEF InboxTypesInv

(* The image of a finite set under a function is finite.                   *)
LEMMA FiniteImage ==
  ASSUME NEW S, IsFiniteSet(S), NEW f, f = [x \in S |-> f[x]]
  PROVE  IsFiniteSet({f[x] : x \in S})
<1> DEFINE T == {f[x] : x \in S}
<1>1. f \in Surjection(S, T)
  BY DEF Surjection
<1> QED
  BY <1>1, FS_Surjection

\* The events of a handover, as AdvanceTime settles it.
HandoverAt(clockNow, q) ==
  LET settled == WithFact(records, Len(operations) + 1, Depositors \cap DOMAIN records)
      arriving == Arriving(clockNow)
  IN {Departed(a, settled[a]) : a \in {b \in arriving : pendingMoves[b].from = q}}
       \cup {Arrived(a, settled[a]) : a \in {b \in arriving : pendingMoves[b].to = q}}

AdvanceOf(clockNow) ==
  [kind |-> "advance", key |-> <<clockNow>>, due |-> clockNow,
   parties |-> Depositors \cap DOMAIN records,
   to |-> [q \in Partition |-> SetToSeq(HandoverAt(clockNow, q))]]

LEMMA HandoverTyped ==
  ASSUME AuthorityTypes, NEW clockNow \in Nat, NEW q \in Partition,
         DOMAIN pendingMoves \subseteq DOMAIN records
  PROVE  /\ IsFiniteSet(HandoverAt(clockNow, q))
         /\ HandoverAt(clockNow, q) \subseteq Event
<1> DEFINE token == Len(operations) + 1
           paid == Depositors \cap DOMAIN records
           settled == WithFact(records, token, paid)
           arriving == Arriving(clockNow)
           leaving == {b \in arriving : pendingMoves[b].from = q}
           coming == {b \in arriving : pendingMoves[b].to = q}
           out == {Departed(a, settled[a]) : a \in leaving}
           in == {Arrived(a, settled[a]) : a \in coming}
<1>1. token \in Nat /\ paid \in SUBSET Agent /\ records \in World
  BY Constants, PendingTokens DEF AuthorityTypes
<1>2. settled \in World /\ DOMAIN settled = DOMAIN records
  BY <1>1, WorldChanges
<1>3. \A a \in DOMAIN records : a \in Agent /\ settled[a] \in Rec
  BY <1>2, Worlds
<1>4. arriving \subseteq DOMAIN records
  BY DEF Arriving
<1>5. IsFiniteSet(leaving) /\ IsFiniteSet(coming)
  <2>1. leaving \in SUBSET Agent /\ coming \in SUBSET Agent
    BY <1>3, <1>4
  <2> QED
    BY <2>1, Constants, FS_Subset
<1> HIDE DEF settled
<1>6. IsFiniteSet(out) /\ out \subseteq Event
  <2> DEFINE f == [a \in leaving |-> Departed(a, settled[a])]
  <2>1. \A a \in leaving : f[a] = Departed(a, settled[a])
    OBVIOUS
  <2>2. f = [a \in leaving |-> f[a]]
    OBVIOUS
  <2>3. \A a \in leaving : Departed(a, settled[a]) \in Event
    BY <1>3, <1>4 DEF Departed, Event, Handover
  <2> HIDE DEF f
  <2>4. IsFiniteSet({f[a] : a \in leaving})
    BY <1>5, <2>2, FiniteImage
  <2>5. {f[a] : a \in leaving} = out
    BY <2>1
  <2> QED
    BY <2>3, <2>4, <2>5
<1>7. IsFiniteSet(in) /\ in \subseteq Event
  <2> DEFINE f == [a \in coming |-> Arrived(a, settled[a])]
  <2>1. \A a \in coming : f[a] = Arrived(a, settled[a])
    OBVIOUS
  <2>2. f = [a \in coming |-> f[a]]
    OBVIOUS
  <2>3. \A a \in coming : Arrived(a, settled[a]) \in Event
    BY <1>3, <1>4 DEF Arrived, Event, Handover
  <2> HIDE DEF f
  <2>4. IsFiniteSet({f[a] : a \in coming})
    BY <1>5, <2>2, FiniteImage
  <2>5. {f[a] : a \in coming} = in
    BY <2>1
  <2> QED
    BY <2>3, <2>4, <2>5
<1>8. HandoverAt(clockNow, q) = out \cup in
  BY DEF HandoverAt, settled
<1> HIDE DEF out, in
<1> QED
  BY <1>6, <1>7, <1>8, FS_Union

LEMMA AdvanceOfTyped ==
  ASSUME AuthorityTypes, NEW clockNow \in Nat, DOMAIN pendingMoves \subseteq DOMAIN records
  PROVE  AdvanceOf(clockNow) \in Operation
<1>1. \A q \in Partition : SetToSeq(HandoverAt(clockNow, q)) \in Seq(Event)
  <2> SUFFICES ASSUME NEW q \in Partition
               PROVE  SetToSeq(HandoverAt(clockNow, q)) \in Seq(Event)
    OBVIOUS
  <2> DEFINE S == HandoverAt(clockNow, q)
  <2>1. IsFiniteSet(S) /\ S \subseteq Event
    BY HandoverTyped
  <2> HIDE DEF S
  <2>2. Cardinality(S) \in Nat /\ SetToSeq(S) \in [1..Cardinality(S) -> S]
    BY <2>1, Lists
  <2>3. SetToSeq(S) \in Seq(S)
    BY <2>2
  <2> QED
    BY <2>1, <2>3 DEF S
<1>2. <<clockNow>> \in OperationKey
  BY DEF OperationKey
<1>3. Depositors \cap DOMAIN records \in SUBSET Agent
  BY Constants
<1> QED
  BY <1>1, <1>2, <1>3 DEF AdvanceOf, Operation

LEMMA AdvanceTyped ==
  ASSUME InboxTypesInv, DOMAIN pendingMoves \subseteq DOMAIN records,
         NEW p \in Partition, Advance(p)
  PROVE  InboxTypesInv'
<1>1. AuthorityTypes /\ Target(p) \in Nat
  BY ClocksTyped DEF InboxTypesInv
<1> DEFINE settled == WithFact(records, Len(operations) + 1,
                               Depositors \cap DOMAIN records)
           arriving == Arriving(Target(p))
<1>2. /\ now' = Target(p)
      /\ operations' = Append(operations, AdvanceOf(Target(p)))
      /\ records' = settled
      /\ owner' = [a \in Agent |-> IF a \in arriving THEN pendingMoves[a].to
                                                     ELSE owner[a]]
      /\ pendingMoves' = [a \in DOMAIN pendingMoves \ arriving |-> pendingMoves[a]]
  BY DEF Advance, AdvanceTime, AdvanceOf, HandoverAt
<1>3. settled \in World
  <2>1. Len(operations) + 1 \in Nat /\ Depositors \cap DOMAIN records \in SUBSET Agent
        /\ records \in World
    BY <1>1, Constants, PendingTokens DEF AuthorityTypes
  <2> QED
    BY <2>1, WorldChanges
<1>4. operations' \in Seq(Operation) /\ Len(operations') = Len(operations) + 1
  BY <1>1, <1>2, AdvanceOfTyped DEF AuthorityTypes
<1>5. owner' \in [Agent -> Partition \cup {NoPartition}]
  <2>1. \A a \in arriving : pendingMoves[a].to \in Partition
    BY <1>1 DEF Arriving, AuthorityTypes, Journey
  <2> QED
    BY <1>1, <1>2, <2>1 DEF AuthorityTypes
<1>6. /\ DOMAIN pendingMoves' \subseteq Agent
      /\ \A a \in DOMAIN pendingMoves' : pendingMoves'[a] \in Journey
  BY <1>1, <1>2 DEF AuthorityTypes
<1> HIDE DEF settled, arriving
<1>7. AuthorityTypes'
  BY <1>1, <1>2, <1>3, <1>4, <1>5, <1>6 DEF AuthorityTypes, Advance
<1>8. InboxTypes'
  <2>1. Len(operations) \in Nat
    BY <1>1, PendingTokens
  <2> QED
    BY <1>4, <2>1 DEF InboxTypesInv, InboxTypes, Advance, inbox
<1>9. TickTypes' /\ RouterTypes'
  BY DEF InboxTypesInv, TickTypes, RouterTypes, Advance, lifecycle, router, faults
<1> QED
  BY <1>7, <1>8, <1>9 DEF InboxTypesInv

\* The authority has a record of the agents it has an owner for, and only they
\* can be in transit.
Known(state) ==
  /\ DOMAIN state.records = {a \in Agent : state.owner[a] # NoPartition}
  /\ DOMAIN state.pendingMoves \subseteq DOMAIN state.records

Authority == [owner |-> owner, pendingMoves |-> pendingMoves, records |-> records,
              published |-> published, receipts |-> receipts]

LEMMA ReportKnown ==
  ASSUME AuthorityTypes, Known(Authority), NEW p \in Partition, NEW proj \in World,
         NEW clocks
  PROVE  Known(AfterReport(p, proj, clocks))
<1> DEFINE gone == LeftTown(p, proj)
           after == AfterReport(p, proj, clocks)
<1>1. CASE IsUnchanged(p, proj, clocks) \/ DigestOf(p, proj, clocks) \in receipts
  BY <1>1 DEF AfterReport, Authority
<1>2. CASE ~(IsUnchanged(p, proj, clocks) \/ DigestOf(p, proj, clocks) \in receipts)
  <2>1. /\ after.owner = [a \in Agent |-> IF a \in gone THEN NoPartition
                                          ELSE IF a \in DOMAIN proj THEN p
                                          ELSE owner[a]]
        /\ DOMAIN after.pendingMoves = DOMAIN pendingMoves \ gone
        /\ DOMAIN after.records = (DOMAIN records \ gone) \cup DOMAIN proj
    BY <1>2 DEF AfterReport
  <2>2. gone \cap DOMAIN proj = {}
    BY DEF LeftTown
  <2>3. p # NoPartition /\ DOMAIN proj \subseteq Agent
    BY Constants, Worlds
  <2>4. /\ DOMAIN records = {a \in Agent : owner[a] # NoPartition}
        /\ DOMAIN pendingMoves \subseteq DOMAIN records
    BY DEF Known, Authority
  <2> HIDE DEF after, gone
  <2>5. \A a \in Agent : a \in DOMAIN after.records <=> after.owner[a] # NoPartition
    BY <2>1, <2>2, <2>3, <2>4
  <2>6. DOMAIN after.records \subseteq Agent
    BY <2>1, <2>3, <2>4
  <2> QED
    BY <2>1, <2>4, <2>5, <2>6 DEF Known, after
<1> QED
  BY <1>1, <1>2

(* What a cycle settles.                                                   *)
LEMMA TransferTyped ==
  ASSUME AuthorityTypes, TickTypes, NEW p \in Partition, NEW a \in Agent,
         NEW b \in Agent, NEW state, AuthorityFields(state), Known(state)
  PROVE  /\ Transfer(p, a, b, state).operation \in Operation
         /\ AuthorityFields(Transfer(p, a, b, state).state)
         /\ Known(Transfer(p, a, b, state).state)
<1> DEFINE token == Len(operations) + 1
           both == {a, b}
           settled == WithFact(state.records, token, both)
           made == Transfer(p, a, b, state)
           to == [q \in Partition |-> IF \E c \in both : state.owner[c] = q
                                      THEN <<Settled(token, both)>> ELSE <<>>]
<1>1. token \in Nat /\ both \in SUBSET Agent /\ now \in Nat
  BY PendingTokens DEF AuthorityTypes
<1>2. settled \in World /\ DOMAIN settled = DOMAIN state.records
  <2>1. state.records \in World
    BY DEF AuthorityFields
  <2>2. \A agents \in SUBSET Agent :
          /\ WithFact(state.records, token, agents) \in World
          /\ DOMAIN WithFact(state.records, token, agents) = DOMAIN state.records
    BY <1>1, <2>1, WorldChanges
  <2> QED
    BY <1>1, <2>2
<1>3. made.state = [state EXCEPT !.records = settled]
  BY DEF Transfer
<1>4. Settled(token, both) \in Event
  BY <1>1 DEF Settled, Event, Fact
<1>5. KeyOf(p, a, "transfer") \in OperationKey
  BY DEF KeyOf, OperationKey, TickTypes
<1> HIDE DEF settled
<1>6. AuthorityFields(made.state)
  BY <1>2, <1>3 DEF AuthorityFields
<1>7. Known(made.state)
  BY <1>2, <1>3 DEF Known, AuthorityFields
<1>8. made.operation = [kind |-> "transfer", key |-> KeyOf(p, a, "transfer"),
                        due |-> now, parties |-> both, to |-> to]
  BY DEF Transfer
<1>9. to \in [Partition -> Seq(Event)]
  BY <1>4
<1> HIDE DEF to, both, made
<1>10. made.operation \in Operation
  BY <1>1, <1>5, <1>8, <1>9 DEF Operation
<1> USE DEF made
<1> QED
  BY <1>6, <1>7, <1>10

LEMMA MoveTyped ==
  ASSUME AuthorityTypes, TickTypes, NEW p \in Partition, NEW a \in Agent,
         NEW q \in Partition, NEW state, AuthorityFields(state), Known(state),
         Move(p, a, q, state).enabled
  PROVE  /\ Move(p, a, q, state).operation \in Operation
         /\ AuthorityFields(Move(p, a, q, state).state)
         /\ Known(Move(p, a, q, state).state)
<1> DEFINE token == Len(operations) + 1
           settled == WithFact(state.records, token, {a})
           atOnce == TravelTicks = 0
           journey == [from |-> p, to |-> q, token |-> token, due |-> now + TravelTicks]
           made == Move(p, a, q, state)
           movedOwner == IF atOnce THEN [state.owner EXCEPT ![a] = q] ELSE state.owner
           moves == IF atOnce THEN state.pendingMoves
                    ELSE [b \in DOMAIN state.pendingMoves \cup {a} |->
                            IF b = a THEN journey ELSE state.pendingMoves[b]]
           out == IF atOnce THEN <<Departed(a, settled[a])>> ELSE <<>>
           to == [r \in Partition |->
                    CASE r = p -> <<Settled(token, {a})>> \o out
                      [] r = q /\ atOnce -> <<Arrived(a, settled[a])>>
                      [] OTHER -> <<>>]
<1>1. /\ token \in Nat /\ {a} \in SUBSET Agent /\ now \in Nat
      /\ now + TravelTicks \in Nat
  BY PendingTokens, Constants DEF AuthorityTypes
<1>2. settled \in World /\ DOMAIN settled = DOMAIN state.records
  <2>1. state.records \in World
    BY DEF AuthorityFields
  <2>2. \A agents \in SUBSET Agent :
          /\ WithFact(state.records, token, agents) \in World
          /\ DOMAIN WithFact(state.records, token, agents) = DOMAIN state.records
    BY <1>1, <2>1, WorldChanges
  <2> QED
    BY <1>1, <2>2
<1>3. a \in DOMAIN state.records /\ state.owner[a] = p
  BY DEF Move
<1>4. settled[a] \in Rec
  BY <1>2, <1>3, Worlds
<1>5. journey \in Journey
  BY <1>1 DEF Journey
<1>6. KeyOf(p, a, "move") \in OperationKey
  BY DEF KeyOf, OperationKey, TickTypes
<1>7. /\ Settled(token, {a}) \in Event /\ Departed(a, settled[a]) \in Event
      /\ Arrived(a, settled[a]) \in Event
  BY <1>1, <1>4 DEF Settled, Departed, Arrived, Event, Fact, Handover
<1>8. made.state = [state EXCEPT !.records = settled, !.owner = movedOwner,
                                 !.pendingMoves = moves]
  BY DEF Move
<1>9. made.operation = [kind |-> "move", key |-> KeyOf(p, a, "move"),
                        due |-> journey.due, parties |-> {a}, to |-> to]
  BY DEF Move
<1>10. journey.due \in Nat
  BY <1>5 DEF Journey
<1> HIDE DEF settled, journey
<1>11. movedOwner \in [Agent -> Partition \cup {NoPartition}]
  BY DEF AuthorityFields
<1>12. /\ DOMAIN moves \subseteq Agent /\ DOMAIN moves \subseteq DOMAIN settled
       /\ \A b \in DOMAIN moves : moves[b] \in Journey
  BY <1>2, <1>3, <1>5 DEF AuthorityFields, Known
<1>13. \A b \in Agent : movedOwner[b] # NoPartition <=> state.owner[b] # NoPartition
  BY <1>3, Constants DEF AuthorityFields
<1> HIDE DEF movedOwner, moves
<1>14. AuthorityFields(made.state)
  BY <1>2, <1>8, <1>11, <1>12 DEF AuthorityFields
<1>15. Known(made.state)
  <2>1. /\ made.state.records = settled /\ made.state.owner = movedOwner
        /\ made.state.pendingMoves = moves
    BY <1>8 DEF AuthorityFields
  <2> HIDE DEF made
  <2> QED
    BY <1>2, <1>12, <1>13, <2>1 DEF Known
<1>16. to \in [Partition -> Seq(Event)]
  <2>1. out \in Seq(Event)
    BY <1>7
  <2>2. <<Settled(token, {a})>> \in Seq(Event) /\ <<Arrived(a, settled[a])>> \in Seq(Event)
    BY <1>7
  <2> HIDE DEF out
  <2>3. <<Settled(token, {a})>> \o out \in Seq(Event)
    BY <2>1, <2>2
  <2> QED
    BY <2>2, <2>3
<1> HIDE DEF to
<1>17. made.operation \in Operation
  BY <1>1, <1>6, <1>9, <1>10, <1>16 DEF Operation
<1> QED
  BY <1>14, <1>15, <1>17

LEMMA KnownKept ==
  ASSUME NEW state, Known(state), AuthorityBecomes(state)
  PROVE  Known(Authority)'
BY DEF Known, Authority, AuthorityBecomes

LEMMA KnownStays ==
  ASSUME Known(Authority), UNCHANGED authorityState
  PROVE  Known(Authority)'
BY DEF Known, Authority, authorityState

InboxInv == InboxTypesInv /\ Known(Authority)

LEMMA CycleTyped ==
  ASSUME InboxInv, NEW p \in Partition, NEW a \in Agent, NEW made, NEW key,
         made.enabled => /\ made.operation \in Operation
                         /\ AuthorityFields(made.state) /\ Known(made.state),
         Cycle(p, a, made, key)
  PROVE  InboxInv'
<1> DEFINE state == AfterReport(p, working[p], {})
           known == SettlementOf(key)
           t == CHOOSE t \in known : TRUE
<1>1. /\ AuthorityTypes /\ InboxTypes /\ TickTypes /\ RouterTypes
      /\ Known(Authority) /\ working[p] \in World
  BY DEF InboxInv, InboxTypesInv, TickTypes
<1>2. /\ UNCHANGED <<now, inbox, clock, lifecycle, tail, recovering, faults>>
      /\ agenda' = [agenda EXCEPT ![p] = @ \ {a}]
  BY DEF Cycle
<1>3. CASE /\ UNCHANGED <<operations, authorityState, working, router>>
           /\ Goto(p, "failed")
  <2>1. Known(Authority)'
    BY <1>1, <1>3, KnownStays
  <2>2. AuthorityTypes' /\ InboxTypes' /\ RouterTypes'
    BY <1>1, <1>2, <1>3 DEF AuthorityTypes, InboxTypes, RouterTypes,
       authorityState, inbox, router, faults
  <2>3. TickTypes'
    BY <1>1, <1>2, <1>3 DEF TickTypes, lifecycle, Goto, Places
  <2> QED
    BY <2>1, <2>2, <2>3 DEF InboxInv, InboxTypesInv
<1>4. CASE /\ RouterHasReported(p, working[p], {}) /\ Goto(p, "drain")
           /\ \/ /\ known # {}
                 /\ AuthorityBecomes(state)
                 /\ UNCHANGED operations
                 /\ WorkOn(p, AppliedAll(working[p], operations[t].to[p]).proj)
              \/ /\ made.enabled
                 /\ AuthorityBecomes(made.state)
                 /\ operations' = Append(operations, made.operation)
                 /\ WorkOn(p, AppliedAll(working[p], made.operation.to[p]).proj)
  <2>1. /\ AuthorityFields(state) /\ Known(state)
        /\ Reported(p, working[p], {}) \in Report
    BY <1>1, ReportTyped, ReportKnown DEF Boundary
  <2>2. crashes' \in Nat /\ timeouts' \in Nat /\ now' \in Nat
    BY <1>1, <1>2 DEF faults, RouterTypes, AuthorityTypes
  <2>3. RouterTypes'
    BY <1>1, <1>4, <2>1, <2>2, RouterReportedTyped
  <2>4. /\ AuthorityTypes' /\ Known(Authority)' /\ Len(operations) <= Len(operations')
        /\ \E events \in Seq(Event) : WorkOn(p, AppliedAll(working[p], events).proj)
    <3>1. CASE /\ known # {} /\ AuthorityBecomes(state) /\ UNCHANGED operations
               /\ WorkOn(p, AppliedAll(working[p], operations[t].to[p]).proj)
      <4>1. t \in DOMAIN operations
        BY <3>1 DEF SettlementOf
      <4>2. operations[t] \in Operation /\ Len(operations) \in Nat
            /\ operations \in Seq(Operation)
        BY <1>1, <4>1 DEF AuthorityTypes
      <4>3. operations[t].to[p] \in Seq(Event)
        BY <4>2 DEF Operation
      <4> HIDE DEF t, known, state
      <4>4. AuthorityTypes' /\ Known(Authority)'
        BY <1>1, <2>1, <2>2, <3>1, <4>2, AuthorityBecomesTyped, KnownKept
      <4> QED
        BY <3>1, <4>2, <4>3, <4>4
    <3>2. CASE /\ made.enabled /\ AuthorityBecomes(made.state)
               /\ operations' = Append(operations, made.operation)
               /\ WorkOn(p, AppliedAll(working[p], made.operation.to[p]).proj)
      <4>1. /\ made.operation \in Operation /\ AuthorityFields(made.state)
            /\ Known(made.state)
        BY <3>2
      <4>2. made.operation.to[p] \in Seq(Event)
        BY <4>1 DEF Operation
      <4>3. operations' \in Seq(Operation) /\ Len(operations) <= Len(operations')
        BY <1>1, <3>2, <4>1 DEF AuthorityTypes
      <4>4. AuthorityTypes' /\ Known(Authority)'
        BY <1>1, <2>2, <3>2, <4>1, <4>3, AuthorityBecomesTyped, KnownKept
      <4> QED
        BY <3>2, <4>2, <4>3, <4>4
    <3> QED
      BY <1>4, <3>1, <3>2
  <2>5. InboxTypes'
    <3>1. Len(operations) \in Nat /\ Len(operations') \in Nat
      BY <1>1, <2>4 DEF AuthorityTypes
    <3> QED
      BY <1>1, <1>2, <2>4, <3>1 DEF InboxTypes, inbox
  <2>6. TickTypes'
    <3>1. PICK events \in Seq(Event) :
            WorkOn(p, AppliedAll(working[p], events).proj)
      BY <2>4
    <3>2. AppliedAll(working[p], events).proj \in World
      BY <1>1, AppliedAllTyped DEF Reduction
    <3> QED
      BY <1>1, <1>2, <1>4, <3>1, <3>2
         DEF TickTypes, lifecycle, Goto, Places, WorkOn
  <2> QED
    BY <2>3, <2>4, <2>5, <2>6 DEF InboxInv, InboxTypesInv
<1> QED
  BY <1>3, <1>4 DEF Cycle

LEMMA AgentStepsTyped ==
  ASSUME InboxInv, NEW p \in Partition, NEW a \in Agent,
         TransferCycle(p, a) \/ MoveCycle(p, a)
  PROVE  InboxInv'
<1> DEFINE state == AfterReport(p, working[p], {})
<1>1. /\ AuthorityTypes /\ TickTypes /\ RouterTypes /\ Known(Authority)
      /\ working[p] \in World /\ Boundary({})
  BY DEF InboxInv, InboxTypesInv, TickTypes, Boundary
<1>2. AuthorityFields(state) /\ Known(state)
  BY <1>1, ReportTyped, ReportKnown
<1> HIDE DEF state
<1>3. CASE TransferCycle(p, a)
  <2>1. PICK b \in Agent : Cycle(p, a, Transfer(p, a, b, state), KeyOf(p, a, "transfer"))
    BY <1>3 DEF TransferCycle, state
  <2> QED
    BY <1>1, <1>2, <2>1, TransferTyped, CycleTyped
<1>4. CASE MoveCycle(p, a)
  <2>1. PICK q \in Partition : Cycle(p, a, Move(p, a, q, state), KeyOf(p, a, "move"))
    BY <1>4 DEF MoveCycle, state
  <2> QED
    BY <1>1, <1>2, <2>1, MoveTyped, CycleTyped
<1> QED
  BY <1>3, <1>4

LEMMA MaterializeKnown ==
  ASSUME InboxInv, NEW p \in Partition, NEW given \in World, NEW clocks, NEW place,
         MaterializeAndPublish(p, given, clocks, place)
  PROVE  Known(Authority)'
<1> DEFINE proj == IF recovering[p] THEN given ELSE Taken(p).proj
<1>1. Taken(p).proj \in World
  BY TakenTyped DEF Reader, InboxInv, InboxTypesInv
<1>2. proj \in World
  BY <1>1
<1>3. UNCHANGED authorityState \/ AuthorityBecomes(AfterReport(p, proj, clocks))
  BY DEF MaterializeAndPublish, Published
<1> HIDE DEF proj
<1>4. Known(AfterReport(p, proj, clocks))
  BY <1>2, ReportKnown DEF InboxInv, InboxTypesInv
<1> QED
  BY <1>3, <1>4, KnownKept, KnownStays DEF InboxInv

LEMMA AppendTimeTyped ==
  ASSUME InboxInv, NEW p \in Partition, AppendTime(p)
  PROVE  InboxInv'
<1>1. /\ AuthorityTypes /\ InboxTypes /\ TickTypes /\ RouterTypes
      /\ Known(Authority)
  BY DEF InboxInv, InboxTypesInv
<1>2. /\ UNCHANGED <<operations, now, authorityState, stream, cursor, lifecycle,
                     recovering, router, faults>>
      /\ \/ Goto(p, "failed") /\ UNCHANGED <<projection, clock, tail, working, agenda>>
         \/ /\ Goto(p, "body") /\ WorkOn(p, AgedBy(working[p], 1))
            /\ agenda' = [agenda EXCEPT ![p] = DOMAIN working[p]]
            /\ \/ UNCHANGED <<projection, clock, tail>>
               \/ /\ projection' = [projection EXCEPT ![p] = AgedBy(projection[p], 1)]
                  /\ clock' = [clock EXCEPT ![p] = @ + 1]
                  /\ tail' = [tail EXCEPT ![p] = Append(@, "time")]
  BY DEF AppendTime
<1>3. AuthorityTypes' /\ RouterTypes' /\ Known(Authority)'
  BY <1>1, <1>2, KnownStays DEF AuthorityTypes, RouterTypes, authorityState,
     router, faults
<1>4. /\ working[p] \in World /\ projection[p] \in World
      /\ AgedBy(working[p], 1) \in World /\ AgedBy(projection[p], 1) \in World
      /\ DOMAIN working[p] \in SUBSET Agent
  <2>1. working[p] \in World /\ projection[p] \in World
    BY <1>1 DEF TickTypes, InboxTypes
  <2> QED
    BY <2>1, Worlds, WorldChanges
<1>5. projection' \in [Partition -> World]
  BY <1>1, <1>2, <1>4 DEF InboxTypes
<1>6. InboxTypes'
  BY <1>1, <1>2, <1>5 DEF InboxTypes
<1>7. clock' \in [Partition -> Nat] /\ tail' \in [Partition -> Seq({"time", "delivery"})]
  <2>1. /\ clock \in [Partition -> Nat] /\ tail \in [Partition -> Seq({"time", "delivery"})]
        /\ clock[p] + 1 \in Nat
        /\ Append(tail[p], "time") \in Seq({"time", "delivery"})
    BY <1>1 DEF TickTypes
  <2>2. \/ UNCHANGED <<clock, tail>>
        \/ /\ clock' = [clock EXCEPT ![p] = clock[p] + 1]
           /\ tail' = [tail EXCEPT ![p] = Append(tail[p], "time")]
    BY <1>2
  <2> QED
    BY <2>1, <2>2
<1>8. TickTypes'
  <2>1. /\ pc' \in [Partition -> Places]
        /\ working' \in [Partition -> World] /\ agenda' \in [Partition -> SUBSET Agent]
    <3>1. CASE Goto(p, "failed") /\ UNCHANGED <<working, agenda>>
      BY <1>1, <3>1 DEF TickTypes, Goto, Places
    <3>2. CASE /\ Goto(p, "body") /\ WorkOn(p, AgedBy(working[p], 1))
               /\ agenda' = [agenda EXCEPT ![p] = DOMAIN working[p]]
      BY <1>1, <1>4, <3>2 DEF TickTypes, Goto, WorkOn, Places
    <3> QED
      BY <1>2, <3>1, <3>2
  <2>2. UNCHANGED <<ticked, boundary, recovering>>
    BY <1>2 DEF lifecycle
  <2> QED
    BY <1>1, <1>7, <2>1, <2>2 DEF TickTypes
<1> QED
  BY <1>3, <1>6, <1>8 DEF InboxInv, InboxTypesInv

LEMMA CompleteTickTyped ==
  ASSUME InboxInv, NEW p \in Partition, CompleteTick(p)
  PROVE  InboxInv'
<1> DEFINE last == ticked[p] + 1 = MaxTicks
           resumes == recovering[p] /\ Len(tail[p]) > 1 /\ ~last
<1>1. /\ AuthorityTypes /\ InboxTypes /\ TickTypes /\ RouterTypes
      /\ Known(Authority)
  BY DEF InboxInv, InboxTypesInv
<1>2. /\ UNCHANGED <<operations, now, authorityState, inbox, clock, working,
                     agenda, router, faults>>
      /\ ticked' = [ticked EXCEPT ![p] = @ + 1]
      /\ recovering' = [recovering EXCEPT ![p] = resumes]
      /\ boundary' = [boundary EXCEPT ![p] =
            IF resumes THEN [proj |-> AgedBy(boundary[p].proj, 1),
                             clock |-> boundary[p].clock + 1]
                       ELSE [proj |-> projection[p], clock |-> clock[p]]]
      /\ tail' = [tail EXCEPT ![p] = IF resumes THEN Tail(tail[p]) ELSE <<>>]
      /\ Goto(p, IF last THEN "done" ELSE "start")
  BY DEF CompleteTick
<1>3. /\ boundary[p].proj \in World /\ boundary[p].clock \in Nat
      /\ projection[p] \in World /\ clock[p] \in Nat
      /\ tail[p] \in Seq({"time", "delivery"})
      /\ recovering[p] \in BOOLEAN
  BY <1>1, ClocksTyped DEF InboxTypes, TickTypes
<1>4. AgedBy(boundary[p].proj, 1) \in World
  BY <1>3, WorldChanges
<1>5. resumes \in BOOLEAN
  BY <1>3
<1>6. resumes => Tail(tail[p]) \in Seq({"time", "delivery"})
  <2> SUFFICES ASSUME resumes PROVE Tail(tail[p]) \in Seq({"time", "delivery"})
    OBVIOUS
  <2>1. tail[p] # <<>>
    BY <1>3
  <2> QED
    BY <1>3, <2>1
<1> HIDE DEF resumes, last
<1>7. boundary' \in [Partition -> [proj : World, clock : Nat]]
  BY <1>1, <1>2, <1>3, <1>4 DEF TickTypes
<1>8. tail' \in [Partition -> Seq({"time", "delivery"})]
  BY <1>1, <1>2, <1>6 DEF TickTypes
<1>9. ticked' \in [Partition -> Nat]
  BY <1>1, <1>2 DEF TickTypes
<1>10. recovering' \in [Partition -> BOOLEAN] /\ pc' \in [Partition -> Places]
  BY <1>1, <1>2, <1>5 DEF TickTypes, Goto, Places
<1>11. TickTypes'
  BY <1>1, <1>2, <1>7, <1>8, <1>9, <1>10 DEF TickTypes
<1>12. AuthorityTypes' /\ InboxTypes' /\ RouterTypes' /\ Known(Authority)'
  BY <1>1, <1>2, KnownStays DEF AuthorityTypes, InboxTypes, RouterTypes,
     authorityState, inbox, router, faults
<1> QED
  BY <1>11, <1>12 DEF InboxInv, InboxTypesInv

\* A start that ends here, or is taken up again.
LEMMA RestTyped ==
  ASSUME InboxInv, NEW p \in Partition, TimesOut(p) \/ AppendRefused(p) \/ Retry(p)
  PROVE  InboxInv'
<1>1. /\ AuthorityTypes /\ InboxTypes /\ TickTypes /\ RouterTypes
      /\ Known(Authority)
  BY DEF InboxInv, InboxTypesInv
<1>2. /\ UNCHANGED <<operations, now, authorityState, inbox, clock, lifecycle, tail,
                     working, agenda, router, crashes>>
      /\ timeouts' \in {timeouts, timeouts + 1}
      /\ Goto(p, "failed") \/ Goto(p, "start")
      /\ \/ UNCHANGED recovering
         \/ recovering' = [recovering EXCEPT ![p] = tail[p] # <<>>]
  BY DEF TimesOut, AppendRefused, Retry, faults
<1>3. AuthorityTypes' /\ InboxTypes' /\ RouterTypes' /\ Known(Authority)'
  BY <1>1, <1>2, KnownStays DEF AuthorityTypes, InboxTypes, RouterTypes,
     authorityState, inbox, router
<1>4. recovering' \in [Partition -> BOOLEAN]
  BY <1>1, <1>2 DEF TickTypes
<1>5. TickTypes'
  BY <1>1, <1>2, <1>4 DEF TickTypes, lifecycle, Goto, Places
<1> QED
  BY <1>3, <1>5 DEF InboxInv, InboxTypesInv

\* What a partition has read when the process is up again, after a kill that
\* left p with its deliveries up to token n.
Restarted(p, n, q) == ReadFrom(q, AppendedSoFar(p, n, q), Len(operations))

LEMMA RestartSteps ==
  ASSUME InboxTypesInv, KillAndRestart
  PROVE  \E p \in Partition : \E n \in Pending(p) \cup {0} :
           /\ n = 0 \/ (pc[p] \in Materializing /\ ~recovering[p])
           /\ stream' = [q \in Partition |-> Restarted(p, n, q).entries]
           /\ projection' = [q \in Partition |-> Restarted(p, n, q).proj]
           /\ cursor' = [q \in Partition |->
                IF Restarted(p, n, q).outcome = "taken" THEN Acknowledged(q)
                ELSE cursor[q]]
           /\ tail' = [q \in Partition |->
                tail[q] \o AppendsOf(q, Restarted(p, n, q))]
           /\ working' = projection'
           /\ recovering' = [q \in Partition |-> tail'[q] # <<>> /\ pc[q] # "done"]
           /\ \/ /\ \E r \in Partition : Restarted(p, n, r).outcome # "taken"
                 /\ pc' = [q \in Partition |-> "poisoned"]
              \/ /\ \A r \in Partition : Restarted(p, n, r).outcome = "taken"
                 /\ pc' = [q \in Partition |->
                      IF pc[q] = "done" \/ ticked[q] = MaxTicks THEN "done"
                      ELSE "start"]
<1>1. PICK p \in Partition :
        \E n \in IF pc[p] \in Materializing /\ ~recovering[p]
                 THEN Pending(p) \cup {0} ELSE {0} :
          LET before == [q \in Partition |-> AppendedSoFar(p, n, q)]
              taken == [q \in Partition |->
                ReadFrom(q, before[q], Len(operations))]
          IN /\ stream' = [q \in Partition |-> taken[q].entries]
             /\ projection' = [q \in Partition |-> taken[q].proj]
             /\ cursor' = [q \in Partition |->
                  IF taken[q].outcome = "taken" THEN Acknowledged(q) ELSE cursor[q]]
             /\ tail' = [q \in Partition |-> tail[q] \o AppendsOf(q, taken[q])]
             /\ working' = projection'
             /\ recovering' = [q \in Partition |-> tail'[q] # <<>> /\ pc[q] # "done"]
             /\ pc' = [q \in Partition |->
                  IF \E r \in Partition : taken[r].outcome # "taken"
                  THEN "poisoned"
                  ELSE IF pc[q] = "done" \/ ticked[q] = MaxTicks THEN "done"
                  ELSE "start"]
  BY DEF KillAndRestart
<1>2. PICK n \in IF pc[p] \in Materializing /\ ~recovering[p]
                 THEN Pending(p) \cup {0} ELSE {0} :
          LET before == [q \in Partition |-> AppendedSoFar(p, n, q)]
              taken == [q \in Partition |->
                ReadFrom(q, before[q], Len(operations))]
          IN /\ stream' = [q \in Partition |-> taken[q].entries]
             /\ projection' = [q \in Partition |-> taken[q].proj]
             /\ cursor' = [q \in Partition |->
                  IF taken[q].outcome = "taken" THEN Acknowledged(q) ELSE cursor[q]]
             /\ tail' = [q \in Partition |-> tail[q] \o AppendsOf(q, taken[q])]
             /\ working' = projection'
             /\ recovering' = [q \in Partition |-> tail'[q] # <<>> /\ pc[q] # "done"]
             /\ pc' = [q \in Partition |->
                  IF \E r \in Partition : taken[r].outcome # "taken"
                  THEN "poisoned"
                  ELSE IF pc[q] = "done" \/ ticked[q] = MaxTicks THEN "done"
                  ELSE "start"]
  BY <1>1
<1> DEFINE taken == [q \in Partition |->
             ReadFrom(q, [r \in Partition |-> AppendedSoFar(p, n, r)][q],
                      Len(operations))]
<1>3. \A q \in Partition : taken[q] = Restarted(p, n, q)
  BY DEF Restarted
<1>4. /\ stream' = [q \in Partition |-> taken[q].entries]
      /\ projection' = [q \in Partition |-> taken[q].proj]
      /\ cursor' = [q \in Partition |->
           IF taken[q].outcome = "taken" THEN Acknowledged(q) ELSE cursor[q]]
      /\ tail' = [q \in Partition |-> tail[q] \o AppendsOf(q, taken[q])]
      /\ working' = projection'
      /\ recovering' = [q \in Partition |-> tail'[q] # <<>> /\ pc[q] # "done"]
      /\ pc' = [q \in Partition |->
           IF \E r \in Partition : taken[r].outcome # "taken"
           THEN "poisoned"
           ELSE IF pc[q] = "done" \/ ticked[q] = MaxTicks THEN "done" ELSE "start"]
  BY <1>2
<1> HIDE DEF taken
<1>5. n \in Pending(p) \cup {0} /\ (n = 0 \/ (pc[p] \in Materializing /\ ~recovering[p]))
  BY <1>2
<1>6. /\ stream' = [q \in Partition |-> Restarted(p, n, q).entries]
      /\ projection' = [q \in Partition |-> Restarted(p, n, q).proj]
  BY <1>3, <1>4
<1>7. /\ cursor' = [q \in Partition |->
           IF Restarted(p, n, q).outcome = "taken" THEN Acknowledged(q) ELSE cursor[q]]
      /\ tail' = [q \in Partition |-> tail[q] \o AppendsOf(q, Restarted(p, n, q))]
  BY <1>3, <1>4
<1>8. CASE \E r \in Partition : taken[r].outcome # "taken"
  <2>1. pc' = [q \in Partition |-> "poisoned"]
    BY <1>4, <1>8
  <2>2. \E r \in Partition : Restarted(p, n, r).outcome # "taken"
    BY <1>3, <1>8
  <2> QED
    BY <1>4, <1>5, <1>6, <1>7, <2>1, <2>2
<1>9. CASE ~\E r \in Partition : taken[r].outcome # "taken"
  <2>1. pc' = [q \in Partition |->
                 IF pc[q] = "done" \/ ticked[q] = MaxTicks THEN "done" ELSE "start"]
    BY <1>4, <1>9
  <2>2. \A r \in Partition : Restarted(p, n, r).outcome = "taken"
    BY <1>3, <1>9
  <2> QED
    BY <1>4, <1>5, <1>6, <1>7, <2>1, <2>2
<1> QED
  BY <1>8, <1>9

LEMMA RestartedTyped ==
  ASSUME AuthorityTypes, InboxTypes, NEW p \in Partition,
         NEW n \in Pending(p) \cup {0}, NEW q \in Partition
  PROVE  Restarted(p, n, q) \in Reader
<1>1. n \in 0..Len(operations) /\ 0 \in 0..Len(operations)
      /\ Len(operations) \in 0..Len(operations)
  BY PendingTokens
<1>2. Unread(q) \in Reader
  BY UnreadTyped
<1>3. [Unread(q) EXCEPT !.outcome = "poisoned"] \in Reader
  BY <1>2 DEF Reader
<1>4. AppendedSoFar(p, n, q) \in Reader
  BY <1>1, <1>2, <1>3, ReadTyped DEF AppendedSoFar
<1> QED
  BY <1>1, <1>4, ReadTyped DEF Restarted

LEMMA RestartTyped ==
  ASSUME InboxInv, KillAndRestart
  PROVE  InboxInv'
<1>1. /\ AuthorityTypes /\ InboxTypes /\ TickTypes /\ RouterTypes
      /\ Known(Authority) /\ InboxTypesInv
  BY DEF InboxInv, InboxTypesInv
<1>2. /\ UNCHANGED <<operations, now, authorityState, clock, lifecycle, timeouts>>
      /\ crashes' = crashes + 1
      /\ agenda' = [q \in Partition |-> {}]
      /\ lastSynced' = [q \in Partition |-> <<>>]
      /\ lastReported' = [q \in Partition |-> {a \in Agent : owner[a] = q}]
  BY DEF KillAndRestart
<1>3. AuthorityTypes' /\ RouterTypes' /\ Known(Authority)'
  BY <1>1, <1>2, KnownStays DEF AuthorityTypes, RouterTypes, authorityState
<1>4. PICK p \in Partition : \E n \in Pending(p) \cup {0} :
           /\ stream' = [q \in Partition |-> Restarted(p, n, q).entries]
           /\ projection' = [q \in Partition |-> Restarted(p, n, q).proj]
           /\ cursor' = [q \in Partition |->
                IF Restarted(p, n, q).outcome = "taken" THEN Acknowledged(q)
                ELSE cursor[q]]
           /\ tail' = [q \in Partition |->
                tail[q] \o AppendsOf(q, Restarted(p, n, q))]
           /\ working' = projection'
           /\ recovering' = [q \in Partition |-> tail'[q] # <<>> /\ pc[q] # "done"]
           /\ \/ pc' = [q \in Partition |-> "poisoned"]
              \/ pc' = [q \in Partition |->
                      IF pc[q] = "done" \/ ticked[q] = MaxTicks THEN "done"
                      ELSE "start"]
  BY <1>1, RestartSteps
<1>5. PICK n \in Pending(p) \cup {0} :
           /\ stream' = [q \in Partition |-> Restarted(p, n, q).entries]
           /\ projection' = [q \in Partition |-> Restarted(p, n, q).proj]
           /\ cursor' = [q \in Partition |->
                IF Restarted(p, n, q).outcome = "taken" THEN Acknowledged(q)
                ELSE cursor[q]]
           /\ tail' = [q \in Partition |->
                tail[q] \o AppendsOf(q, Restarted(p, n, q))]
           /\ working' = projection'
           /\ recovering' = [q \in Partition |-> tail'[q] # <<>> /\ pc[q] # "done"]
           /\ \/ pc' = [q \in Partition |-> "poisoned"]
              \/ pc' = [q \in Partition |->
                      IF pc[q] = "done" \/ ticked[q] = MaxTicks THEN "done"
                      ELSE "start"]
  BY <1>4
<1>6. \A q \in Partition :
        /\ Restarted(p, n, q).entries \in Seq(Entry)
        /\ Restarted(p, n, q).proj \in World
        /\ Acknowledged(q) \in Nat /\ Acknowledged(q) <= Len(operations)
        /\ AppendsOf(q, Restarted(p, n, q)) \in Seq({"time", "delivery"})
  BY <1>1, RestartedTyped, AcknowledgedTokens, AppendsTyped DEF Reader
<1>7. InboxTypes'
  BY <1>1, <1>2, <1>5, <1>6 DEF InboxTypes
<1>8. /\ tail' \in [Partition -> Seq({"time", "delivery"})]
      /\ working' \in [Partition -> World]
  BY <1>1, <1>5, <1>6 DEF TickTypes
<1>9. pc' \in [Partition -> Places]
  BY <1>5 DEF Places
<1>10. TickTypes'
  BY <1>1, <1>2, <1>5, <1>8, <1>9 DEF TickTypes, lifecycle
<1> QED
  BY <1>3, <1>7, <1>10 DEF InboxInv, InboxTypesInv

LEMMA InitTyped ==
  ASSUME Init
  PROVE  InboxInv
<1>1. \A S \in SUBSET Agent : [a \in S |-> NewRecord] \in World
  <2> SUFFICES ASSUME NEW S \in SUBSET Agent PROVE [a \in S |-> NewRecord] \in World
    OBVIOUS
  <2>1. [a \in S |-> NewRecord] \in [S -> Rec]
    BY DEF NewRecord, Rec
  <2> QED
    BY <2>1 DEF World
<1>2. \A p \in Partition : {b \in Agent : Home[b] = p} \in SUBSET Agent
  OBVIOUS
<1>3. projection \in [Partition -> World]
  BY <1>1, <1>2 DEF Init
<1>4. records \in World /\ DOMAIN records = Agent
  BY <1>1 DEF Init
<1>5. AuthorityTypes
  BY <1>4, Constants DEF Init, AuthorityTypes
<1>6. InboxTypes
  BY <1>3, <1>5 DEF Init, InboxTypes, AuthorityTypes
<1>7. TickTypes
  BY <1>3 DEF Init, TickTypes, Places
<1>8. RouterTypes
  BY DEF Init, RouterTypes
<1>9. Known(Authority)
  BY <1>4, Constants DEF Init, Known, Authority
<1> QED
  BY <1>5, <1>6, <1>7, <1>8, <1>9 DEF InboxInv, InboxTypesInv

LEMMA StepsTyped ==
  ASSUME InboxInv, [Next]_vars
  PROVE  InboxInv'
<1>0. InboxTypesInv /\ DOMAIN pendingMoves \subseteq DOMAIN records
  BY DEF InboxInv, Known, Authority
<1>1. CASE UNCHANGED vars
  BY <1>1 DEF InboxInv, InboxTypesInv, AuthorityTypes, InboxTypes, TickTypes,
     RouterTypes, Known, Authority, vars, authorityState, inbox, lifecycle, router,
     faults
<1>2. CASE KillAndRestart
  BY <1>2, RestartTyped
<1>3. ASSUME NEW p \in Partition, Step(p) \/ TimesOut(p)
      PROVE  InboxInv'
  <2>1. /\ boundary[p].proj \in World /\ working[p] \in World
    BY <1>0, ClocksTyped DEF InboxTypesInv, TickTypes
  <2>2. CASE PreTick(p)
    BY <1>0, <2>1, <2>2, PreTickTyped, MaterializeKnown DEF PreTick, InboxInv
  <2>3. CASE FindAdvanced(p)
    <3>1. UNCHANGED authorityState
      BY <2>3 DEF FindAdvanced
    <3> QED
      BY <1>0, <2>3, <3>1, FindAdvancedTyped, KnownStays DEF InboxInv
  <2>4. CASE Advance(p)
    <3> DEFINE arriving == Arriving(Target(p))
    <3>1. /\ DOMAIN records' = DOMAIN records
          /\ owner' = [a \in Agent |-> IF a \in arriving THEN pendingMoves[a].to
                                                         ELSE owner[a]]
          /\ pendingMoves' = [a \in DOMAIN pendingMoves \ arriving |-> pendingMoves[a]]
      BY <2>4 DEF Advance, AdvanceTime, WithFact
    <3>2. \A a \in arriving : a \in DOMAIN records /\ pendingMoves[a].to # NoPartition
      BY <1>0, Constants DEF Arriving, InboxTypesInv, AuthorityTypes, Journey
    <3> HIDE DEF arriving
    <3>3. Known(Authority)'
      BY <3>1, <3>2 DEF InboxInv, Known, Authority
    <3> QED
      BY <1>0, <2>4, <3>3, AdvanceTyped DEF InboxInv
  <2>5. CASE AppendTime(p)
    BY <2>5, AppendTimeTyped
  <2>6. CASE \E a \in Agent : TransferCycle(p, a) \/ MoveCycle(p, a)
    BY <2>6, AgentStepsTyped
  <2>7. CASE DrainAfterCycle(p)
    BY <1>0, <2>1, <2>7, DrainTyped, MaterializeKnown DEF DrainAfterCycle, InboxInv
  <2>8. CASE FinishTick(p)
    BY <1>0, <2>1, <2>8, FinishTickTyped, MaterializeKnown DEF FinishTick, InboxInv
  <2>9. CASE CompleteTick(p)
    BY <2>9, CompleteTickTyped
  <2>10. CASE TimesOut(p) \/ AppendRefused(p) \/ Retry(p)
    BY <2>10, RestTyped
  <2> QED
    BY <1>3, <2>2, <2>3, <2>4, <2>5, <2>6, <2>7, <2>8, <2>9, <2>10 DEF Step
<1> QED
  BY <1>1, <1>2, <1>3 DEF Next

-----------------------------------------------------------------------------
(* The clocks: what a partition has lived through, what it has published   *)
(* and what the authority may have advanced to.                            *)

HasTime(appends) == \E i \in 1..Len(appends) : appends[i] = "time"

AtMostOneTime(appends) ==
  \A i, j \in 1..Len(appends) :
    appends[i] = "time" /\ appends[j] = "time" => i = j

InTick == {"body", "drain", "finished"}

\* The tail holds the time event of the tick that runs, or was interrupted; a
\* recovered tick has it first.
TailOfTick(p) ==
  /\ boundary[p].clock = ticked[p]
  /\ AtMostOneTime(tail[p])
  /\ clock[p] = ticked[p] + (IF HasTime(tail[p]) THEN 1 ELSE 0)
  /\ recovering[p] => tail[p] # <<>>
  /\ pc[p] = "start" /\ ~recovering[p] => tail[p] = <<>>
  /\ pc[p] \in {"waiting", "ready"} /\ ~recovering[p] => ~HasTime(tail[p])
  /\ pc[p] = "done" => ~recovering[p] /\ ~HasTime(tail[p])
  /\ pc[p] \in InTick => /\ HasTime(tail[p])
                         /\ recovering[p] => tail[p][1] = "time"

\* A tick is published when it is finished and not before, unless a process
\* was killed between the two.
PublishedTicks(p) ==
  /\ ticked[p] <= MaxTicks
  /\ pc[p] \notin {"done", "poisoned"} => ticked[p] < MaxTicks
  /\ pc[p] = "done" => ticked[p] = MaxTicks
  /\ clock[p] <= now /\ published[p] <= now /\ ticked[p] <= published[p]
  /\ now <= published[p] + 1
  /\ pc[p] = "waiting" => ClockOf(p) <= published[p]
  /\ pc[p] = "finished" => ticked[p] + 1 <= published[p]
  /\ pc[p] \in {"ready"} \cup InTick => ticked[p] + 1 <= now
  /\ crashes = 0 => published[p] <= ticked[p] + (IF pc[p] = "finished" THEN 1 ELSE 0)

\* No publication a router or the authority remembers is ahead of the clock.
Stamps ==
  /\ \A p \in Partition : \A i \in 1..Len(lastSynced[p]) :
       \A c \in lastSynced[p][i].clocks : c <= published[p]
  /\ \A digest \in receipts : \A c \in digest.state.clocks :
       c <= published[digest.partition]

Timing ==
  /\ now <= MaxTicks /\ Stamps
  /\ \A p \in Partition : TailOfTick(p) /\ PublishedTicks(p)

LEMMA TailGrows ==
  ASSUME NEW before \in Seq({"time", "delivery"}), NEW more \in Seq({"time", "delivery"}),
         \A i \in 1..Len(more) : more[i] = "delivery"
  PROVE  /\ HasTime(before \o more) <=> HasTime(before)
         /\ AtMostOneTime(before) => AtMostOneTime(before \o more)
         /\ before # <<>> => before \o more # <<>> /\ (before \o more)[1] = before[1]
<1> DEFINE after == before \o more
<1>1. /\ Len(before) \in Nat /\ Len(more) \in Nat
      /\ Len(after) = Len(before) + Len(more)
  OBVIOUS
<1>2. \A i \in 1..Len(before) : i \in 1..Len(after) /\ after[i] = before[i]
  OBVIOUS
<1>3. \A i \in 1..Len(after) : i \notin 1..Len(before) => after[i] = "delivery"
  <2> SUFFICES ASSUME NEW i \in 1..Len(after), i \notin 1..Len(before)
               PROVE  after[i] = "delivery"
    OBVIOUS
  <2>1. i - Len(before) \in 1..Len(more) /\ after[i] = more[i - Len(before)]
    BY <1>1
  <2> QED
    BY <2>1
<1>4. before # <<>> => 1 \in 1..Len(before) /\ Len(after) # 0
  BY <1>1
<1>5. after = <<>> => Len(after) = 0
  OBVIOUS
<1> HIDE DEF after
<1>6. \A i \in 1..Len(after) : after[i] = "time" => i \in 1..Len(before) /\ before[i] = "time"
  BY <1>2, <1>3
<1>7. HasTime(after) <=> HasTime(before)
  BY <1>2, <1>6 DEF HasTime
<1>8. AtMostOneTime(before) => AtMostOneTime(after)
  BY <1>6 DEF AtMostOneTime
<1>9. before # <<>> => after # <<>> /\ after[1] = before[1]
  BY <1>2, <1>4, <1>5
<1> QED
  BY <1>7, <1>8, <1>9 DEF after

LEMMA MaterializesTail ==
  ASSUME InboxTypesInv, NEW p \in Partition, Materializes(p)
  PROVE  /\ \A q \in Partition \ {p} : tail'[q] = tail[q]
         /\ HasTime(tail'[p]) <=> HasTime(tail[p])
         /\ AtMostOneTime(tail[p]) => AtMostOneTime(tail'[p])
         /\ tail[p] # <<>> => tail'[p] # <<>> /\ tail'[p][1] = tail[p][1]
         /\ recovering[p] => tail'[p] = tail[p]
<1>1. AuthorityTypes /\ InboxTypes /\ tail \in [Partition -> Seq({"time", "delivery"})]
  BY DEF InboxTypesInv, TickTypes
<1>2. CASE recovering[p]
  <2>1. tail' = tail
    BY <1>2 DEF Materializes
  <2> QED
    BY <2>1
<1>3. CASE ~recovering[p]
  <2> DEFINE more == AppendsOf(p, Taken(p))
  <2>1. tail' = [tail EXCEPT ![p] = tail[p] \o more]
    BY <1>3 DEF Materializes
  <2>2. more \in Seq({"time", "delivery"}) /\ \A i \in 1..Len(more) : more[i] = "delivery"
    BY <1>1, TakenTyped, AppendsTyped
  <2> HIDE DEF more
  <2>3. tail[p] \in Seq({"time", "delivery"}) /\ tail'[p] = tail[p] \o more
    BY <1>1, <2>1
  <2>4. \A q \in Partition \ {p} : tail'[q] = tail[q]
    BY <1>1, <2>1
  <2> QED
    BY <1>3, <2>2, <2>3, <2>4, TailGrows
<1> QED
  BY <1>2, <1>3

(* A publication that is not refused moves the partition's clock on, never *)
(* back.                                                                   *)
LEMMA PublishedMoves ==
  ASSUME AuthorityTypes, RouterTypes, Stamps, NEW p \in Partition, NEW proj \in World,
         NEW clocks, Boundary(clocks), ~IsRefused(p, proj, clocks),
         published' = AfterReport(p, proj, clocks).published,
         receipts' = AfterReport(p, proj, clocks).receipts,
         RouterHasReported(p, proj, clocks)
  PROVE  /\ Stamps'
         /\ \A q \in Partition \ {p} : published'[q] = published[q]
         /\ published[p] <= published'[p] /\ published'[p] \in {published[p]} \cup clocks
         /\ \A c \in clocks : c <= published'[p]
<1> DEFINE after == AfterReport(p, proj, clocks)
           digest == DigestOf(p, proj, clocks)
           report == Reported(p, proj, clocks)
<1>1. /\ published' = after.published /\ receipts' = after.receipts
      /\ lastSynced' = [lastSynced EXCEPT ![p] = <<report>>]
  BY DEF RouterHasReported
<1>2. /\ report.clocks = clocks /\ digest.partition = p /\ digest.state = report
  BY DEF Reported, DigestOf
<1>3. /\ lastSynced \in [Partition -> Seq(Report)] /\ published \in [Partition -> Nat]
      /\ receipts \subseteq Digest /\ clocks \subseteq Nat
  BY DEF RouterTypes, AuthorityTypes, Boundary
<1>4. \A d \in receipts : /\ d.partition \in Partition /\ d.state.clocks \subseteq Nat
  BY <1>3 DEF Digest, Report
<1>5. CASE IsUnchanged(p, proj, clocks) \/ digest \in receipts
  <2>1. published' = published /\ receipts' = receipts
    BY <1>1, <1>5 DEF AfterReport
  <2>2. \A c \in clocks : c <= published[p]
    <3>1. CASE IsUnchanged(p, proj, clocks)
      <4>1. lastSynced[p] = <<report>>
        BY <3>1 DEF IsUnchanged
      <4>2. Len(lastSynced[p]) = 1 /\ lastSynced[p][1] = report
        BY <4>1
      <4> QED
        BY <1>2, <4>2 DEF Stamps
    <3>2. CASE digest \in receipts
      BY <1>2, <3>2 DEF Stamps
    <3> QED
      BY <1>5, <3>1, <3>2
  <2>3. Stamps'
    <3>1. \A q \in Partition : \A i \in 1..Len(lastSynced'[q]) :
            \A c \in lastSynced'[q][i].clocks : c <= published'[q]
      <4> SUFFICES ASSUME NEW q \in Partition, NEW i \in 1..Len(lastSynced'[q]),
                          NEW c \in lastSynced'[q][i].clocks
                   PROVE  c <= published'[q]
        OBVIOUS
      <4>1. CASE q = p
        <5>1. lastSynced'[q] = <<report>>
          BY <1>1, <1>3, <4>1
        <5>2. lastSynced'[q][i] = report
          BY <5>1
        <5> QED
          BY <1>2, <2>1, <2>2, <4>1, <5>2
      <4>2. CASE q # p
        <5>1. lastSynced'[q] = lastSynced[q]
          BY <1>1, <1>3, <4>2
        <5> QED
          BY <2>1, <5>1 DEF Stamps
      <4> QED
        BY <4>1, <4>2
    <3> QED
      BY <2>1, <3>1 DEF Stamps
  <2>4. published[p] \in Nat /\ published[p] <= published[p]
    BY <1>3
  <2> HIDE DEF report, digest, after
  <2> QED
    BY <2>1, <2>2, <2>3, <2>4
<1>6. CASE ~(IsUnchanged(p, proj, clocks) \/ digest \in receipts)
  <2>1. /\ published' = [published EXCEPT ![p] =
             IF clocks = {} THEN published[p] ELSE CHOOSE c \in clocks : TRUE]
        /\ receipts' = receipts \cup {digest}
    BY <1>1, <1>6 DEF AfterReport
  <2>2. \A c \in clocks : ~(c < published[p])
    BY <1>6 DEF IsRefused
  <2>3. /\ \A q \in Partition \ {p} : published'[q] = published[q]
        /\ published[p] <= published'[p] /\ published'[p] \in {published[p]} \cup clocks
        /\ \A c \in clocks : c <= published'[p]
    BY <1>3, <2>1, <2>2 DEF Boundary
  <2>4. /\ published' \in [Partition -> Nat]
        /\ \A q \in Partition : published[q] <= published'[q]
    <3>1. published'[p] \in Nat
      BY <1>3, <2>3
    <3>2. \A q \in Partition : published[q] <= published'[q]
      <4> SUFFICES ASSUME NEW q \in Partition PROVE published[q] <= published'[q]
        OBVIOUS
      <4>1. published[q] \in Nat
        BY <1>3
      <4> QED
        BY <2>3, <4>1
    <3>3. published' = [published EXCEPT ![p] = published'[p]]
      BY <1>3, <2>1
    <3> QED
      BY <1>3, <3>1, <3>2, <3>3
  <2>5. \A q \in Partition : \A i \in 1..Len(lastSynced'[q]) :
            \A c \in lastSynced'[q][i].clocks : c <= published'[q]
    <3> SUFFICES ASSUME NEW q \in Partition, NEW i \in 1..Len(lastSynced'[q]),
                        NEW c \in lastSynced'[q][i].clocks
                 PROVE  c <= published'[q]
      OBVIOUS
    <3>1. CASE q = p
      <4>1. lastSynced'[q] = <<report>>
        BY <1>1, <1>3, <3>1
      <4>2. lastSynced'[q][i] = report
        BY <4>1
      <4> QED
        BY <1>2, <2>3, <3>1, <4>2
    <3>2. CASE q # p
      <4>1. lastSynced'[q] = lastSynced[q]
        BY <1>1, <1>3, <3>2
      <4>2. c <= published[q]
        BY <4>1 DEF Stamps
      <4> QED
        BY <2>3, <3>2, <4>2
    <3> QED
      BY <3>1, <3>2
  <2>6. \A d \in receipts' : \A c \in d.state.clocks : c <= published'[d.partition]
    <3> SUFFICES ASSUME NEW d \in receipts', NEW c \in d.state.clocks
                 PROVE  c <= published'[d.partition]
      OBVIOUS
    <3>1. CASE d = digest
      BY <1>2, <2>3, <3>1
    <3>2. CASE d \in receipts
      <4>1. /\ d.partition \in Partition /\ c \in Nat
            /\ c <= published[d.partition]
        BY <1>4, <3>2 DEF Stamps
      <4>2. published[d.partition] \in Nat /\ published'[d.partition] \in Nat
            /\ published[d.partition] <= published'[d.partition]
        BY <1>3, <2>4, <4>1
      <4> QED
        BY <4>1, <4>2
    <3> QED
      BY <2>1, <3>1, <3>2
  <2> QED
    BY <2>3, <2>5, <2>6 DEF Stamps
<1> QED
  BY <1>5, <1>6

LEMMA StampsStay ==
  ASSUME Stamps, UNCHANGED <<published, receipts, lastSynced>>
  PROVE  Stamps'
BY DEF Stamps

LEMMA MaterializeSteps ==
  ASSUME InboxTypesInv, Stamps, NEW p \in Partition, NEW given \in World, NEW clocks,
         Boundary(clocks), NEW place,
         MaterializeAndPublish(p, given, clocks, place)
  PROVE  /\ Materializes(p) /\ Stamps' /\ UNCHANGED <<operations, now>>
         /\ \A q \in Partition \ {p} : published'[q] = published[q] /\ pc'[q] = pc[q]
         /\ \/ pc'[p] \in {"failed", "poisoned"} /\ published'[p] = published[p]
            \/ /\ pc'[p] = place
               /\ published[p] <= published'[p]
               /\ published'[p] \in {published[p]} \cup clocks
               /\ \A c \in clocks : c <= published'[p]
<1> DEFINE proj == IF recovering[p] THEN given ELSE Taken(p).proj
<1>1. AuthorityTypes /\ RouterTypes /\ pc \in [Partition -> Places]
  BY DEF InboxTypesInv, TickTypes
<1>2. Taken(p).proj \in World
  BY TakenTyped DEF Reader, InboxTypesInv
<1>3. proj \in World
  BY <1>2
<1>4. /\ Materializes(p) /\ UNCHANGED <<operations, now>>
      /\ \/ UNCHANGED <<authorityState, router>> /\ Goto(p, StuckAt(Taken(p)))
         \/ UNCHANGED <<authorityState, router>> /\ Goto(p, "failed")
         \/ /\ ~IsRefused(p, proj, clocks)
            /\ Published(p, proj, clocks) /\ Goto(p, place)
  BY DEF MaterializeAndPublish, Materializes
<1> HIDE DEF proj
<1>5. \A q \in Partition \ {p} : pc'[q] = pc[q]
  BY <1>1, <1>4 DEF Goto
<1>6. CASE UNCHANGED <<authorityState, router>>
             /\ (Goto(p, StuckAt(Taken(p))) \/ Goto(p, "failed"))
  <2>1. pc'[p] \in {"failed", "poisoned"}
    BY <1>1, <1>6, StuckPlaces DEF Goto
  <2>2. UNCHANGED <<published, receipts, lastSynced>>
    BY <1>6 DEF authorityState, router
  <2> QED
    BY <1>4, <1>5, <2>1, <2>2, StampsStay
<1>7. CASE ~IsRefused(p, proj, clocks) /\ Published(p, proj, clocks) /\ Goto(p, place)
  <2>1. pc'[p] = place
    BY <1>1, <1>7 DEF Goto
  <2>2. /\ published' = AfterReport(p, proj, clocks).published
        /\ receipts' = AfterReport(p, proj, clocks).receipts
        /\ RouterHasReported(p, proj, clocks)
    BY <1>7 DEF Published, AuthorityBecomes
  <2> QED
    BY <1>1, <1>3, <1>4, <1>5, <1>7, <2>1, <2>2, PublishedMoves
<1> QED
  BY <1>4, <1>6, <1>7

LEMMA TimingElsewhere ==
  ASSUME InboxTypesInv, NEW q \in Partition, TailOfTick(q), PublishedTicks(q),
         boundary'[q] = boundary[q], ticked'[q] = ticked[q], tail'[q] = tail[q],
         clock'[q] = clock[q], recovering'[q] = recovering[q], pc'[q] = pc[q],
         published'[q] = published[q], now <= now', now' \in Nat, crashes' = crashes,
         now' = now \/ now' <= published[q] + 1
  PROVE  TailOfTick(q)' /\ PublishedTicks(q)'
<1>1. /\ clock[q] \in Nat /\ ticked[q] \in Nat /\ published[q] \in Nat /\ now \in Nat
      /\ ClockOf(q)' = ClockOf(q)
  BY DEF InboxTypesInv, TickTypes, AuthorityTypes, ClockOf
<1>2. TailOfTick(q)'
  BY DEF TailOfTick
<1>3. PublishedTicks(q)'
  BY <1>1 DEF PublishedTicks
<1> QED
  BY <1>2, <1>3

\* The numbers a step of p compares.
LEMMA Numbers ==
  ASSUME InboxTypesInv, NEW p \in Partition
  PROVE  /\ clock[p] \in Nat /\ ticked[p] \in Nat /\ published[p] \in Nat /\ now \in Nat
         /\ boundary[p].clock \in Nat /\ MaxTicks \in Nat \ {0} /\ crashes \in Nat
         /\ tail[p] \in Seq({"time", "delivery"}) /\ recovering[p] \in BOOLEAN
BY ClocksTyped, Constants DEF InboxTypesInv, TickTypes, AuthorityTypes, RouterTypes

\* A tick is about to begin, or waits: the partition has lived through the ticks
\* it has completed and no more.
LEMMA ClockAtStart ==
  ASSUME InboxTypesInv, NEW p \in Partition, TailOfTick(p),
         pc[p] \in {"start", "waiting", "ready"}
  PROVE  ClockOf(p) = ticked[p] /\ Target(p) = ticked[p] + 1
         /\ (~recovering[p] => clock[p] = ticked[p] /\ ~HasTime(tail[p]))
<1>1. ~HasTime(<<>>)
  BY DEF HasTime
<1>2. ~recovering[p] => ~HasTime(tail[p])
  BY <1>1 DEF TailOfTick
<1> QED
  BY <1>2, Numbers DEF TailOfTick, ClockOf, Target

LEMMA PreTickTiming ==
  ASSUME InboxTypesInv, Timing, NEW p \in Partition, PreTick(p)
  PROVE  Timing'
<1> DEFINE place == IF now < Target(p) THEN "waiting" ELSE "ready"
<1>1. /\ pc[p] = "start" /\ UNCHANGED <<clock, lifecycle, agenda, recovering, faults>>
      /\ MaterializeAndPublish(p, boundary[p].proj, {ClockOf(p)}, place)
  BY DEF PreTick
<1>2. boundary[p].proj \in World /\ Boundary({ClockOf(p)})
  BY ClocksTyped DEF InboxTypesInv, Boundary
<1>3. Stamps /\ TailOfTick(p) /\ PublishedTicks(p)
  BY DEF Timing
<1>4. ClockOf(p) = ticked[p] /\ Target(p) = ticked[p] + 1
      /\ (~recovering[p] => ~HasTime(tail[p]))
  BY <1>1, <1>3, ClockAtStart
<1> HIDE DEF place
<1>5. /\ Materializes(p) /\ Stamps' /\ now' = now
      /\ \A q \in Partition \ {p} : published'[q] = published[q] /\ pc'[q] = pc[q]
      /\ \/ pc'[p] \in {"failed", "poisoned"} /\ published'[p] = published[p]
         \/ /\ pc'[p] = place
            /\ published[p] <= published'[p]
            /\ published'[p] \in {published[p], ClockOf(p)}
            /\ ClockOf(p) <= published'[p]
  BY <1>1, <1>2, <1>3, MaterializeSteps
<1>6. /\ \A q \in Partition \ {p} : tail'[q] = tail[q]
      /\ HasTime(tail'[p]) <=> HasTime(tail[p])
      /\ AtMostOneTime(tail[p]) => AtMostOneTime(tail'[p])
      /\ tail[p] # <<>> => tail'[p] # <<>> /\ tail'[p][1] = tail[p][1]
  BY <1>5, MaterializesTail
<1>7. UNCHANGED <<clock, boundary, ticked, recovering, crashes>>
  BY <1>1 DEF lifecycle, faults
<1>8. place = "waiting" \/ (place = "ready" /\ ticked[p] + 1 <= now)
  BY <1>4, Numbers DEF place
<1>9. TailOfTick(p)'
  BY <1>1, <1>3, <1>4, <1>5, <1>6, <1>7, <1>8 DEF TailOfTick, InTick
<1>10. PublishedTicks(p)'
  <2>1. ClockOf(p)' = ticked[p]
    BY <1>4, <1>7 DEF ClockOf
  <2>2. ClockOf(p) <= now
    BY <1>1, <1>3, <1>4, Numbers DEF PublishedTicks
  <2> QED
    BY <1>1, <1>3, <1>4, <1>5, <1>7, <1>8, <2>1, <2>2, Numbers DEF PublishedTicks, InTick
<1>11. \A q \in Partition \ {p} : TailOfTick(q)' /\ PublishedTicks(q)'
  <2>1. now <= now' /\ now' \in Nat
    BY <1>5, Numbers
  <2> QED
    BY <1>5, <1>6, <1>7, <2>1, TimingElsewhere DEF Timing
<1> QED
  BY <1>5, <1>9, <1>10, <1>11 DEF Timing

LEMMA DrainTiming ==
  ASSUME InboxTypesInv, Timing, NEW p \in Partition, DrainAfterCycle(p)
  PROVE  Timing'
<1>1. /\ pc[p] = "drain" /\ UNCHANGED <<clock, lifecycle, agenda, recovering, faults>>
      /\ MaterializeAndPublish(p, working[p], {}, "body")
  BY DEF DrainAfterCycle
<1>2. working[p] \in World /\ Boundary({})
  BY DEF InboxTypesInv, TickTypes, Boundary
<1>3. Stamps /\ TailOfTick(p) /\ PublishedTicks(p)
  BY DEF Timing
<1>4. /\ Materializes(p) /\ Stamps' /\ now' = now
      /\ \A q \in Partition \ {p} : published'[q] = published[q] /\ pc'[q] = pc[q]
      /\ pc'[p] \in {"failed", "poisoned", "body"} /\ published'[p] = published[p]
  BY <1>1, <1>2, <1>3, MaterializeSteps
<1>5. /\ \A q \in Partition \ {p} : tail'[q] = tail[q]
      /\ HasTime(tail'[p]) <=> HasTime(tail[p])
      /\ AtMostOneTime(tail[p]) => AtMostOneTime(tail'[p])
      /\ tail[p] # <<>> => tail'[p] # <<>> /\ tail'[p][1] = tail[p][1]
  BY <1>4, MaterializesTail
<1>6. UNCHANGED <<clock, boundary, ticked, recovering, crashes>>
  BY <1>1 DEF lifecycle, faults
<1>7. TailOfTick(p)'
  BY <1>1, <1>3, <1>4, <1>5, <1>6 DEF TailOfTick, InTick
<1>8. PublishedTicks(p)'
  BY <1>1, <1>3, <1>4, <1>6, Numbers DEF PublishedTicks, InTick
<1>9. \A q \in Partition \ {p} : TailOfTick(q)' /\ PublishedTicks(q)'
  <2>1. now <= now' /\ now' \in Nat
    BY <1>4, Numbers
  <2> QED
    BY <1>4, <1>5, <1>6, <2>1, TimingElsewhere DEF Timing
<1> QED
  BY <1>4, <1>7, <1>8, <1>9 DEF Timing

LEMMA FinishTickTiming ==
  ASSUME InboxTypesInv, Timing, NEW p \in Partition, FinishTick(p)
  PROVE  Timing'
<1> DEFINE c == IF recovering[p] THEN Target(p) ELSE clock[p]
<1>1. /\ pc[p] = "body" /\ UNCHANGED <<clock, lifecycle, agenda, recovering, faults>>
      /\ MaterializeAndPublish(p, working[p], {c}, "finished")
  BY DEF FinishTick
<1>2. Stamps /\ TailOfTick(p) /\ PublishedTicks(p)
  BY DEF Timing
<1>3. c = ticked[p] + 1
  BY <1>1, <1>2, Numbers DEF TailOfTick, InTick, Target, ClockOf
<1> HIDE DEF c
<1>4. working[p] \in World /\ Boundary({c})
  BY <1>3, Numbers DEF InboxTypesInv, TickTypes, Boundary
<1>5. /\ Materializes(p) /\ Stamps' /\ now' = now
      /\ \A q \in Partition \ {p} : published'[q] = published[q] /\ pc'[q] = pc[q]
      /\ \/ pc'[p] \in {"failed", "poisoned"} /\ published'[p] = published[p]
         \/ /\ pc'[p] = "finished"
            /\ published[p] <= published'[p]
            /\ published'[p] \in {published[p], c}
            /\ c <= published'[p]
  BY <1>1, <1>2, <1>4, MaterializeSteps
<1>6. /\ \A q \in Partition \ {p} : tail'[q] = tail[q]
      /\ HasTime(tail'[p]) <=> HasTime(tail[p])
      /\ AtMostOneTime(tail[p]) => AtMostOneTime(tail'[p])
      /\ tail[p] # <<>> => tail'[p] # <<>> /\ tail'[p][1] = tail[p][1]
  BY <1>5, MaterializesTail
<1>7. UNCHANGED <<clock, boundary, ticked, recovering, crashes>>
  BY <1>1 DEF lifecycle, faults
<1>8. TailOfTick(p)'
  BY <1>1, <1>2, <1>5, <1>6, <1>7 DEF TailOfTick, InTick
<1>9. PublishedTicks(p)'
  BY <1>1, <1>2, <1>3, <1>5, <1>7, Numbers DEF PublishedTicks, InTick
<1>10. \A q \in Partition \ {p} : TailOfTick(q)' /\ PublishedTicks(q)'
  <2>1. now <= now' /\ now' \in Nat
    BY <1>5, Numbers
  <2> QED
    BY <1>5, <1>6, <1>7, <2>1, TimingElsewhere DEF Timing
<1> QED
  BY <1>5, <1>8, <1>9, <1>10 DEF Timing

LEMMA FindAdvancedTiming ==
  ASSUME InboxTypesInv, Timing, NEW p \in Partition, FindAdvanced(p)
  PROVE  Timing'
<1>1. /\ pc[p] = "waiting" /\ now >= Target(p) /\ LeaveBarrier(p)
      /\ UNCHANGED <<authorityState, operations, now, clock, lifecycle, agenda,
                     recovering, router, faults>>
  BY DEF FindAdvanced
<1>2. Stamps /\ TailOfTick(p) /\ PublishedTicks(p)
  BY DEF Timing
<1>3. ticked[p] + 1 <= now /\ (~recovering[p] => ~HasTime(tail[p]))
  BY <1>1, <1>2, ClockAtStart, Numbers
<1>4. /\ UNCHANGED <<now, published, clock, boundary, ticked, recovering, crashes>>
      /\ Stamps'
  <2>1. UNCHANGED <<published, receipts, lastSynced>>
    BY <1>1 DEF authorityState, router
  <2> QED
    BY <1>1, <1>2, <2>1, StampsStay DEF lifecycle, faults
<1>5. Materializes(p) /\ (Goto(p, "ready") \/ Goto(p, StuckAt(Taken(p))))
  BY <1>1 DEF LeaveBarrier, Materializes
<1>6. /\ pc'[p] \in {"ready", "failed", "poisoned"}
      /\ \A q \in Partition \ {p} : pc'[q] = pc[q]
  BY <1>5, StuckPlaces DEF Goto, InboxTypesInv, TickTypes
<1>7. /\ \A q \in Partition \ {p} : tail'[q] = tail[q]
      /\ HasTime(tail'[p]) <=> HasTime(tail[p])
      /\ AtMostOneTime(tail[p]) => AtMostOneTime(tail'[p])
      /\ tail[p] # <<>> => tail'[p] # <<>> /\ tail'[p][1] = tail[p][1]
  BY <1>5, MaterializesTail
<1>8. TailOfTick(p)'
  BY <1>1, <1>2, <1>3, <1>4, <1>6, <1>7 DEF TailOfTick, InTick
<1>9. PublishedTicks(p)'
  BY <1>1, <1>2, <1>3, <1>4, <1>6, Numbers DEF PublishedTicks, InTick
<1>10. \A q \in Partition \ {p} : TailOfTick(q)' /\ PublishedTicks(q)'
  <2>1. now <= now' /\ now' \in Nat
    BY <1>4, Numbers
  <2> QED
    BY <1>4, <1>6, <1>7, <2>1, TimingElsewhere DEF Timing
<1> QED
  BY <1>4, <1>8, <1>9, <1>10 DEF Timing

LEMMA AdvanceTiming ==
  ASSUME InboxTypesInv, Timing, NEW p \in Partition, Advance(p)
  PROVE  Timing'
<1>1. /\ pc[p] = "waiting" /\ now < Target(p) /\ now' = Target(p)
      /\ UNCHANGED <<published, receipts, clock, lifecycle, tail, pc, recovering,
                     router, faults>>
  BY DEF Advance, AdvanceTime
<1>2. Stamps /\ TailOfTick(p) /\ PublishedTicks(p)
  BY DEF Timing
<1>3. /\ now <= now' /\ now' \in Nat /\ now' <= MaxTicks /\ now' <= now + 1
  BY <1>1, <1>2, ClockAtStart, Numbers DEF PublishedTicks
<1>4. Stamps'
  BY <1>1, <1>2, StampsStay DEF router
<1>5. \A q \in Partition : now' <= published[q] + 1
  <2> SUFFICES ASSUME NEW q \in Partition PROVE now' <= published[q] + 1
    OBVIOUS
  <2>1. published[q] >= now
    BY DEF Advance, BarrierIsOpen
  <2> QED
    BY <1>3, <2>1, Numbers
<1>6. \A q \in Partition : TailOfTick(q)' /\ PublishedTicks(q)'
  BY <1>1, <1>3, <1>5, TimingElsewhere DEF Timing, lifecycle, faults
<1> QED
  BY <1>3, <1>4, <1>6 DEF Timing

LEMMA AppendTimeTiming ==
  ASSUME InboxTypesInv, Timing, NEW p \in Partition, AppendTime(p)
  PROVE  Timing'
<1>1. pc[p] = "ready"
      /\ UNCHANGED <<now, authorityState, lifecycle, recovering, router, faults>>
  BY DEF AppendTime
<1>2. Stamps /\ TailOfTick(p) /\ PublishedTicks(p)
  BY DEF Timing
<1>3. ~recovering[p] => clock[p] = ticked[p] /\ ~HasTime(tail[p])
  BY <1>1, <1>2, ClockAtStart
<1>4. /\ UNCHANGED <<now, published, boundary, ticked, recovering, crashes>> /\ Stamps'
  <2>1. UNCHANGED <<published, receipts, lastSynced>>
    BY <1>1 DEF authorityState, router
  <2> QED
    BY <1>1, <1>2, <2>1, StampsStay DEF lifecycle, faults
<1>5. /\ \A q \in Partition \ {p} :
           tail'[q] = tail[q] /\ clock'[q] = clock[q] /\ pc'[q] = pc[q]
      /\ \/ pc'[p] = "failed" /\ tail'[p] = tail[p] /\ clock'[p] = clock[p]
         \/ /\ pc'[p] = "body" /\ tail'[p] = tail[p] /\ clock'[p] = clock[p]
            /\ recovering[p] /\ tail[p] # <<>> /\ tail[p][1] = "time"
         \/ /\ pc'[p] = "body" /\ ~recovering[p]
            /\ tail'[p] = Append(tail[p], "time") /\ clock'[p] = clock[p] + 1
  <2>1. /\ pc \in [Partition -> Places] /\ clock \in [Partition -> Nat]
        /\ tail \in [Partition -> Seq({"time", "delivery"})]
    BY DEF InboxTypesInv, TickTypes
  <2>2. CASE recovering[p] /\ tail[p] # <<>> /\ Head(tail[p]) # "time"
    BY <2>1, <2>2 DEF AppendTime, Goto
  <2>3. CASE recovering[p] /\ tail[p] # <<>> /\ Head(tail[p]) = "time"
    <3>1. Goto(p, "body") /\ UNCHANGED <<clock, tail>>
      BY <2>3 DEF AppendTime
    <3>2. Head(tail[p]) = tail[p][1]
      BY <2>1, <2>3
    <3> QED
      BY <2>1, <2>3, <3>1, <3>2 DEF Goto
  <2>4. CASE ~(recovering[p] /\ tail[p] # <<>>)
    <3>1. /\ Goto(p, "body") /\ clock' = [clock EXCEPT ![p] = clock[p] + 1]
          /\ tail' = [tail EXCEPT ![p] = Append(tail[p], "time")]
      BY <2>4 DEF AppendTime
    <3>2. ~recovering[p]
      BY <1>2, <2>4 DEF TailOfTick
    <3> QED
      BY <2>1, <3>1, <3>2 DEF Goto
  <2> QED
    BY <2>2, <2>3, <2>4
<1>6. TailOfTick(p)' /\ PublishedTicks(p)'
  <2>1. CASE pc'[p] = "failed" /\ tail'[p] = tail[p] /\ clock'[p] = clock[p]
    <3>1. TailOfTick(p)'
      BY <1>1, <1>2, <1>4, <2>1 DEF TailOfTick, InTick
    <3>2. PublishedTicks(p)'
      BY <1>1, <1>2, <1>4, <2>1, Numbers DEF PublishedTicks, InTick
    <3> QED
      BY <3>1, <3>2
  <2>2. CASE /\ pc'[p] = "body" /\ tail'[p] = tail[p] /\ clock'[p] = clock[p]
             /\ recovering[p] /\ tail[p] # <<>> /\ tail[p][1] = "time"
    <3>1. HasTime(tail[p])
      <4>1. 1 \in 1..Len(tail[p])
        BY <2>2, Numbers
      <4> QED
        BY <2>2, <4>1 DEF HasTime
    <3>2. TailOfTick(p)'
      BY <1>1, <1>2, <1>4, <2>2, <3>1 DEF TailOfTick, InTick
    <3>3. PublishedTicks(p)'
      BY <1>1, <1>2, <1>4, <2>2, Numbers DEF PublishedTicks, InTick
    <3> QED
      BY <3>2, <3>3
  <2>3. CASE /\ pc'[p] = "body" /\ ~recovering[p]
             /\ tail'[p] = Append(tail[p], "time") /\ clock'[p] = clock[p] + 1
    <3>1. /\ Len(tail[p]) \in Nat /\ Len(tail'[p]) = Len(tail[p]) + 1
          /\ tail'[p][Len(tail[p]) + 1] = "time"
          /\ \A i \in 1..Len(tail[p]) : tail'[p][i] = tail[p][i]
      BY <2>3, Numbers
    <3>2. HasTime(tail'[p])
      BY <3>1 DEF HasTime
    <3>3. AtMostOneTime(tail'[p])
      <4>1. \A i \in 1..Len(tail'[p]) : tail'[p][i] = "time" => i = Len(tail[p]) + 1
        BY <1>3, <2>3, <3>1 DEF HasTime
      <4> QED
        BY <4>1 DEF AtMostOneTime
    <3>4. clock'[p] = ticked[p] + 1
      BY <1>3, <2>3
    <3>5. TailOfTick(p)'
      BY <1>2, <1>4, <2>3, <3>2, <3>3, <3>4 DEF TailOfTick, InTick
    <3>6. PublishedTicks(p)'
      BY <1>1, <1>2, <1>4, <2>3, <3>4, Numbers DEF PublishedTicks, InTick
    <3> QED
      BY <3>5, <3>6
  <2> QED
    BY <1>5, <2>1, <2>2, <2>3
<1>7. \A q \in Partition \ {p} : TailOfTick(q)' /\ PublishedTicks(q)'
  <2>1. now <= now' /\ now' \in Nat
    BY <1>4, Numbers
  <2> QED
    BY <1>4, <1>5, <2>1, TimingElsewhere DEF Timing
<1> QED
  BY <1>4, <1>6, <1>7 DEF Timing

LEMMA CycleTiming ==
  ASSUME InboxTypesInv, Timing, NEW p \in Partition, NEW a, NEW made, NEW key,
         made.state.published = AfterReport(p, working[p], {}).published,
         made.state.receipts = AfterReport(p, working[p], {}).receipts,
         Cycle(p, a, made, key)
  PROVE  Timing'
<1> DEFINE state == AfterReport(p, working[p], {})
<1>1. /\ pc[p] = "body" /\ UNCHANGED <<now, clock, lifecycle, tail, recovering, faults>>
  BY DEF Cycle
<1>2. Stamps /\ TailOfTick(p) /\ PublishedTicks(p)
  BY DEF Timing
<1>3. /\ AuthorityTypes /\ RouterTypes /\ working[p] \in World /\ Boundary({})
      /\ pc \in [Partition -> Places] /\ published \in [Partition -> Nat]
  BY DEF InboxTypesInv, TickTypes, AuthorityTypes, Boundary
<1>4. /\ Stamps' /\ \A q \in Partition : published'[q] = published[q]
      /\ Goto(p, "failed") \/ Goto(p, "drain")
  <2>1. CASE IsRefused(p, working[p], {})
    <3>1. Goto(p, "failed") /\ UNCHANGED <<published, receipts, lastSynced>>
      BY <2>1 DEF Cycle, authorityState, router
    <3> QED
      BY <1>2, <3>1, StampsStay
  <2>2. CASE ~IsRefused(p, working[p], {})
    <3>1. /\ Goto(p, "drain") /\ RouterHasReported(p, working[p], {})
          /\ AuthorityBecomes(state) \/ AuthorityBecomes(made.state)
      BY <2>2 DEF Cycle
    <3>2. published' = state.published /\ receipts' = state.receipts
      BY <3>1 DEF AuthorityBecomes
    <3>3. /\ Stamps' /\ \A q \in Partition \ {p} : published'[q] = published[q]
          /\ published'[p] = published[p]
      BY <1>2, <1>3, <2>2, <3>1, <3>2, PublishedMoves
    <3> QED
      BY <3>1, <3>3
  <2> QED
    BY <2>1, <2>2
<1>5. /\ pc'[p] \in {"failed", "drain"} /\ \A q \in Partition \ {p} : pc'[q] = pc[q]
  BY <1>3, <1>4 DEF Goto
<1>6. UNCHANGED <<now, clock, boundary, ticked, tail, recovering, crashes>>
  BY <1>1 DEF lifecycle, faults
<1>7. TailOfTick(p)'
  BY <1>1, <1>2, <1>5, <1>6 DEF TailOfTick, InTick
<1>8. PublishedTicks(p)'
  BY <1>1, <1>2, <1>4, <1>5, <1>6, Numbers DEF PublishedTicks, InTick
<1>9. \A q \in Partition \ {p} : TailOfTick(q)' /\ PublishedTicks(q)'
  <2>1. now <= now' /\ now' \in Nat
    BY <1>6, Numbers
  <2> QED
    BY <1>4, <1>5, <1>6, <2>1, TimingElsewhere DEF Timing
<1>10. now' <= MaxTicks
  BY <1>6 DEF Timing
<1> QED
  BY <1>4, <1>7, <1>8, <1>9, <1>10 DEF Timing

LEMMA AgentStepsTiming ==
  ASSUME InboxTypesInv, Timing, NEW p \in Partition, NEW a \in Agent,
         TransferCycle(p, a) \/ MoveCycle(p, a)
  PROVE  Timing'
<1> DEFINE state == AfterReport(p, working[p], {})
<1>1. AuthorityFields(state)
  BY ReportTyped DEF InboxTypesInv, TickTypes, Boundary
<1>2. ASSUME NEW b PROVE /\ Transfer(p, a, b, state).state.published = state.published
                         /\ Transfer(p, a, b, state).state.receipts = state.receipts
  <2> HIDE DEF state
  <2> QED
    BY <1>1 DEF Transfer, AuthorityFields
<1>3. ASSUME NEW q PROVE /\ Move(p, a, q, state).state.published = state.published
                         /\ Move(p, a, q, state).state.receipts = state.receipts
  <2> HIDE DEF state
  <2> QED
    BY <1>1 DEF Move, AuthorityFields
<1>4. CASE TransferCycle(p, a)
  BY <1>2, <1>4, CycleTiming DEF TransferCycle
<1>5. CASE MoveCycle(p, a)
  BY <1>3, <1>5, CycleTiming DEF MoveCycle
<1> QED
  BY <1>4, <1>5

LEMMA TailOfMany ==
  ASSUME NEW t \in Seq({"time", "delivery"}), Len(t) > 1
  PROVE  /\ Tail(t) # <<>> /\ Len(Tail(t)) \in Nat /\ Len(t) = Len(Tail(t)) + 1
         /\ \A i \in 1..Len(Tail(t)) : Tail(t)[i] = t[i + 1]
<1>1. t # <<>> /\ Len(t) \in Nat
  OBVIOUS
<1>2. Tail(t) \in Seq({"time", "delivery"}) /\ Len(Tail(t)) = Len(t) - 1
      /\ \A i \in 1..(Len(t) - 1) : Tail(t)[i] = t[i + 1]
  BY <1>1
<1> DEFINE u == Tail(t)
<1>3. Len(u) # 0
  BY <1>1, <1>2
<1>4. u = <<>> => Len(u) = 0
  OBVIOUS
<1> HIDE DEF u
<1>5. u # <<>> /\ Len(u) \in Nat /\ Len(t) = Len(u) + 1 /\ Len(u) = Len(t) - 1
  BY <1>1, <1>2, <1>3, <1>4 DEF u
<1>6. \A i \in 1..Len(u) : u[i] = t[i + 1]
  BY <1>2, <1>5 DEF u
<1> QED
  BY <1>5, <1>6 DEF u

LEMMA CompleteTickTiming ==
  ASSUME InboxTypesInv, Timing, NEW p \in Partition, CompleteTick(p)
  PROVE  Timing'
<1> DEFINE last == ticked[p] + 1 = MaxTicks
           resumes == recovering[p] /\ Len(tail[p]) > 1 /\ ~last
<1>1. /\ pc[p] = "finished" /\ UNCHANGED <<now, authorityState, clock, router, faults>>
      /\ ticked' = [ticked EXCEPT ![p] = @ + 1]
      /\ recovering' = [recovering EXCEPT ![p] = resumes]
      /\ boundary' = [boundary EXCEPT ![p] =
            IF resumes THEN [proj |-> AgedBy(boundary[p].proj, 1),
                             clock |-> boundary[p].clock + 1]
                       ELSE [proj |-> projection[p], clock |-> clock[p]]]
      /\ tail' = [tail EXCEPT ![p] = IF resumes THEN Tail(tail[p]) ELSE <<>>]
      /\ Goto(p, IF last THEN "done" ELSE "start")
  BY DEF CompleteTick
<1>2. Stamps /\ TailOfTick(p) /\ PublishedTicks(p)
  BY DEF Timing
<1>3. UNCHANGED <<now, published, clock, crashes>> /\ Stamps'
  <2>1. UNCHANGED <<published, receipts, lastSynced>>
    BY <1>1 DEF authorityState, router
  <2> QED
    BY <1>1, <1>2, <2>1, StampsStay DEF faults
<1>4. /\ boundary \in [Partition -> [proj : World, clock : Nat]]
      /\ tail \in [Partition -> Seq({"time", "delivery"})]
      /\ ticked \in [Partition -> Nat] /\ recovering \in [Partition -> BOOLEAN]
      /\ pc \in [Partition -> Places]
  BY DEF InboxTypesInv, TickTypes
<1>5. /\ ticked'[p] = ticked[p] + 1 /\ recovering'[p] = resumes
      /\ tail'[p] = (IF resumes THEN Tail(tail[p]) ELSE <<>>)
      /\ pc'[p] = (IF last THEN "done" ELSE "start")
      /\ boundary'[p].clock = (IF resumes THEN boundary[p].clock + 1 ELSE clock[p])
      /\ \A q \in Partition \ {p} :
           /\ ticked'[q] = ticked[q] /\ recovering'[q] = recovering[q]
           /\ tail'[q] = tail[q] /\ pc'[q] = pc[q] /\ boundary'[q] = boundary[q]
  BY <1>1, <1>4 DEF Goto
<1>6. HasTime(tail[p]) /\ clock[p] = ticked[p] + 1 /\ boundary'[p].clock = ticked'[p]
  BY <1>1, <1>2, <1>5 DEF TailOfTick, InTick
<1>7. TailOfTick(p)'
  <2>1. CASE resumes
    <3>1. /\ recovering[p] /\ Len(tail[p]) > 1 /\ tail'[p] = Tail(tail[p]) /\ ~last
          /\ tail[p][1] = "time"
      BY <1>1, <1>2, <1>5, <2>1 DEF TailOfTick, InTick
    <3>2. /\ tail'[p] # <<>> /\ Len(tail'[p]) \in Nat
          /\ Len(tail[p]) = Len(tail'[p]) + 1
          /\ \A i \in 1..Len(tail'[p]) : tail'[p][i] = tail[p][i + 1]
      BY <3>1, Numbers, TailOfMany
    <3>3. ~HasTime(tail'[p])
      <4>1. \A i \in 1..Len(tail'[p]) : i + 1 \in 1..Len(tail[p]) /\ i + 1 # 1
                                        /\ 1 \in 1..Len(tail[p])
        BY <3>2
      <4>2. AtMostOneTime(tail[p])
        BY <1>2 DEF TailOfTick
      <4> QED
        BY <3>1, <3>2, <4>1, <4>2 DEF HasTime, AtMostOneTime
    <3>4. AtMostOneTime(tail'[p])
      BY <3>3 DEF HasTime, AtMostOneTime
    <3>5. recovering'[p] /\ pc'[p] = "start"
      BY <1>5, <2>1
    <3>6. clock'[p] = ticked'[p] + (IF HasTime(tail'[p]) THEN 1 ELSE 0)
      BY <1>3, <1>5, <1>6, <3>3, Numbers
    <3> HIDE DEF resumes, last
    <3> QED
      BY <1>6, <3>2, <3>3, <3>4, <3>5, <3>6, Numbers DEF TailOfTick, InTick
  <2>2. CASE ~resumes
    <3>1. tail'[p] = <<>> /\ ~recovering'[p] /\ pc'[p] \in {"start", "done"}
      BY <1>5, <2>2
    <3>2. ~HasTime(tail'[p]) /\ AtMostOneTime(tail'[p])
      BY <3>1 DEF HasTime, AtMostOneTime
    <3>3. clock'[p] = ticked'[p] + (IF HasTime(tail'[p]) THEN 1 ELSE 0)
      BY <1>3, <1>5, <1>6, <3>2, Numbers
    <3> HIDE DEF resumes, last
    <3> QED
      BY <1>6, <3>1, <3>2, <3>3, Numbers DEF TailOfTick, InTick
  <2> QED
    BY <2>1, <2>2
<1>8. PublishedTicks(p)'
  <2>1. /\ ticked[p] < MaxTicks /\ ticked[p] + 1 <= published[p]
        /\ clock[p] <= now /\ published[p] <= now /\ now <= published[p] + 1
        /\ crashes = 0 => published[p] <= ticked[p] + 1
    BY <1>1, <1>2 DEF PublishedTicks
  <2>2. last => ticked'[p] = MaxTicks /\ pc'[p] = "done"
    BY <1>5
  <2>3. ~last => ticked'[p] < MaxTicks /\ pc'[p] = "start"
    BY <1>5, <2>1, Numbers
  <2> HIDE DEF last, resumes
  <2> QED
    BY <1>3, <1>5, <1>6, <2>1, <2>2, <2>3, Numbers DEF PublishedTicks, InTick
<1>9. \A q \in Partition \ {p} : TailOfTick(q)' /\ PublishedTicks(q)'
  <2>1. now <= now' /\ now' \in Nat
    BY <1>3, Numbers
  <2> HIDE DEF last, resumes
  <2> QED
    BY <1>3, <1>5, <2>1, TimingElsewhere DEF Timing
<1>10. now' <= MaxTicks
  BY <1>3 DEF Timing
<1> QED
  BY <1>3, <1>7, <1>8, <1>9, <1>10 DEF Timing

LEMMA RestTiming ==
  ASSUME InboxTypesInv, Timing, NEW p \in Partition,
         TimesOut(p) \/ AppendRefused(p) \/ Retry(p)
  PROVE  Timing'
<1>1. /\ UNCHANGED <<now, authorityState, clock, lifecycle, tail, router, crashes>>
      /\ \/ /\ pc[p] \in {"waiting", "body"} /\ Goto(p, "failed") /\ UNCHANGED recovering
         \/ /\ pc[p] = "failed" /\ Goto(p, "start")
            /\ recovering' = [recovering EXCEPT ![p] = tail[p] # <<>>]
  BY DEF TimesOut, AppendRefused, Retry, faults
<1>2. Stamps /\ TailOfTick(p) /\ PublishedTicks(p)
  BY DEF Timing
<1>3. UNCHANGED <<now, published, clock, boundary, ticked, tail, crashes>> /\ Stamps'
  <2>1. UNCHANGED <<published, receipts, lastSynced>>
    BY <1>1 DEF authorityState, router
  <2> QED
    BY <1>1, <1>2, <2>1, StampsStay DEF lifecycle
<1>4. /\ pc \in [Partition -> Places] /\ recovering \in [Partition -> BOOLEAN]
  BY DEF InboxTypesInv, TickTypes
<1>5. /\ \/ /\ pc[p] \in {"waiting", "body"} /\ pc'[p] = "failed"
            /\ recovering'[p] = recovering[p]
         \/ /\ pc[p] = "failed" /\ pc'[p] = "start"
            /\ recovering'[p] <=> tail[p] # <<>>
      /\ \A q \in Partition \ {p} : pc'[q] = pc[q] /\ recovering'[q] = recovering[q]
  BY <1>1, <1>4 DEF Goto
<1>6. TailOfTick(p)'
  BY <1>2, <1>3, <1>5 DEF TailOfTick, InTick
<1>7. PublishedTicks(p)'
  BY <1>2, <1>3, <1>5, Numbers DEF PublishedTicks, InTick
<1>8. \A q \in Partition \ {p} : TailOfTick(q)' /\ PublishedTicks(q)'
  <2>1. now <= now' /\ now' \in Nat
    BY <1>3, Numbers
  <2> QED
    BY <1>3, <1>5, <2>1, TimingElsewhere DEF Timing
<1>9. now' <= MaxTicks
  BY <1>3 DEF Timing
<1> QED
  BY <1>3, <1>6, <1>7, <1>8, <1>9 DEF Timing

(* Who cannot read on reads nothing.                                       *)
LEMMA StuckReads ==
  ASSUME NEW p, NEW start, start.outcome # "taken", NEW last \in Nat
  PROVE  ReadFrom(p, start, last) = start
<1>1. PICK state :
        /\ state[0] = start
        /\ \A n \in 1..last :
             state[n] = IF n \in Pending(p) THEN TakeDelivery(p, state[n - 1], n)
                                            ELSE state[n - 1]
        /\ ReadFrom(p, start, last) = state[last]
  BY Reading
<1> DEFINE Bad == {n \in 0..last : state[n] # start}
<1>2. Bad = {}
  <2> SUFFICES ASSUME Bad # {} PROVE FALSE
    OBVIOUS
  <2>0. Bad \subseteq Nat
    OBVIOUS
  <2>1. PICK n \in Bad : \A m \in Bad : n <= m
    <3> HIDE DEF Bad
    <3> QED
      BY <2>0, Least
  <2>2. n \in 1..last /\ n - 1 \in 0..last /\ n - 1 \notin Bad
    BY <1>1, <2>1
  <2>3. state[n - 1] = start
    BY <2>2
  <2>4. state[n] = start
    BY <1>1, <2>2, <2>3 DEF TakeDelivery
  <2> QED
    BY <2>4
<1> QED
  BY <1>1, <1>2

LEMMA RestartTiming ==
  ASSUME InboxTypesInv, Timing, KillAndRestart
  PROVE  Timing'
<1>1. /\ UNCHANGED <<operations, now, authorityState, clock, lifecycle, timeouts>>
      /\ crashes' = crashes + 1
      /\ lastSynced' = [q \in Partition |-> <<>>]
  BY DEF KillAndRestart
<1>2. /\ UNCHANGED <<now, published, receipts, clock, boundary, ticked>>
      /\ crashes' # 0
  BY <1>1 DEF authorityState, lifecycle, InboxTypesInv, RouterTypes
<1>3. Stamps'
  BY <1>1, <1>2 DEF Timing, Stamps
<1>4. PICK p \in Partition : \E n \in Pending(p) \cup {0} :
           /\ tail' = [q \in Partition |->
                tail[q] \o AppendsOf(q, Restarted(p, n, q))]
           /\ recovering' = [q \in Partition |-> tail'[q] # <<>> /\ pc[q] # "done"]
           /\ \/ pc' = [q \in Partition |-> "poisoned"]
              \/ /\ \A r \in Partition : Restarted(p, n, r).outcome = "taken"
                 /\ pc' = [q \in Partition |->
                      IF pc[q] = "done" \/ ticked[q] = MaxTicks THEN "done"
                      ELSE "start"]
  BY RestartSteps
<1>5. PICK n \in Pending(p) \cup {0} :
           /\ tail' = [q \in Partition |->
                tail[q] \o AppendsOf(q, Restarted(p, n, q))]
           /\ recovering' = [q \in Partition |-> tail'[q] # <<>> /\ pc[q] # "done"]
           /\ \/ pc' = [q \in Partition |-> "poisoned"]
              \/ /\ \A r \in Partition : Restarted(p, n, r).outcome = "taken"
                 /\ pc' = [q \in Partition |->
                      IF pc[q] = "done" \/ ticked[q] = MaxTicks THEN "done"
                      ELSE "start"]
  BY <1>4
<1>6. ASSUME NEW q \in Partition
      PROVE  TailOfTick(q)' /\ PublishedTicks(q)'
  <2> DEFINE more == AppendsOf(q, Restarted(p, n, q))
  <2>1. TailOfTick(q) /\ PublishedTicks(q)
    BY DEF Timing
  <2>2. more \in Seq({"time", "delivery"}) /\ \A i \in 1..Len(more) : more[i] = "delivery"
    BY RestartedTyped, AppendsTyped DEF InboxTypesInv
  <2>3. /\ tail'[q] = tail[q] \o more /\ recovering'[q] \in BOOLEAN
        /\ recovering'[q] <=> tail'[q] # <<>> /\ pc[q] # "done"
    BY <1>5
  <2>4. \/ pc'[q] = "poisoned"
        \/ /\ Restarted(p, n, q).outcome = "taken"
           /\ pc'[q] = IF pc[q] = "done" \/ ticked[q] = MaxTicks THEN "done" ELSE "start"
    BY <1>5
  <2>5. pc[q] = "poisoned" => Restarted(p, n, q).outcome # "taken"
    <3> SUFFICES ASSUME pc[q] = "poisoned" PROVE Restarted(p, n, q).outcome # "taken"
      OBVIOUS
    <3>1. AppendedSoFar(p, n, q).outcome = "poisoned"
      BY DEF AppendedSoFar, Unread
    <3>2. Len(operations) \in Nat
      BY DEF InboxTypesInv, AuthorityTypes
    <3> QED
      BY <3>1, <3>2, StuckReads DEF Restarted
  <2> HIDE DEF more
  <2>6. /\ HasTime(tail'[q]) <=> HasTime(tail[q])
        /\ AtMostOneTime(tail[q]) => AtMostOneTime(tail'[q])
        /\ tail[q] # <<>> => tail'[q] # <<>>
    BY <2>2, <2>3, Numbers, TailGrows
  <2>7. \/ pc'[q] = "poisoned"
        \/ pc[q] = "done" /\ pc'[q] = "done"
        \/ pc[q] \notin {"done", "poisoned"} /\ pc'[q] = "start" /\ ticked[q] < MaxTicks
    <3>1. pc[q] \notin {"done", "poisoned"} => ticked[q] < MaxTicks
      BY <2>1 DEF PublishedTicks
    <3> QED
      BY <2>4, <2>5, <3>1, Numbers
  <2>8. TailOfTick(q)'
    BY <1>2, <2>1, <2>3, <2>6, <2>7 DEF TailOfTick, InTick
  <2>9. PublishedTicks(q)'
    BY <1>2, <2>1, <2>7, Numbers DEF PublishedTicks, InTick
  <2> QED
    BY <2>8, <2>9
<1>7. now' <= MaxTicks
  BY <1>2 DEF Timing
<1> QED
  BY <1>3, <1>6, <1>7 DEF Timing

LEMMA InitTiming ==
  ASSUME Init
  PROVE  Timing
<1>1. Stamps
  BY DEF Init, Stamps
<1>2. \A p \in Partition : TailOfTick(p) /\ PublishedTicks(p)
  BY Constants DEF Init, TailOfTick, PublishedTicks, HasTime, AtMostOneTime, InTick
<1> QED
  BY <1>1, <1>2, Constants DEF Init, Timing

LEMMA StepsTiming ==
  ASSUME InboxTypesInv, Timing, [Next]_vars
  PROVE  Timing'
<1>1. CASE UNCHANGED vars
  BY <1>1 DEF Timing, Stamps, TailOfTick, PublishedTicks, ClockOf, vars,
     authorityState, lifecycle, router, faults
<1>2. CASE KillAndRestart
  BY <1>2, RestartTiming
<1>3. ASSUME NEW p \in Partition, Step(p) \/ TimesOut(p)
      PROVE  Timing'
  BY <1>3, PreTickTiming, FindAdvancedTiming, AdvanceTiming, AppendTimeTiming,
     AgentStepsTiming, DrainTiming, FinishTickTiming, CompleteTickTiming,
     RestTiming DEF Step
<1> QED
  BY <1>1, <1>2, <1>3 DEF Next

-----------------------------------------------------------------------------
(* What the streams hold.                                                  *)

\* A stream holds what was recorded for its partition up to the cursor, in
\* order; what lies beyond the cursor is the work of a start that was poisoned.
StreamOf(p) ==
  /\ Increasing(stream[p])
  /\ pc[p] # "poisoned" =>
       \A i \in 1..Len(stream[p]) : stream[p][i].token <= cursor[p]
  /\ \A token \in 1..cursor[p] :
       operations[token].to[p] # <<>> => IsAppended(stream[p], token)

Streams == \A p \in Partition : StreamOf(p)

\* Settled operations stay what they are.
OperationsGrow ==
  \A token \in DOMAIN operations : operations'[token] = operations[token]

LEMMA StreamStays ==
  ASSUME InboxTypesInv, NEW q \in Partition, StreamOf(q), OperationsGrow,
         stream'[q] = stream[q], cursor'[q] = cursor[q],
         pc[q] = "poisoned" => pc'[q] = "poisoned"
  PROVE  StreamOf(q)'
<1>1. \A token \in 1..cursor[q] : token \in DOMAIN operations
  BY DEF InboxTypesInv, InboxTypes, AuthorityTypes
<1>2. \A token \in 1..cursor[q] : operations'[token] = operations[token]
  BY <1>1 DEF OperationsGrow
<1> QED
  BY <1>2 DEF StreamOf

LEMMA UnreadDelivered ==
  ASSUME InboxTypesInv, NEW p \in Partition, StreamOf(p), pc[p] # "poisoned"
  PROVE  Delivered(p, Unread(p), 0)
<1>1. \A token \in Pending(p) : ~(token <= 0)
  BY PendingTokens DEF InboxTypesInv, InboxTypes, Pending
<1> QED
  BY <1>1 DEF Delivered, Unread, StreamOf

LEMMA StreamRead ==
  ASSUME InboxTypesInv, NEW p \in Partition, StreamOf(p), UNCHANGED operations,
         NEW taken \in Reader, Delivered(p, taken, Len(operations)),
         Extends(stream[p], taken.entries), stream'[p] = taken.entries,
         cursor'[p] = IF taken.outcome = "taken" THEN Acknowledged(p) ELSE cursor[p],
         taken.outcome # "taken" => pc'[p] = "poisoned"
  PROVE  StreamOf(p)'
<1>1. /\ cursor[p] \in Nat /\ Len(operations) \in Nat
      /\ DOMAIN operations = 1..Len(operations)
      /\ \A token \in Pending(p) :
           token \in Nat /\ token <= Len(operations) /\ token <= Acknowledged(p)
      /\ Acknowledged(p) \in Nat /\ cursor[p] <= Acknowledged(p)
      /\ Acknowledged(p) <= Len(operations)
  BY PendingTokens, AcknowledgedTokens DEF InboxTypesInv, InboxTypes
<1>2. /\ taken.entries \in Seq(Entry) /\ Len(taken.entries) \in Nat
      /\ DOMAIN taken.entries = 1..Len(taken.entries)
      /\ \A i \in 1..Len(taken.entries) : taken.entries[i].token \in Nat
  BY ReaderEntries
<1>3. /\ stream[p] \in Seq(Entry) /\ DOMAIN stream[p] = 1..Len(stream[p])
      /\ Len(stream[p]) \in Nat
  BY DEF InboxTypesInv, InboxTypes
<1>4. Increasing(stream'[p])
  BY DEF Delivered
<1>5. pc'[p] # "poisoned" =>
        \A i \in 1..Len(stream'[p]) : stream'[p][i].token <= cursor'[p]
  <2> SUFFICES ASSUME pc'[p] # "poisoned", NEW i \in 1..Len(taken.entries)
               PROVE  taken.entries[i].token <= Acknowledged(p)
    OBVIOUS
  <2>1. \/ taken.entries[i].token <= cursor[p]
        \/ taken.entries[i].token \in Pending(p)
    BY DEF Delivered
  <2> QED
    BY <1>1, <1>2, <2>1
<1>6. \A token \in Nat : IsAppended(stream[p], token) => IsAppended(taken.entries, token)
  <2> SUFFICES ASSUME NEW token \in Nat, IsAppended(stream[p], token)
               PROVE  IsAppended(taken.entries, token)
    OBVIOUS
  <2>1. PICK i \in 1..Len(stream[p]) : stream[p][i].token = token
    BY <1>3 DEF IsAppended
  <2>2. i \in 1..Len(taken.entries) /\ taken.entries[i] = stream[p][i]
    BY <1>2, <1>3, <2>1 DEF Extends
  <2> QED
    BY <1>2, <2>1, <2>2 DEF IsAppended
<1>7. ASSUME NEW token \in 1..cursor'[p], operations[token].to[p] # <<>>
      PROVE  IsAppended(taken.entries, token)
  <2>1. token \in Nat /\ token \in DOMAIN operations
    BY <1>1, <1>7
  <2>2. CASE token <= cursor[p]
    <3>1. IsAppended(stream[p], token)
      BY <1>1, <1>7, <2>1, <2>2 DEF StreamOf
    <3> QED
      BY <1>6, <2>1, <3>1
  <2>3. CASE token > cursor[p]
    <3>1. taken.outcome = "taken"
      BY <1>1, <2>1, <2>3
    <3>2. DeliveryOf(token, p) # <<>>
      BY <1>7, <2>1, DeliveryTyped DEF InboxTypesInv
    <3>3. token \in Pending(p)
      BY <2>1, <2>3, <3>2 DEF Pending
    <3> QED
      BY <1>1, <3>1, <3>3 DEF Delivered
  <2> QED
    BY <1>1, <2>1, <2>2, <2>3
<1>8. \A token \in 1..cursor'[p] : operations'[token].to[p] # <<>> =>
        IsAppended(stream'[p], token)
  BY <1>7
<1> QED
  BY <1>4, <1>5, <1>8 DEF StreamOf

LEMMA TakenDelivered ==
  ASSUME InboxTypesInv, NEW p \in Partition, StreamOf(p), pc[p] # "poisoned"
  PROVE  /\ Delivered(p, Taken(p), Len(operations))
         /\ Extends(stream[p], Taken(p).entries)
<1>1. /\ AuthorityTypes /\ cursor[p] \in Nat /\ Unread(p) \in Reader
      /\ Len(operations) \in Nat /\ Len(operations) \in 0..Len(operations)
      /\ Unread(p).entries = stream[p]
  BY UnreadTyped, PendingTokens DEF InboxTypesInv, InboxTypes, Unread
<1>2. Further(Len(operations), 0) = Len(operations)
  BY <1>1 DEF Further
<1>3. /\ Delivered(p, Taken(p), Further(Len(operations), 0))
      /\ Extends(Unread(p).entries, Taken(p).entries)
  BY <1>1, UnreadDelivered, ReadDelivered DEF Taken
<1> QED
  BY <1>1, <1>2, <1>3

LEMMA MaterializesStreams ==
  ASSUME InboxTypesInv, Streams, NEW p \in Partition, Materializes(p),
         UNCHANGED operations, pc[p] # "poisoned",
         ~recovering[p] /\ Taken(p).outcome # "taken" => Goto(p, StuckAt(Taken(p))),
         \A q \in Partition \ {p} : pc'[q] = pc[q]
  PROVE  Streams'
<1>1. /\ stream \in [Partition -> Seq(Entry)] /\ cursor \in [Partition -> Nat]
      /\ Taken(p) \in Reader /\ pc \in [Partition -> Places]
  BY TakenTyped DEF InboxTypesInv, InboxTypes, TickTypes
<1>2. OperationsGrow
  BY DEF OperationsGrow
<1>3. CASE recovering[p]
  <2>1. UNCHANGED <<stream, cursor>>
    BY <1>3 DEF Materializes, inbox
  <2> QED
    BY <1>2, <2>1, StreamStays DEF Streams
<1>4. CASE ~recovering[p]
  <2> DEFINE taken == Taken(p)
  <2>1. /\ stream' = [stream EXCEPT ![p] = taken.entries]
        /\ cursor' = [cursor EXCEPT ![p] =
             IF taken.outcome = "taken" THEN Acknowledged(p) ELSE cursor[p]]
    BY <1>4 DEF Materializes, StreamsTaken
  <2>2. Delivered(p, taken, Len(operations)) /\ Extends(stream[p], taken.entries)
    BY TakenDelivered DEF Streams
  <2>3. taken.outcome # "taken" => pc'[p] = "poisoned"
    <3>1. taken.outcome # "taken" => taken.outcome = "poisoned"
      BY <1>1, <2>2 DEF Delivered, Reader
    <3> HIDE DEF taken
    <3> QED
      BY <1>1, <1>4, <3>1 DEF StuckAt, Goto, taken
  <2> HIDE DEF taken
  <2>4. StreamOf(p)'
    <3>1. /\ stream'[p] = taken.entries
          /\ cursor'[p] = IF taken.outcome = "taken" THEN Acknowledged(p) ELSE cursor[p]
      BY <1>1, <2>1
    <3>2. taken \in Reader
      BY <1>1 DEF taken
    <3> QED
      BY <2>2, <2>3, <3>1, <3>2, StreamRead DEF Streams
  <2>5. \A q \in Partition \ {p} : StreamOf(q)'
    <3>1. \A q \in Partition \ {p} : stream'[q] = stream[q] /\ cursor'[q] = cursor[q]
      BY <1>1, <2>1
    <3> QED
      BY <1>2, <3>1, StreamStays DEF Streams
  <2> QED
    BY <2>4, <2>5 DEF Streams
<1> QED
  BY <1>3, <1>4

LEMMA MaterializeStreams ==
  ASSUME InboxTypesInv, Streams, NEW p \in Partition, NEW given, NEW clocks,
         NEW place, MaterializeAndPublish(p, given, clocks, place), pc[p] # "poisoned"
  PROVE  Streams'
<1>1. /\ Materializes(p) /\ UNCHANGED operations
      /\ ~recovering[p] /\ Taken(p).outcome # "taken" => Goto(p, StuckAt(Taken(p)))
      /\ Goto(p, StuckAt(Taken(p))) \/ Goto(p, "failed") \/ Goto(p, place)
  BY DEF MaterializeAndPublish, Materializes
<1>2. \A q \in Partition \ {p} : pc'[q] = pc[q]
  BY <1>1 DEF InboxTypesInv, TickTypes, Goto
<1> QED
  BY <1>1, <1>2, MaterializesStreams

\* Steps that leave the inbox alone.
LEMMA StreamsStay ==
  ASSUME InboxTypesInv, Streams, OperationsGrow, UNCHANGED inbox,
         \A q \in Partition : pc[q] = "poisoned" => pc'[q] = "poisoned"
  PROVE  Streams'
BY StreamStays DEF Streams, inbox

LEMMA OperationsAppended ==
  ASSUME AuthorityTypes, NEW operation,
         UNCHANGED operations \/ operations' = Append(operations, operation)
  PROVE  OperationsGrow
<1>1. operations \in Seq(Operation)
  BY DEF AuthorityTypes
<1>2. CASE operations' = Append(operations, operation)
  <2>1. \A token \in 1..Len(operations) :
          Append(operations, operation)[token] = operations[token]
    BY <1>1
  <2> QED
    BY <1>1, <1>2, <2>1 DEF OperationsGrow
<1> QED
  BY <1>2 DEF OperationsGrow

LEMMA AgentStepsStreams ==
  ASSUME InboxTypesInv, Streams, NEW p \in Partition, NEW a,
         TransferCycle(p, a) \/ MoveCycle(p, a)
  PROVE  Streams'
<1>1. PICK made, key : Cycle(p, a, made, key)
  <2>1. \E made : \E key : Cycle(p, a, made, key)
    <3>1. CASE TransferCycle(p, a)
      BY <3>1 DEF TransferCycle
    <3>2. CASE MoveCycle(p, a)
      BY <3>2 DEF MoveCycle
    <3> QED
      BY <3>1, <3>2
  <2> QED
    BY <2>1
<1>2. /\ pc[p] = "body" /\ UNCHANGED inbox
      /\ Goto(p, "failed") \/ Goto(p, "drain")
      /\ UNCHANGED operations \/ operations' = Append(operations, made.operation)
  BY <1>1 DEF Cycle
<1>3. \A q \in Partition : pc[q] = "poisoned" => pc'[q] = "poisoned"
  BY <1>2 DEF Goto, InboxTypesInv, TickTypes
<1>4. OperationsGrow
  BY <1>2, OperationsAppended DEF InboxTypesInv
<1> QED
  BY <1>2, <1>3, <1>4, StreamsStay

LEMMA RestartedDelivered ==
  ASSUME InboxTypesInv, NEW p \in Partition, NEW n \in Pending(p) \cup {0},
         NEW q \in Partition, StreamOf(q)
  PROVE  /\ pc[q] = "poisoned" => /\ Restarted(p, n, q).entries = stream[q]
                                  /\ Restarted(p, n, q).outcome = "poisoned"
         /\ pc[q] # "poisoned" =>
              /\ Delivered(q, Restarted(p, n, q), Len(operations))
              /\ Extends(stream[q], Restarted(p, n, q).entries)
<1>1. /\ AuthorityTypes /\ cursor[q] \in Nat /\ Unread(q) \in Reader
      /\ Len(operations) \in Nat /\ Len(operations) \in 0..Len(operations)
      /\ Unread(q).entries = stream[q]
      /\ n \in 0..Len(operations) /\ 0 \in 0..Len(operations)
  BY UnreadTyped, PendingTokens DEF InboxTypesInv, InboxTypes, Unread
<1>2. CASE pc[q] = "poisoned"
  <2> DEFINE before == AppendedSoFar(p, n, q)
  <2>1. before.entries = stream[q] /\ before.outcome = "poisoned"
    BY <1>2 DEF AppendedSoFar, Unread
  <2> HIDE DEF before
  <2>2. ReadFrom(q, before, Len(operations)) = before
    BY <1>1, <2>1, StuckReads
  <2>3. Restarted(p, n, q) = before
    BY <2>2 DEF Restarted, before
  <2> QED
    BY <1>2, <2>1, <2>3
<1>3. CASE pc[q] # "poisoned"
  <2> DEFINE last == IF q = p THEN n ELSE 0
             before == AppendedSoFar(p, n, q)
  <2>1. before = ReadFrom(q, Unread(q), last)
    BY <1>3 DEF AppendedSoFar
  <2>2. last \in 0..Len(operations)
    BY <1>1
  <2> HIDE DEF last, before
  <2>3. /\ Delivered(q, before, Further(last, 0))
        /\ Extends(Unread(q).entries, before.entries)
        /\ before \in Reader
    BY <1>1, <1>3, <2>1, <2>2, UnreadDelivered, ReadDelivered, ReadTyped
  <2>4. /\ Further(last, 0) = last /\ last \in Nat
        /\ Further(Len(operations), last) = Len(operations)
    BY <1>1, <2>2 DEF Further
  <2>5. /\ Delivered(q, ReadFrom(q, before, Len(operations)),
                     Further(Len(operations), last))
        /\ Extends(before.entries, ReadFrom(q, before, Len(operations)).entries)
        /\ ReadFrom(q, before, Len(operations)) \in Reader
    BY <1>1, <2>3, <2>4, ReadDelivered, ReadTyped
  <2>6. Restarted(p, n, q) = ReadFrom(q, before, Len(operations))
    BY DEF Restarted, before
  <2>7. Delivered(q, Restarted(p, n, q), Len(operations))
    BY <2>4, <2>5, <2>6
  <2>8. Extends(stream[q], Restarted(p, n, q).entries)
    <3>1. /\ Extends(stream[q], before.entries)
          /\ Extends(before.entries, Restarted(p, n, q).entries)
      BY <1>1, <2>3, <2>5, <2>6
    <3>2. /\ Len(stream[q]) \in Nat /\ Len(before.entries) \in Nat
          /\ Len(Restarted(p, n, q).entries) \in Nat
      BY <2>3, <2>5, <2>6, ReaderEntries DEF InboxTypesInv, InboxTypes
    <3> QED
      BY <3>1, <3>2 DEF Extends
  <2> QED
    BY <1>3, <2>7, <2>8
<1> QED
  BY <1>2, <1>3

LEMMA RestartStreams ==
  ASSUME InboxTypesInv, Streams, KillAndRestart
  PROVE  Streams'
<1>1. UNCHANGED operations
  BY DEF KillAndRestart
<1>2. PICK p \in Partition : \E n \in Pending(p) \cup {0} :
           /\ stream' = [q \in Partition |-> Restarted(p, n, q).entries]
           /\ cursor' = [q \in Partition |->
                IF Restarted(p, n, q).outcome = "taken" THEN Acknowledged(q)
                ELSE cursor[q]]
           /\ \/ pc' = [q \in Partition |-> "poisoned"]
              \/ \A r \in Partition : Restarted(p, n, r).outcome = "taken"
  BY RestartSteps
<1>3. PICK n \in Pending(p) \cup {0} :
           /\ stream' = [q \in Partition |-> Restarted(p, n, q).entries]
           /\ cursor' = [q \in Partition |->
                IF Restarted(p, n, q).outcome = "taken" THEN Acknowledged(q)
                ELSE cursor[q]]
           /\ \/ pc' = [q \in Partition |-> "poisoned"]
              \/ \A r \in Partition : Restarted(p, n, r).outcome = "taken"
  BY <1>2
<1>4. ASSUME NEW q \in Partition PROVE StreamOf(q)'
  <2> DEFINE taken == Restarted(p, n, q)
  <2>1. taken \in Reader
    BY RestartedTyped DEF InboxTypesInv
  <2>2. /\ stream'[q] = taken.entries
        /\ cursor'[q] = IF taken.outcome = "taken" THEN Acknowledged(q) ELSE cursor[q]
        /\ taken.outcome # "taken" => pc'[q] = "poisoned"
    BY <1>3
  <2>3. StreamOf(q)
    BY DEF Streams
  <2>4. CASE pc[q] = "poisoned"
    <3>1. taken.entries = stream[q] /\ taken.outcome = "poisoned"
      BY <2>3, <2>4, RestartedDelivered
    <3> HIDE DEF taken
    <3>2. /\ stream'[q] = stream[q] /\ cursor'[q] = cursor[q]
          /\ pc'[q] = "poisoned" /\ OperationsGrow
      BY <1>1, <2>2, <3>1 DEF OperationsGrow
    <3> QED
      BY <2>3, <3>2, StreamStays
  <2>5. CASE pc[q] # "poisoned"
    <3>1. Delivered(q, taken, Len(operations)) /\ Extends(stream[q], taken.entries)
      BY <2>3, <2>5, RestartedDelivered
    <3> HIDE DEF taken
    <3> QED
      BY <1>1, <2>1, <2>2, <2>3, <3>1, StreamRead
  <2> QED
    BY <2>4, <2>5
<1> QED
  BY <1>4 DEF Streams

LEMMA StepsStreams ==
  ASSUME InboxTypesInv, Streams, [Next]_vars
  PROVE  Streams'
<1>1. CASE UNCHANGED vars
  BY <1>1, StreamsStay DEF vars, OperationsGrow
<1>2. CASE KillAndRestart
  BY <1>2, RestartStreams
<1>3. ASSUME NEW p \in Partition, Step(p) \/ TimesOut(p)
      PROVE  Streams'
  <2>1. CASE PreTick(p)
    BY <2>1, MaterializeStreams DEF PreTick
  <2>2. CASE DrainAfterCycle(p)
    BY <2>2, MaterializeStreams DEF DrainAfterCycle
  <2>3. CASE FinishTick(p)
    BY <2>3, MaterializeStreams DEF FinishTick
  <2>4. CASE FindAdvanced(p)
    <3>1. /\ Materializes(p) /\ UNCHANGED operations /\ pc[p] = "waiting"
          /\ Goto(p, "ready") \/ Goto(p, StuckAt(Taken(p)))
          /\ ~recovering[p] /\ Taken(p).outcome # "taken" => Goto(p, StuckAt(Taken(p)))
      BY <2>4 DEF FindAdvanced, LeaveBarrier, Materializes
    <3>2. \A q \in Partition \ {p} : pc'[q] = pc[q]
      BY <3>1 DEF InboxTypesInv, TickTypes, Goto
    <3> QED
      BY <3>1, <3>2, MaterializesStreams
  <2>5. CASE Advance(p)
    <3>1. /\ UNCHANGED <<inbox, pc>>
          /\ operations' = Append(operations, AdvanceOf(Target(p)))
      BY <2>5 DEF Advance, AdvanceTime, AdvanceOf, HandoverAt
    <3>2. OperationsGrow
      BY <3>1, OperationsAppended DEF InboxTypesInv
    <3> QED
      BY <3>1, <3>2, StreamsStay
  <2>6. CASE AppendTime(p)
    <3>1. /\ UNCHANGED <<operations, stream, cursor>> /\ pc[p] = "ready"
          /\ Goto(p, "failed") \/ Goto(p, "body")
      BY <2>6 DEF AppendTime
    <3>2. \A q \in Partition : pc[q] = "poisoned" => pc'[q] = "poisoned"
      BY <3>1 DEF Goto, InboxTypesInv, TickTypes
    <3> QED
      BY <3>1, <3>2, StreamStays DEF Streams, OperationsGrow
  <2>7. CASE \E a \in Agent : TransferCycle(p, a) \/ MoveCycle(p, a)
    BY <2>7, AgentStepsStreams
  <2>8. CASE AppendRefused(p) \/ CompleteTick(p) \/ Retry(p) \/ TimesOut(p)
    <3>1. /\ UNCHANGED <<operations, inbox>> /\ pc[p] # "poisoned"
          /\ \E place : Goto(p, place)
      BY <2>8 DEF AppendRefused, CompleteTick, Retry, TimesOut
    <3>2. \A q \in Partition : pc[q] = "poisoned" => pc'[q] = "poisoned"
      BY <3>1 DEF Goto, InboxTypesInv, TickTypes
    <3> QED
      BY <3>1, <3>2, StreamsStay DEF OperationsGrow
  <2> QED
    BY <1>3, <2>1, <2>2, <2>3, <2>4, <2>5, <2>6, <2>7, <2>8 DEF Step
<1> QED
  BY <1>1, <1>2, <1>3 DEF Next

-----------------------------------------------------------------------------
(* Theorems.                                                               *)

(* Every variable keeps its type, and the authority's three tables agree   *)
(* (their type invariant without the bounds on ages and tokens): it has a  *)
(* record of exactly the agents it has an owner for, and only such an      *)
(* agent is in transit.                                                    *)
THEOREM KnownTypes == Spec => []InboxInv
<1>1. Init => InboxInv
  BY InitTyped
<1>2. InboxInv /\ [Next]_vars => InboxInv'
  BY StepsTyped
<1> QED
  BY <1>1, <1>2, PTL DEF Spec

(* Whatever is killed, given up or repeated, a tick is published when it   *)
(* is finished, the authority's clock is at most one tick ahead of what    *)
(* any partition has published, and no partition's clock is ahead of it.   *)
THEOREM ClocksAgree == Spec => []Timing
<1>1. Init => Timing
  BY InitTiming
<1>2. InboxInv /\ Timing /\ [Next]_vars => Timing'
  BY StepsTiming DEF InboxInv
<1> QED
  BY <1>1, <1>2, KnownTypes, PTL DEF Spec

(* The barrier is no deadlock, killed processes included: when every       *)
(* partition waits or has finished its batch, one that waits can go on     *)
(* (advanceAuthorityAtPartitionBarrier).                                   *)
THEOREM BarrierNeverBlocks == Spec => []BarrierOpens
<1>1. InboxInv /\ Timing => BarrierOpens
  <2> SUFFICES ASSUME InboxInv, Timing, NEW p \in Partition, pc[p] = "waiting",
                      \A q \in Partition : pc[q] \in {"waiting", "done"},
                      \A q \in Partition : pc[q] = "waiting" => ~(now >= Target(q))
               PROVE  BarrierIsOpen
    BY DEF BarrierOpens
  <2>1. ASSUME NEW q \in Partition PROVE published[q] >= now
    <3>1. /\ TailOfTick(q) /\ PublishedTicks(q) /\ now <= MaxTicks
      BY DEF Timing
    <3>2. published[q] \in Nat /\ now \in Nat /\ ClockOf(q) \in Nat /\ MaxTicks \in Nat
          /\ Target(q) = ClockOf(q) + 1
      BY Numbers, ClocksTyped DEF InboxInv, InboxTypesInv
    <3>3. CASE pc[q] = "waiting"
      BY <3>1, <3>2, <3>3 DEF PublishedTicks
    <3>4. CASE pc[q] = "done"
      BY <3>1, <3>2, <3>4 DEF PublishedTicks
    <3> QED
      BY <3>3, <3>4
  <2> QED
    BY <2>1 DEF BarrierIsOpen
<1> QED
  BY <1>1, KnownTypes, ClocksAgree, PTL

(* As long as no process is killed, the authority's clock stands still     *)
(* while any partition is in the body of a tick.                           *)
THEOREM ClockStandsStill == Spec => ClockMovesBetweenTicks
<1>1. InboxInv /\ Timing /\ [Next]_vars =>
        [now' # now /\ crashes = 0 =>
           \A p \in Partition : pc[p] \notin {"body", "drain"}]_vars
  <2> SUFFICES ASSUME InboxInv, Timing, Next, now' # now, crashes = 0,
                      NEW q \in Partition
               PROVE  pc[q] \notin {"body", "drain"}
    OBVIOUS
  <2>1. PICK p \in Partition : Advance(p)
    <3>1. ~KillAndRestart
      BY DEF KillAndRestart
    <3>2. ASSUME NEW p \in Partition, Step(p) \/ TimesOut(p) PROVE Advance(p)
      <4>1. ~PreTick(p) /\ ~DrainAfterCycle(p) /\ ~FinishTick(p)
        BY DEF PreTick, DrainAfterCycle, FinishTick, MaterializeAndPublish
      <4>2. ~FindAdvanced(p) /\ ~AppendTime(p) /\ ~AppendRefused(p)
            /\ ~CompleteTick(p) /\ ~Retry(p) /\ ~TimesOut(p)
        BY DEF FindAdvanced, AppendTime, AppendRefused, CompleteTick, Retry, TimesOut
      <4>3. \A a : ~TransferCycle(p, a) /\ ~MoveCycle(p, a)
        BY DEF TransferCycle, MoveCycle, Cycle
      <4> QED
        BY <3>2, <4>1, <4>2, <4>3 DEF Step
    <3> QED
      BY <3>1, <3>2 DEF Next
  <2>2. published[q] >= now
    BY <2>1 DEF Advance, BarrierIsOpen
  <2>3. PublishedTicks(q) /\ InboxTypesInv
    BY DEF Timing, InboxInv
  <2> QED
    BY <2>2, <2>3, Numbers DEF PublishedTicks, InTick
<1> QED
  BY <1>1, KnownTypes, ClocksAgree, PTL DEF Spec, ClockMovesBetweenTicks

(* Through kills between a delivery's append and its acknowledgement, and  *)
(* through starts given up and repeated, a partition's stream holds every  *)
(* settlement recorded for it up to its cursor once, in fencing order      *)
(* (materializeSimulationWideAuthorityInbox).                              *)
THEOREM NothingTwice == Spec => []DeliveredOnce
<1>1. Init => Streams
  BY DEF Init, Streams, StreamOf, Increasing
<1>2. InboxInv /\ Streams /\ [Next]_vars => Streams'
  BY StepsStreams DEF InboxInv
<1>3. InboxInv /\ Streams => DeliveredOnce
  <2> SUFFICES ASSUME InboxInv, Streams, NEW p \in Partition
               PROVE  /\ \A i, j \in DOMAIN stream[p] :
                           i < j => stream[p][i].token < stream[p][j].token
                      /\ \A token \in 1..cursor[p] : operations[token].to[p] # <<>> =>
                           \E i \in DOMAIN stream[p] : stream[p][i].token = token
    BY DEF DeliveredOnce
  <2>1. DOMAIN stream[p] = 1..Len(stream[p])
    BY DEF InboxInv, InboxTypesInv, InboxTypes
  <2> QED
    BY <2>1 DEF Streams, StreamOf, Increasing, IsAppended
<1> QED
  BY <1>1, <1>2, <1>3, KnownTypes, PTL DEF Spec

-----------------------------------------------------------------------------
(* What a partition has when it has read its inbox to the end.             *)

\* A delivery taken: TakeDelivery for the events it consists of.
TakeEvents(state, token, events) ==
  LET reduced == AppliedAll(state.proj, events)
      entry == [token |-> token, events |-> events]
  IN IF state.outcome # "taken" THEN state
     ELSE IF IsAppended(state.entries, token)
          THEN IF entry \in ToSet(state.entries)
               THEN state ELSE [state EXCEPT !.outcome = "failed"]
          ELSE [proj |-> reduced.proj,
                entries |-> Append(state.entries, entry),
                outcome |-> IF reduced.sound THEN "taken" ELSE "poisoned"]

ReadsOneByOne ==
  \A p, start :
    /\ ReadFrom(p, start, 0) = start
    /\ \A n \in Nat :
         ReadFrom(p, start, n + 1) =
           IF n + 1 \in Pending(p)
           THEN TakeEvents(ReadFrom(p, start, n), n + 1, DeliveryOf(n + 1, p))
           ELSE ReadFrom(p, start, n)

(* What is read up to a token follows from what is read up to the one      *)
(* before it.                                                              *)
LEMMA OneByOne == ReadsOneByOne
<1> SUFFICES ASSUME NEW p, NEW start
             PROVE  /\ ReadFrom(p, start, 0) = start
                    /\ \A n \in Nat :
                         ReadFrom(p, start, n + 1) =
                           IF n + 1 \in Pending(p)
                           THEN TakeEvents(ReadFrom(p, start, n), n + 1,
                                           DeliveryOf(n + 1, p))
                           ELSE ReadFrom(p, start, n)
  BY DEF ReadsOneByOne
<1>1. ReadFrom(p, start, 0) = start
  <2>1. 0 \in Nat
    OBVIOUS
  <2> QED
    BY <2>1, Reading
<1>2. ASSUME NEW n \in Nat
      PROVE  ReadFrom(p, start, n + 1) =
               IF n + 1 \in Pending(p)
               THEN TakeEvents(ReadFrom(p, start, n), n + 1, DeliveryOf(n + 1, p))
               ELSE ReadFrom(p, start, n)
  <2>1. n + 1 \in Nat
    OBVIOUS
  <2> DEFINE last == n + 1
  <2>2. PICK f : /\ f[0] = start
                 /\ \A k \in 1..last :
                      f[k] = IF k \in Pending(p) THEN TakeDelivery(p, f[k - 1], k)
                                                 ELSE f[k - 1]
                 /\ ReadFrom(p, start, last) = f[last]
    <3>1. last \in Nat
      BY <2>1
    <3> HIDE DEF last
    <3> QED
      BY <3>1, Reading
  <2>3. PICK g : /\ g[0] = start
                 /\ \A k \in 1..n :
                      g[k] = IF k \in Pending(p) THEN TakeDelivery(p, g[k - 1], k)
                                                 ELSE g[k - 1]
                 /\ ReadFrom(p, start, n) = g[n]
    BY Reading
  <2>4. f[n] = g[n]
    <3> DEFINE Bad == {k \in 0..n : f[k] # g[k]}
    <3> SUFFICES ASSUME Bad # {} PROVE FALSE
      OBVIOUS
    <3>1. Bad \subseteq Nat
      OBVIOUS
    <3> HIDE DEF Bad
    <3>2. PICK k \in Bad : \A m \in Bad : k <= m
      BY <3>1, Least
    <3>3. k \in 0..n /\ f[k] # g[k]
      BY <3>2 DEF Bad
    <3>4. k # 0
      BY <2>2, <2>3, <3>3
    <3>5. k - 1 \in 0..n /\ k \in 1..n /\ k \in 1..(n + 1) /\ ~(k <= k - 1)
      BY <3>3, <3>4
    <3>6. f[k - 1] = g[k - 1]
      BY <3>2, <3>5 DEF Bad
    <3> QED
      BY <2>2, <2>3, <3>3, <3>5, <3>6
  <2>5. f[n + 1] = IF n + 1 \in Pending(p) THEN TakeDelivery(p, f[n], n + 1) ELSE f[n]
    <3>1. n + 1 \in 1..(n + 1) /\ (n + 1) - 1 = n
      OBVIOUS
    <3> QED
      BY <2>2, <3>1
  <2>6. TakeDelivery(p, f[n], n + 1) = TakeEvents(f[n], n + 1, DeliveryOf(n + 1, p))
    BY DEF TakeDelivery, TakeEvents
  <2> QED
    BY <2>2, <2>3, <2>4, <2>5, <2>6
<1> QED
  BY <1>1, <1>2

LEMMA OneByOneAfter == ReadsOneByOne'
BY OneByOne, PTL

(* Two readings agree that start alike and find the same deliveries.       *)
LEMMA SameReading ==
  ASSUME NEW p, NEW start, NEW last \in Nat,
         \A token \in 1..last : token \in Pending(p)' <=> token \in Pending(p),
         \A token \in 1..last : token \in Pending(p) =>
           DeliveryOf(token, p)' = DeliveryOf(token, p)
  PROVE  ReadFrom(p, start, last)' = ReadFrom(p, start, last)
<1> DEFINE Bad == {n \in 0..last : ReadFrom(p, start, n)' # ReadFrom(p, start, n)}
<1> SUFFICES ASSUME Bad # {} PROVE FALSE
  OBVIOUS
<1>1. Bad \subseteq Nat
  OBVIOUS
<1> HIDE DEF Bad
<1>2. PICK n \in Bad : \A m \in Bad : n <= m
  BY <1>1, Least
<1>3. n \in 0..last /\ ReadFrom(p, start, n)' # ReadFrom(p, start, n)
  BY <1>2 DEF Bad
<1>4. ReadFrom(p, start, 0)' = start /\ ReadFrom(p, start, 0) = start
  BY OneByOne, OneByOneAfter DEF ReadsOneByOne
<1>5. n # 0
  BY <1>3, <1>4
<1> DEFINE k == n - 1
<1>6. k \in 0..last /\ k \in Nat /\ k + 1 = n /\ k + 1 \in 1..last /\ ~(n <= k)
  BY <1>3, <1>5
<1> HIDE DEF k
<1>7. ReadFrom(p, start, k)' = ReadFrom(p, start, k)
  BY <1>2, <1>6 DEF Bad
<1>8. ReadFrom(p, start, k + 1) =
        IF k + 1 \in Pending(p)
        THEN TakeEvents(ReadFrom(p, start, k), k + 1, DeliveryOf(k + 1, p))
        ELSE ReadFrom(p, start, k)
  BY <1>6, OneByOne DEF ReadsOneByOne
<1>9. ReadFrom(p, start, k + 1)' =
        IF k + 1 \in Pending(p)'
        THEN TakeEvents(ReadFrom(p, start, k)', k + 1, DeliveryOf(k + 1, p)')
        ELSE ReadFrom(p, start, k)'
  BY <1>6, OneByOneAfter DEF ReadsOneByOne
<1> QED
  BY <1>3, <1>6, <1>7, <1>8, <1>9

ReadsToTheEnd ==
  \A p : \A start, last :
    start = Unread(p) /\ last = Len(operations) => Taken(p) = ReadFrom(p, start, last)

LEMMA ToTheEnd == ReadsToTheEnd
BY DEF ReadsToTheEnd, Taken

LEMMA ToTheEndAfter == ReadsToTheEnd'
BY ToTheEnd, PTL

(* A settlement is taken by who has read everything before it.             *)
LEMMA ViewExtends ==
  ASSUME AuthorityTypes, InboxTypes, NEW p \in Partition, NEW operation,
         operations' = Append(operations, operation),
         projection'[p] = projection[p], stream'[p] = stream[p],
         cursor'[p] = cursor[p],
         \A token \in DOMAIN operations : cursor[p] < token =>
           DeliveryOf(token, p)' = DeliveryOf(token, p),
         NEW n, n = Len(operations) + 1
  PROVE  Taken(p)' = IF DeliveryOf(n, p)' = <<>> THEN Taken(p)
                     ELSE TakeEvents(Taken(p), n, DeliveryOf(n, p)')
<1>0. PICK last : last = Len(operations)
  OBVIOUS
<1>1. /\ last \in Nat /\ DOMAIN operations = 1..last /\ cursor[p] \in Nat
      /\ cursor[p] <= last
  BY <1>0, PendingTokens DEF InboxTypes
<1>2. DOMAIN operations' = 1..n /\ Len(operations') = n /\ n = last + 1
  BY <1>0, <1>1 DEF AuthorityTypes
<1>3. \A token \in 1..last : token \in Pending(p)' <=> token \in Pending(p)
  BY <1>1, <1>2 DEF Pending
<1>4. \A token \in 1..last : token \in Pending(p) =>
        DeliveryOf(token, p)' = DeliveryOf(token, p)
  BY <1>1 DEF Pending
<1>5. n \in Pending(p)' <=> DeliveryOf(n, p)' # <<>>
  BY <1>1, <1>2 DEF Pending
<1>6. PICK start : start = Unread(p) /\ Unread(p)' = start
  BY DEF Unread
<1>7. ReadFrom(p, start, last)' = ReadFrom(p, start, last)
  BY <1>1, <1>3, <1>4, SameReading
<1>8. Taken(p) = ReadFrom(p, start, last)
  BY <1>0, <1>6, ToTheEnd DEF ReadsToTheEnd
<1>9. Taken(p)' = ReadFrom(p, start, n)'
  BY <1>2, <1>6, ToTheEndAfter DEF ReadsToTheEnd
<1>10. ReadFrom(p, start, last + 1)' =
         IF last + 1 \in Pending(p)'
         THEN TakeEvents(ReadFrom(p, start, last)', last + 1, DeliveryOf(last + 1, p)')
         ELSE ReadFrom(p, start, last)'
  BY <1>1, OneByOneAfter DEF ReadsOneByOne
<1> QED
  BY <1>2, <1>5, <1>7, <1>8, <1>9, <1>10

(* Who appends nothing and receives nothing reads what it read before.     *)
LEMMA ViewStays ==
  ASSUME AuthorityTypes, InboxTypes, NEW p \in Partition,
         UNCHANGED operations, projection'[p] = projection[p],
         stream'[p] = stream[p], cursor'[p] = cursor[p],
         \A token \in DOMAIN operations : cursor[p] < token =>
           DeliveryOf(token, p)' = DeliveryOf(token, p)
  PROVE  Taken(p)' = Taken(p)
<1>1. PICK start, last : start = Unread(p) /\ last = Len(operations)
  OBVIOUS
<1>2. last \in Nat /\ DOMAIN operations = 1..last
  BY <1>1, PendingTokens
<1>3. \A token \in 1..last : token \in Pending(p)' <=> token \in Pending(p)
  BY <1>2 DEF Pending
<1>4. \A token \in 1..last : token \in Pending(p) =>
        DeliveryOf(token, p)' = DeliveryOf(token, p)
  BY <1>2 DEF Pending
<1>5. start = Unread(p)' /\ last = Len(operations')
  BY <1>1 DEF Unread
<1>6. ReadFrom(p, start, last)' = ReadFrom(p, start, last)
  BY <1>2, <1>3, <1>4, SameReading
<1>7. Taken(p) = ReadFrom(p, start, last)
  BY <1>1, ToTheEnd DEF ReadsToTheEnd
<1>8. Taken(p)' = ReadFrom(p, start, last)'
  BY <1>5, ToTheEndAfter DEF ReadsToTheEnd
<1> QED
  BY <1>6, <1>7, <1>8

NothingIsNothing ==
  \A p, start : \A last \in Nat : Pending(p) = {} => ReadFrom(p, start, last) = start

(* Who has nothing to read has what it had.                                *)
LEMMA NothingRead == NothingIsNothing
<1> SUFFICES ASSUME NEW p, NEW start, NEW last \in Nat, Pending(p) = {},
                    ReadFrom(p, start, last) # start
             PROVE  FALSE
  BY DEF NothingIsNothing
<1> DEFINE Bad == {n \in Nat : ReadFrom(p, start, n) # start}
<1>1. Bad \subseteq Nat /\ Bad # {}
  OBVIOUS
<1> HIDE DEF Bad
<1>2. PICK n \in Bad : \A m \in Bad : n <= m
  BY <1>1, Least
<1>3. n \in Nat /\ ReadFrom(p, start, n) # start
  BY <1>2 DEF Bad
<1>4. n # 0
  BY <1>3, OneByOne DEF ReadsOneByOne
<1>5. PICK k \in Nat : n = k + 1 /\ ~(n <= k)
  <2>1. n - 1 \in Nat /\ n = (n - 1) + 1 /\ ~(n <= n - 1)
    BY <1>3, <1>4
  <2> QED
    BY <2>1
<1>6. ReadFrom(p, start, k) = start
  BY <1>2, <1>5 DEF Bad
<1>7. ReadFrom(p, start, k + 1) =
        IF k + 1 \in Pending(p)
        THEN TakeEvents(ReadFrom(p, start, k), k + 1, DeliveryOf(k + 1, p))
        ELSE ReadFrom(p, start, k)
  BY OneByOne DEF ReadsOneByOne
<1> QED
  BY <1>3, <1>5, <1>6, <1>7

LEMMA NothingReadAfter == NothingIsNothing'
BY NothingRead, PTL

(* Behind a reading there is nothing to read, and the partition is as the  *)
(* reading has left it.                                                    *)
LEMMA ViewRead ==
  ASSUME AuthorityTypes, InboxTypes, NEW p \in Partition,
         UNCHANGED <<operations, owner>>, StreamsTaken(p, Taken(p)),
         Taken(p).outcome = "taken"
  PROVE  /\ Pending(p)' = {} /\ projection'[p] = Taken(p).proj
         /\ Taken(p)' = [proj |-> Taken(p).proj, entries |-> Taken(p).entries,
                         outcome |-> "taken"]
<1>1. /\ cursor'[p] = Acknowledged(p) /\ projection'[p] = Taken(p).proj
      /\ stream'[p] = Taken(p).entries
  BY DEF StreamsTaken, InboxTypes
<1>2. /\ Acknowledged(p) \in Nat /\ cursor[p] <= Acknowledged(p) /\ cursor[p] \in Nat
      /\ \A token \in Pending(p) : token <= Acknowledged(p)
      /\ DOMAIN operations = 1..Len(operations) /\ Len(operations) \in Nat
  BY AcknowledgedTokens, PendingTokens DEF InboxTypes
<1>3. \A token \in DOMAIN operations : DeliveryOf(token, p)' = DeliveryOf(token, p)
  BY DEF DeliveryOf
<1>4. Pending(p)' = {}
  <2> SUFFICES ASSUME NEW token \in Pending(p)' PROVE FALSE
    OBVIOUS
  <2>1. token \in DOMAIN operations /\ token > Acknowledged(p) /\ DeliveryOf(token, p) # <<>>
    BY <1>1, <1>3 DEF Pending
  <2>2. token \in Pending(p)
    BY <1>2, <2>1 DEF Pending
  <2> QED
    BY <1>2, <2>1, <2>2
<1>5. PICK start, last : start = Unread(p)' /\ last = Len(operations')
  OBVIOUS
<1>6. Taken(p)' = ReadFrom(p, start, last)'
  BY <1>5, ToTheEndAfter DEF ReadsToTheEnd
<1>7. last \in Nat
  BY <1>2, <1>5
<1>8. Taken(p)' = start
  BY <1>4, <1>6, <1>7, NothingReadAfter DEF NothingIsNothing
<1> QED
  BY <1>1, <1>4, <1>5, <1>8 DEF Unread

(* One event reduced.                                                      *)
LEMMA AppliedOne ==
  ASSUME NEW proj, NEW event
  PROVE  AppliedAll(proj, <<event>>) = Reduced([proj |-> proj, sound |-> TRUE], event)
<1> DEFINE events == <<event>>
<1>1. Len(events) = 1 /\ events[1] = event
  OBVIOUS
<1> HIDE DEF events
<1>2. Len(events) \in Nat
  BY <1>1
<1>3. PICK state : /\ state[0] = [proj |-> proj, sound |-> TRUE]
                   /\ \A i \in 1..Len(events) : state[i] = Reduced(state[i - 1], events[i])
                   /\ AppliedAll(proj, events) = state[Len(events)]
  BY <1>2, Applying
<1>4. state[1] = Reduced(state[0], event)
  <2>1. 1 \in 1..Len(events) /\ 1 - 1 = 0
    BY <1>1
  <2> QED
    BY <1>1, <1>3, <2>1
<1>5. AppliedAll(proj, events) = Reduced([proj |-> proj, sound |-> TRUE], event)
  BY <1>1, <1>3, <1>4
<1> QED
  BY <1>5 DEF events

LEMMA SettledReduced ==
  ASSUME NEW proj, NEW token, NEW agents, NEW after,
         after = AppliedAll(proj, <<Settled(token, agents)>>)
  PROVE  /\ agents \cap DOMAIN proj # {} =>
              after.proj = WithFact(proj, token, agents) /\ after.sound = TRUE
         /\ agents \cap DOMAIN proj = {} => after.proj = proj /\ after.sound = FALSE
<1> DEFINE event == Settled(token, agents)
<1>1. /\ event.type = "settled" /\ event.token = token /\ event.agents = agents
  BY DEF Settled
<1> HIDE DEF event
<1>2. Applicable(proj, event) <=> agents \cap DOMAIN proj # {}
  BY <1>1 DEF Applicable
<1>3. Applied(proj, event) = WithFact(proj, token, agents)
  BY <1>1 DEF Applied
<1> DEFINE state == [proj |-> proj, sound |-> TRUE]
<1>4. state.sound = TRUE /\ state.proj = proj /\ DOMAIN state = {"proj", "sound"}
  OBVIOUS
<1> HIDE DEF state
<1>5. after = Reduced(state, event)
  BY AppliedOne DEF event, state
<1>6. after = IF agents \cap DOMAIN proj # {}
              THEN [state EXCEPT !.proj = WithFact(proj, token, agents)]
              ELSE [state EXCEPT !.sound = FALSE]
  BY <1>2, <1>3, <1>4, <1>5 DEF Reduced
<1>7. CASE agents \cap DOMAIN proj # {}
  <2>1. after = [state EXCEPT !.proj = WithFact(proj, token, agents)]
    BY <1>6, <1>7
  <2> QED
    BY <1>4, <1>7, <2>1
<1>8. CASE agents \cap DOMAIN proj = {}
  <2>1. after = [state EXCEPT !.sound = FALSE]
    BY <1>6, <1>8
  <2> QED
    BY <1>4, <1>8, <2>1
<1> QED
  BY <1>7, <1>8

(* A partition that has read everything takes the settlement it is told of *)
(* next.                                                                   *)
LEMMA TakesSettled ==
  ASSUME NEW state \in Reader, state.outcome = "taken", NEW token,
         ~IsAppended(state.entries, token), NEW agents,
         agents \cap DOMAIN state.proj # {}
  PROVE  LET next == TakeEvents(state, token, <<Settled(token, agents)>>)
         IN next.outcome = "taken" /\ next.proj = WithFact(state.proj, token, agents)
<1> DEFINE events == <<Settled(token, agents)>>
           after == AppliedAll(state.proj, events)
<1>1. after.proj = WithFact(state.proj, token, agents) /\ after.sound = TRUE
  BY SettledReduced
<1> HIDE DEF events
<1>2. /\ TakeEvents(state, token, events).outcome = "taken"
      /\ TakeEvents(state, token, events).proj = WithFact(state.proj, token, agents)
  BY <1>1 DEF TakeEvents
<1> QED
  BY <1>2 DEF events

\* A reader whose agents are a tick older.
Older(state) ==
  [proj |-> AgedBy(state.proj, 1), entries |-> state.entries, outcome |-> state.outcome]

LEMMA SettledOlder ==
  ASSUME NEW state \in Reader, NEW token \in Nat, NEW agents \in SUBSET Agent
  PROVE  TakeEvents(Older(state), token, <<Settled(token, agents)>>) =
           Older(TakeEvents(state, token, <<Settled(token, agents)>>))
<1> DEFINE events == <<Settled(token, agents)>>
           young == AppliedAll(state.proj, events)
           old == AppliedAll(AgedBy(state.proj, 1), events)
<1>1. state.proj \in World /\ DOMAIN AgedBy(state.proj, 1) = DOMAIN state.proj
  BY WorldChanges DEF Reader, AgedBy
<1>2. AgedBy(WithFact(state.proj, token, agents), 1) =
        WithFact(AgedBy(state.proj, 1), token, agents)
  <2>1. \A a \in DOMAIN state.proj : state.proj[a] \in [age : Nat, facts : SUBSET Nat]
    BY <1>1, Worlds DEF Rec
  <2> QED
    BY <2>1 DEF AgedBy, WithFact
<1>3. old.proj = AgedBy(young.proj, 1) /\ old.sound = young.sound
  <2>1. /\ agents \cap DOMAIN state.proj # {} =>
             young.proj = WithFact(state.proj, token, agents) /\ young.sound = TRUE
        /\ agents \cap DOMAIN state.proj = {} =>
             young.proj = state.proj /\ young.sound = FALSE
    BY SettledReduced
  <2>2. /\ agents \cap DOMAIN AgedBy(state.proj, 1) # {} =>
             /\ old.proj = WithFact(AgedBy(state.proj, 1), token, agents)
             /\ old.sound = TRUE
        /\ agents \cap DOMAIN AgedBy(state.proj, 1) = {} =>
             old.proj = AgedBy(state.proj, 1) /\ old.sound = FALSE
    BY SettledReduced
  <2> HIDE DEF young, old
  <2>3. CASE agents \cap DOMAIN state.proj # {}
    BY <1>1, <1>2, <2>1, <2>2, <2>3
  <2>4. CASE agents \cap DOMAIN state.proj = {}
    BY <1>1, <1>2, <2>1, <2>2, <2>4
  <2> QED
    BY <2>3, <2>4
<1>4. state = [proj |-> state.proj, entries |-> state.entries, outcome |-> state.outcome]
  BY DEF Reader
<1> HIDE DEF events
<1> SUFFICES TakeEvents(Older(state), token, events) =
               Older(TakeEvents(state, token, events))
  BY DEF events
<1>5. /\ Older(state).proj = AgedBy(state.proj, 1)
      /\ Older(state).entries = state.entries /\ Older(state).outcome = state.outcome
  BY DEF Older
<1>6. CASE state.outcome # "taken"
  BY <1>5, <1>6 DEF TakeEvents
<1>7. CASE state.outcome = "taken" /\ IsAppended(state.entries, token)
  <2>1. CASE [token |-> token, events |-> events] \in ToSet(state.entries)
    BY <1>5, <1>7, <2>1 DEF TakeEvents
  <2>2. CASE [token |-> token, events |-> events] \notin ToSet(state.entries)
    <3>1. TakeEvents(state, token, events) = [state EXCEPT !.outcome = "failed"]
      BY <1>7, <2>2 DEF TakeEvents
    <3>2. TakeEvents(Older(state), token, events) =
            [Older(state) EXCEPT !.outcome = "failed"]
      BY <1>5, <1>7, <2>2 DEF TakeEvents
    <3> QED
      BY <1>4, <3>1, <3>2 DEF Older
  <2> QED
    BY <2>1, <2>2
<1>8. CASE state.outcome = "taken" /\ ~IsAppended(state.entries, token)
  <2>1. TakeEvents(state, token, events) =
          [proj |-> young.proj,
           entries |-> Append(state.entries, [token |-> token, events |-> events]),
           outcome |-> IF young.sound THEN "taken" ELSE "poisoned"]
    BY <1>8 DEF TakeEvents
  <2>2. TakeEvents(Older(state), token, events) =
          [proj |-> old.proj,
           entries |-> Append(state.entries, [token |-> token, events |-> events]),
           outcome |-> IF old.sound THEN "taken" ELSE "poisoned"]
    BY <1>5, <1>8 DEF TakeEvents
  <2> HIDE DEF young, old
  <2> QED
    BY <1>3, <2>1, <2>2 DEF Older
<1> QED
  BY <1>6, <1>7, <1>8

(* A tick that begins while settlements are pending makes the agents of    *)
(* the reading a tick older, and nothing else.                             *)
LEMMA ViewAges ==
  ASSUME AuthorityTypes, InboxTypes, NEW p \in Partition,
         UNCHANGED <<operations, owner>>, stream'[p] = stream[p],
         cursor'[p] = cursor[p], projection'[p] = AgedBy(projection[p], 1),
         \A token \in Pending(p) : \E agents \in SUBSET Agent :
           DeliveryOf(token, p) = <<Settled(token, agents)>>
  PROVE  Taken(p)' = Older(Taken(p))
<1>1. PICK start, last : start = Unread(p) /\ last = Len(operations)
  OBVIOUS
<1>2. /\ last \in Nat /\ DOMAIN operations = 1..last /\ start \in Reader
      /\ 0..last \subseteq Nat
  BY <1>1, PendingTokens, UnreadTyped
<1>3. \A n \in 0..last : ReadFrom(p, start, n) \in Reader
  BY <1>1, <1>2, ReadTyped
<1>4. Unread(p)' = Older(start)
  BY <1>1 DEF Unread, Older
<1> DEFINE Bad == {n \in 0..last :
                     ReadFrom(p, Older(start), n)' # Older(ReadFrom(p, start, n))}
<1>5. Bad = {}
  <2> SUFFICES ASSUME Bad # {} PROVE FALSE
    OBVIOUS
  <2>1. Bad \subseteq Nat
    OBVIOUS
  <2> HIDE DEF Bad
  <2>2. PICK n \in Bad : \A m \in Bad : n <= m
    BY <2>1, Least
  <2>3. n \in 0..last /\ ReadFrom(p, Older(start), n)' # Older(ReadFrom(p, start, n))
    BY <2>2 DEF Bad
  <2>4. n # 0
    BY <2>3, OneByOne, OneByOneAfter DEF ReadsOneByOne
  <2>5. PICK k \in 0..last : n = k + 1 /\ ~(n <= k) /\ k \in Nat
    <3>1. n - 1 \in 0..last /\ n = (n - 1) + 1 /\ ~(n <= n - 1) /\ n - 1 \in Nat
      BY <1>2, <2>3, <2>4
    <3> QED
      BY <3>1
  <2>6. ReadFrom(p, Older(start), k)' = Older(ReadFrom(p, start, k))
    BY <2>2, <2>5 DEF Bad
  <2>7. ReadFrom(p, start, k + 1) =
          IF k + 1 \in Pending(p)
          THEN TakeEvents(ReadFrom(p, start, k), k + 1, DeliveryOf(k + 1, p))
          ELSE ReadFrom(p, start, k)
    BY <2>5, OneByOne DEF ReadsOneByOne
  <2>8. ReadFrom(p, Older(start), k + 1)' =
          IF k + 1 \in Pending(p)'
          THEN TakeEvents(ReadFrom(p, Older(start), k)', k + 1, DeliveryOf(k + 1, p)')
          ELSE ReadFrom(p, Older(start), k)'
    BY <2>5, OneByOneAfter DEF ReadsOneByOne
  <2>9. /\ DeliveryOf(k + 1, p)' = DeliveryOf(k + 1, p)
        /\ k + 1 \in Pending(p)' <=> k + 1 \in Pending(p)
    BY DEF DeliveryOf, Pending
  <2>10. CASE k + 1 \in Pending(p)
    <3>1. PICK agents \in SUBSET Agent : DeliveryOf(k + 1, p) = <<Settled(k + 1, agents)>>
      BY <2>10
    <3>2. ReadFrom(p, start, k) \in Reader /\ k + 1 \in Nat
      BY <1>3, <2>5
    <3> QED
      BY <2>3, <2>5, <2>6, <2>7, <2>8, <2>9, <2>10, <3>1, <3>2, SettledOlder
  <2>11. CASE k + 1 \notin Pending(p)
    BY <2>3, <2>5, <2>6, <2>7, <2>8, <2>9, <2>11
  <2> QED
    BY <2>10, <2>11
<1>6. ReadFrom(p, Older(start), last)' = Older(ReadFrom(p, start, last))
  BY <1>2, <1>5
<1>7. Taken(p) = ReadFrom(p, start, last)
  BY <1>1, ToTheEnd DEF ReadsToTheEnd
<1>8. PICK older : older = Older(start)
  OBVIOUS
<1>9. Taken(p)' = ReadFrom(p, older, last)'
  BY <1>1, <1>4, <1>8, ToTheEndAfter DEF ReadsToTheEnd
<1> QED
  BY <1>6, <1>7, <1>8, <1>9

(* What an advance of the clock brings: credits, departures and arrivals,  *)
(* each about an agent of its own.                                         *)
IsAbout(event, a) ==
  \/ event.type = "credited" /\ event.agents = {a}
  \/ event.type \in {"departed", "arrived"} /\ event.agent = a

SameAt(first, second, a) ==
  /\ a \in DOMAIN first <=> a \in DOMAIN second
  /\ a \in DOMAIN first => first[a] = second[a]

LEMMA AppliedAt ==
  ASSUME NEW first \in World, NEW second \in World, NEW event \in Event, NEW a \in Agent,
         IsAbout(event, a), SameAt(first, second, a)
  PROVE  /\ Applicable(first, event) <=> Applicable(second, event)
         /\ SameAt(Applied(first, event), Applied(second, event), a)
         /\ \A b \in Agent \ {a} : SameAt(Applied(first, event), first, b)
<1>1. CASE event.type = "credited" /\ event.agents = {a}
  <2>1. /\ Applied(first, event) = WithFact(first, event.token, {a})
        /\ Applied(second, event) = WithFact(second, event.token, {a})
    BY <1>1 DEF Applied
  <2>2. /\ Applicable(first, event) <=> {a} \subseteq DOMAIN first
        /\ Applicable(second, event) <=> {a} \subseteq DOMAIN second
    BY <1>1 DEF Applicable
  <2>3. /\ Applicable(first, event) <=> Applicable(second, event)
    BY <2>2 DEF SameAt
  <2>4. SameAt(WithFact(first, event.token, {a}), WithFact(second, event.token, {a}), a)
    BY DEF SameAt, WithFact
  <2>5. \A b \in Agent \ {a} : SameAt(WithFact(first, event.token, {a}), first, b)
    BY DEF SameAt, WithFact
  <2> QED
    BY <2>1, <2>3, <2>4, <2>5
<1>2. CASE event.type = "departed" /\ event.agent = a
  <2>1. /\ Applied(first, event) = Without(first, a)
        /\ Applied(second, event) = Without(second, a)
    BY <1>2 DEF Applied
  <2>2. /\ Applicable(first, event) <=>
             a \in DOMAIN first /\ first[a].facts = event.record.facts
        /\ Applicable(second, event) <=>
             a \in DOMAIN second /\ second[a].facts = event.record.facts
    BY <1>2 DEF Applicable
  <2>3. Applicable(first, event) <=> Applicable(second, event)
    BY <2>2 DEF SameAt
  <2>4. SameAt(Without(first, a), Without(second, a), a)
    BY DEF SameAt, Without
  <2>5. \A b \in Agent \ {a} : SameAt(Without(first, a), first, b)
    BY DEF SameAt, Without
  <2> QED
    BY <2>1, <2>3, <2>4, <2>5
<1>3. CASE event.type = "arrived" /\ event.agent = a
  <2>1. /\ Applied(first, event) = With(first, a, event.record)
        /\ Applied(second, event) = With(second, a, event.record)
    BY <1>3 DEF Applied
  <2>2. /\ Applicable(first, event) <=> a \notin DOMAIN first
        /\ Applicable(second, event) <=> a \notin DOMAIN second
    BY <1>3 DEF Applicable
  <2>3. Applicable(first, event) <=> Applicable(second, event)
    BY <2>2 DEF SameAt
  <2>4. SameAt(With(first, a, event.record), With(second, a, event.record), a)
    BY DEF SameAt, With
  <2>5. \A b \in Agent \ {a} : SameAt(With(first, a, event.record), first, b)
    BY DEF SameAt, With
  <2> QED
    BY <2>1, <2>3, <2>4, <2>5
<1> QED
  BY <1>1, <1>2, <1>3 DEF IsAbout

Apart(proj, events, who) ==
  /\ \A i \in 1..Len(events) :
       /\ who[i] \in Agent /\ IsAbout(events[i], who[i])
       /\ Applicable(proj, events[i])
  /\ \A i, j \in 1..Len(events) : who[i] = who[j] => i = j

(* Events about different agents do not disturb each other.                *)
LEMMA AppliedApart ==
  ASSUME NEW proj \in World, NEW events \in Seq(Event), NEW who,
         Apart(proj, events, who), NEW after, after = AppliedAll(proj, events)
  PROVE  /\ after.sound = TRUE /\ after.proj \in World
         /\ \A i \in 1..Len(events) :
              SameAt(after.proj, Applied(proj, events[i]), who[i])
         /\ \A a \in Agent : (\A i \in 1..Len(events) : who[i] # a) =>
              SameAt(after.proj, proj, a)
<1>1. Len(events) \in Nat /\ \A i \in 1..Len(events) : events[i] \in Event
  OBVIOUS
<1>2. PICK state : /\ state[0] = [proj |-> proj, sound |-> TRUE]
                   /\ \A i \in 1..Len(events) : state[i] = Reduced(state[i - 1], events[i])
                   /\ AppliedAll(proj, events) = state[Len(events)]
  BY <1>1, Applying
<1> DEFINE Good(k) ==
      /\ state[k] \in Reduction /\ state[k].sound = TRUE
      /\ \A i \in 1..k : SameAt(state[k].proj, Applied(proj, events[i]), who[i])
      /\ \A a \in Agent : (\A i \in 1..k : who[i] # a) => SameAt(state[k].proj, proj, a)
   Bad == {k \in 0..Len(events) : ~Good(k)}
<1>3. Good(0)
  <2>1. state[0] \in Reduction /\ state[0].sound = TRUE /\ state[0].proj = proj
    BY <1>2 DEF Reduction
  <2>2. \A a : SameAt(proj, proj, a)
    BY DEF SameAt
  <2> QED
    BY <2>1, <2>2
<1>4. ASSUME NEW k \in 0..Len(events), NEW n \in 1..Len(events), n = k + 1, Good(k)
      PROVE  Good(n)
  <2> DEFINE event == events[n]
             a == who[n]
             before == state[k].proj
  <2>1. state[n] = Reduced(state[k], event)
    <3>1. n - 1 = k
      BY <1>1, <1>4
    <3> QED
      BY <1>2, <3>1
  <2>2. event \in Event /\ a \in Agent /\ IsAbout(event, a) /\ Applicable(proj, event)
    BY <1>1 DEF Apart
  <2>3. before \in World /\ state[k].sound = TRUE
    BY <1>4 DEF Reduction
  <2>4. \A i \in 1..k : i \in 1..Len(events) /\ i # n /\ who[i] # a /\ who[i] \in Agent
    BY <1>1, <1>4 DEF Apart
  <2>5. SameAt(before, proj, a)
    BY <1>4, <2>2, <2>4
  <2> HIDE DEF event, a
  <2>6. /\ Applicable(before, event)
        /\ SameAt(Applied(before, event), Applied(proj, event), a)
        /\ \A b \in Agent \ {a} : SameAt(Applied(before, event), before, b)
    BY <2>2, <2>3, <2>5, AppliedAt
  <2>7. state[n] = [state[k] EXCEPT !.proj = Applied(before, event)]
    BY <2>1, <2>3, <2>6 DEF Reduced
  <2>8. state[n] \in Reduction
    BY <1>4, <2>1, <2>2, ReducedTyped
  <2>9. state[n].proj = Applied(before, event) /\ state[n].sound = TRUE
    BY <1>4, <2>3, <2>7 DEF Reduction
  <2>10. ASSUME NEW i \in 1..n
         PROVE  SameAt(state[n].proj, Applied(proj, events[i]), who[i])
    <3>1. CASE i = n
      BY <2>6, <2>9, <3>1 DEF event, a
    <3>2. CASE i # n
      <4>1. i \in 1..k
        BY <1>1, <1>4, <3>2
      <4>2. SameAt(before, Applied(proj, events[i]), who[i]) /\ who[i] \in Agent \ {a}
        BY <1>4, <2>4, <4>1
      <4> QED
        BY <2>6, <2>9, <4>2 DEF SameAt
    <3> QED
      BY <3>1, <3>2
  <2>11. ASSUME NEW b \in Agent, \A i \in 1..n : who[i] # b
         PROVE  SameAt(state[n].proj, proj, b)
    <3>1. b # a /\ \A i \in 1..k : who[i] # b
      BY <1>1, <1>4, <2>11 DEF a
    <3>2. SameAt(before, proj, b)
      BY <1>4, <3>1
    <3> QED
      BY <2>6, <2>9, <3>1, <3>2 DEF SameAt
  <2> QED
    BY <2>8, <2>9, <2>10, <2>11
<1>5. Bad = {}
  <2> SUFFICES ASSUME Bad # {} PROVE FALSE
    OBVIOUS
  <2>1. Bad \subseteq Nat
    BY <1>1
  <2>2. PICK n \in Bad : \A m \in Bad : n <= m
    <3> HIDE DEF Bad
    <3> QED
      BY <2>1, Least
  <2>3. n \in 0..Len(events) /\ ~Good(n)
    BY <2>2
  <2>4. n # 0
    <3> HIDE DEF Good
    <3> QED
      BY <1>3, <2>3
  <2>5. PICK k \in 0..Len(events) : n = k + 1 /\ ~(n <= k) /\ n \in 1..Len(events)
    <3>1. /\ n - 1 \in 0..Len(events) /\ n = (n - 1) + 1 /\ ~(n <= n - 1)
          /\ n \in 1..Len(events)
      BY <1>1, <2>3, <2>4
    <3> QED
      BY <3>1
  <2> HIDE DEF Good
  <2>6. Good(k)
    BY <2>2, <2>5
  <2> QED
    BY <1>4, <2>3, <2>5, <2>6
<1>6. Good(Len(events))
  <2> HIDE DEF Good
  <2> QED
    BY <1>1, <1>5
<1> QED
  BY <1>2, <1>6 DEF Reduction

-----------------------------------------------------------------------------
(* Nothing is lost: what holds as long as no process is killed.  Journeys  *)
(* take time (TravelTicks > 0), and nobody who moves is paid by a cadence  *)
(* (Movers \cap Depositors = {}): the credit of a mover belongs to who     *)
(* owns it when the inbox is read.                                         *)

Owned(p) == {a \in Agent : owner[a] = p}

Current(a, p) == [age |-> clock[p], facts |-> FactsOf(a)]

\* Everybody has an owner, and a journey leads from its traveller's owner to
\* another partition.
Owners ==
  /\ \A a \in Agent : owner[a] \in Partition
  /\ \A a \in DOMAIN pendingMoves :
       /\ a \in Movers /\ pendingMoves[a].from = owner[a]
       /\ pendingMoves[a].to \in Partition \ {owner[a]}

\* What a settlement between two clocks brings a partition is one event.
OperationsPlain ==
  \A t \in DOMAIN operations :
    /\ operations[t].kind = "advance" => operations[t].parties \subseteq Depositors
    /\ operations[t].kind # "advance" =>
         \A q \in Partition :
           operations[t].to[q] \in {<<>>, <<Settled(t, operations[t].parties)>>}

\* Who reads its inbox to the end has everything.
View(p) ==
  /\ Taken(p).outcome = "taken" /\ DOMAIN Taken(p).proj = Owned(p)
  /\ \A a \in Owned(p) : Taken(p).proj[a] = Current(a, p)

\* A start is given up before its time event, so that nothing is recovered in a
\* tick; a tick that runs has taken all the clock has brought.
Calm(p) ==
  /\ HasTime(tail[p]) <=> pc[p] \in InTick
  /\ recovering[p] => pc[p] \notin InTick
  /\ pc[p] # "poisoned"
  /\ pc[p] \in {"ready"} \cup InTick /\ ~recovering[p] =>
       \A t \in Pending(p) : operations[t].kind # "advance"
  /\ pc[p] = "finished" => Pending(p) = {}

\* A tick works on the agents its partition owns, and knows travellers fully.
Working(p) ==
  pc[p] \in {"ready", "body"} /\ ~recovering[p] =>
    /\ DOMAIN working[p] = Owned(p)
    /\ \A a \in Owned(p) :
         working[p][a].age = clock[p] /\ working[p][a].facts \subseteq FactsOf(a)
    /\ \A a \in Owned(p) \cap DOMAIN pendingMoves : working[p][a] = Current(a, p)

\* What a recovered start publishes is old, but for travellers.
Bound(p) ==
  /\ \A a \in DOMAIN boundary[p].proj :
       /\ boundary[p].proj[a].age <= clock[p]
       /\ boundary[p].proj[a].facts \subseteq FactsOf(a)
  /\ pc[p] \notin InTick =>
       /\ \A a \in Owned(p) \cap DOMAIN pendingMoves :
            a \in DOMAIN boundary[p].proj /\ boundary[p].proj[a] = Current(a, p)
       /\ now = ticked[p] => DOMAIN boundary[p].proj = Owned(p)
  /\ recovering[p] \/ pc[p] \in {"waiting", "failed"} =>
       lastReported[p] \subseteq DOMAIN boundary[p].proj

\* The authority's record of a traveller, with which it is handed over, is what
\* its owner has.
RecordsOf(p) ==
  pc[p] \notin {"body", "drain"} =>
    \A a \in Owned(p) \cap DOMAIN pendingMoves : records[a] = Current(a, p)

\* A publication the authority would not look at again says nothing new of a
\* traveller.
Receipts ==
  /\ \A d \in receipts : \A a \in DOMAIN d.state.agents :
       /\ d.state.agents[a].age <= clock[d.partition]
       /\ d.state.agents[a].facts \subseteq FactsOf(a)
       /\ /\ a \in DOMAIN pendingMoves /\ owner[a] = d.partition
          /\ d.state.agents[a] = Current(a, d.partition)
          => records[a] = d.state.agents[a]
  /\ \A p \in Partition : lastSynced[p] # <<>> =>
       \E d \in receipts : d.partition = p /\ lastSynced[p] = <<d.state>>

PartitionWhole(p) == View(p) /\ Calm(p) /\ Working(p) /\ Bound(p) /\ RecordsOf(p)

Whole ==
  /\ Owners /\ OperationsPlain /\ Receipts
  /\ \A p \in Partition : PartitionWhole(p)

(* The facts of an agent grow with the settlements it takes part in.       *)
LEMMA FactsGrow ==
  ASSUME AuthorityTypes, NEW operation, operations' = Append(operations, operation),
         NEW n, n = Len(operations) + 1, NEW a
  PROVE  /\ n \notin FactsOf(a) /\ FactsOf(a) \subseteq FactsOf(a)'
         /\ a \in operation.parties => FactsOf(a)' = FactsOf(a) \cup {n}
         /\ a \notin operation.parties => FactsOf(a)' = FactsOf(a)
<1>1. /\ Len(operations) \in Nat /\ DOMAIN operations = 1..Len(operations)
      /\ DOMAIN operations' = 1..n
      /\ operations'[n] = operation
      /\ \A t \in DOMAIN operations : operations'[t] = operations[t]
  BY DEF AuthorityTypes
<1>2. n \notin DOMAIN operations /\ DOMAIN operations' = DOMAIN operations \cup {n}
  BY <1>1
<1> QED
  BY <1>1, <1>2 DEF FactsOf

LEMMA FactsStay ==
  ASSUME UNCHANGED operations, NEW a
  PROVE  FactsOf(a)' = FactsOf(a)
BY DEF FactsOf

(* What settles next has not been read.                                    *)
LEMMA NotYet ==
  ASSUME InboxTypesInv, NEW p \in Partition, StreamOf(p), pc[p] # "poisoned",
         Taken(p).outcome = "taken"
  PROVE  ~IsAppended(Taken(p).entries, Len(operations) + 1)
<1>1. Delivered(p, Taken(p), Len(operations))
  BY TakenDelivered
<1>2. Len(operations) \in Nat /\ \A t \in Pending(p) : t <= Len(operations)
  BY PendingTokens DEF InboxTypesInv
<1>3. cursor[p] \in Nat /\ cursor[p] <= Len(operations)
  BY DEF InboxTypesInv, InboxTypes
<1>4. /\ DOMAIN Taken(p).entries = 1..Len(Taken(p).entries)
      /\ \A i \in 1..Len(Taken(p).entries) : Taken(p).entries[i].token \in Nat
  BY TakenTyped, ReaderEntries DEF InboxTypesInv
<1>5. \A i \in 1..Len(Taken(p).entries) : Taken(p).entries[i].token <= Len(operations)
  BY <1>1, <1>2, <1>3, <1>4 DEF Delivered
<1> QED
  BY <1>2, <1>4, <1>5 DEF IsAppended

(* What is no advance of the clock pays nobody.                            *)
LEMMA DeliveryPlain ==
  ASSUME NEW t, NEW p, operations[t].kind # "advance", operations[t].to[p] \in Seq(Event)
  PROVE  DeliveryOf(t, p) = operations[t].to[p]
<1> DEFINE paid == {a \in operations[t].parties :
                      operations[t].kind = "advance" /\ owner[a] = p}
           credits == [i \in 1..Cardinality(paid) |-> Credited(t, SetToSeq(paid)[i])]
<1>1. paid = {}
  OBVIOUS
<1>2. Cardinality(paid) = 0
  BY <1>1, FS_EmptySet
<1> HIDE DEF paid
<1>3. credits = <<>>
  <2>1. 1..Cardinality(paid) = {}
    BY <1>2
  <2>2. credits \in Seq(Event) /\ Len(credits) = 0
    BY <1>2, <2>1
  <2> HIDE DEF credits
  <2> QED
    BY <2>2
<1>4. DeliveryOf(t, p) = credits \o operations[t].to[p]
  BY DEF DeliveryOf, paid
<1> HIDE DEF credits
<1> QED
  BY <1>3, <1>4

LEMMA FactAdded ==
  ASSUME NEW age, NEW facts, NEW n, NEW before, before = [age |-> age, facts |-> facts]
  PROVE  [before EXCEPT !.facts = @ \cup {n}] = [age |-> age, facts |-> facts \cup {n}]
OBVIOUS

LEMMA DeliveryStays ==
  ASSUME NEW p, NEW t, operations'[t] = operations[t], owner' = owner
  PROVE  DeliveryOf(t, p)' = DeliveryOf(t, p)
BY DEF DeliveryOf

(* Where nothing is settled, read or lived through.                        *)
LEMMA ViewKept ==
  ASSUME InboxTypesInv, NEW p \in Partition, View(p),
         UNCHANGED operations, owner' = owner, projection'[p] = projection[p],
         stream'[p] = stream[p], cursor'[p] = cursor[p], clock'[p] = clock[p]
  PROVE  View(p)' /\ Pending(p)' = Pending(p)
<1>1. \A t : DeliveryOf(t, p)' = DeliveryOf(t, p)
  BY DeliveryStays
<1>2. Taken(p)' = Taken(p)
  BY <1>1, ViewStays DEF InboxTypesInv
<1>3. Pending(p)' = Pending(p)
  BY <1>1 DEF Pending
<1>4. Owned(p)' = Owned(p)
  BY DEF Owned
<1>5. \A a : Current(a, p)' = Current(a, p)
  BY FactsStay DEF Current
<1> QED
  BY <1>2, <1>3, <1>4, <1>5 DEF View

(* A settlement reaches every partition that owns one of its parties.      *)
Settles(operation, n) ==
  /\ operation.kind # "advance"
  /\ \A q \in Partition :
       /\ operation.parties \cap Owned(q) = {} => operation.to[q] = <<>>
       /\ operation.parties \cap Owned(q) # {} =>
            operation.to[q] = <<Settled(n, operation.parties)>>

LEMMA SettledView ==
  ASSUME InboxTypesInv, NEW p \in Partition, StreamOf(p), pc[p] # "poisoned", View(p),
         owner' = owner, projection'[p] = projection[p],
         stream'[p] = stream[p], cursor'[p] = cursor[p], clock'[p] = clock[p],
         NEW operation \in Operation, operations' = Append(operations, operation),
         NEW n, n = Len(operations) + 1, Settles(operation, n)
  PROVE  View(p)' /\ Pending(p)' \subseteq Pending(p) \cup {n}
<1>1. /\ Len(operations) \in Nat /\ DOMAIN operations = 1..Len(operations)
      /\ DOMAIN operations' = 1..n /\ operations'[n] = operation
      /\ \A t \in DOMAIN operations : operations'[t] = operations[t]
  BY DEF InboxTypesInv, AuthorityTypes
<1>2. \A t \in DOMAIN operations : DeliveryOf(t, p)' = DeliveryOf(t, p)
  BY <1>1, DeliveryStays
<1>3. Taken(p)' = IF DeliveryOf(n, p)' = <<>> THEN Taken(p)
                  ELSE TakeEvents(Taken(p), n, DeliveryOf(n, p)')
  BY <1>2, ViewExtends DEF InboxTypesInv
<1>4. DeliveryOf(n, p)' = operation.to[p]
  <2>1. operations'[n].kind # "advance" /\ operations'[n].to[p] \in Seq(Event)
        /\ operations'[n].to[p] = operation.to[p]
    BY <1>1 DEF Settles, Operation
  <2> DEFINE paid == {a \in operations'[n].parties :
                        operations'[n].kind = "advance" /\ owner'[a] = p}
             credits == [i \in 1..Cardinality(paid) |-> Credited(n, SetToSeq(paid)[i])]
  <2>2. DeliveryOf(n, p)' = credits \o operation.to[p]
    BY <2>1 DEF DeliveryOf
  <2>3. paid = {}
    BY <2>1
  <2>4. Cardinality(paid) = 0
    BY <2>3, FS_EmptySet
  <2> HIDE DEF paid
  <2>5. credits = <<>>
    <3>1. 1..Cardinality(paid) = {}
      BY <2>4
    <3>2. credits \in Seq(Event) /\ Len(credits) = 0
      BY <2>4, <3>1
    <3> HIDE DEF credits
    <3> QED
      BY <3>2
  <2> HIDE DEF credits
  <2> QED
    BY <2>1, <2>2, <2>5
<1>5. Pending(p)' \subseteq Pending(p) \cup {n}
  BY <1>1, <1>2 DEF Pending
<1>6. Owned(p)' = Owned(p)
  BY DEF Owned
<1>7. operation.parties \in SUBSET Agent
  BY DEF Operation
<1>8. CASE operation.parties \cap Owned(p) = {}
  <2>1. Taken(p)' = Taken(p)
    BY <1>3, <1>4, <1>8 DEF Settles
  <2>2. \A a \in Owned(p) : Current(a, p)' = Current(a, p)
    BY <1>8, FactsGrow DEF Current, InboxTypesInv
  <2> QED
    BY <1>5, <1>6, <2>1, <2>2 DEF View
<1>9. CASE operation.parties \cap Owned(p) # {}
  <2> DEFINE parties == operation.parties
             before == Taken(p)
             after == TakeEvents(before, n, <<Settled(n, parties)>>)
  <2>1. before \in Reader
    BY TakenTyped DEF InboxTypesInv
  <2>2. ~IsAppended(before.entries, n) /\ before.outcome = "taken"
        /\ DOMAIN before.proj = Owned(p)
    BY NotYet DEF View
  <2>3. Taken(p)' = after
    <3>1. <<Settled(n, parties)>> # <<>>
      OBVIOUS
    <3> QED
      BY <1>3, <1>4, <1>9, <3>1 DEF Settles
  <2>4. after.outcome = "taken" /\ after.proj = WithFact(before.proj, n, parties)
    <3> HIDE DEF before, parties
    <3> QED
      BY <1>9, <2>1, <2>2, TakesSettled DEF parties
  <2> HIDE DEF after
  <2>5. DOMAIN after.proj = Owned(p)
    BY <2>2, <2>4 DEF WithFact
  <2>6. ASSUME NEW a \in Owned(p) PROVE after.proj[a] = Current(a, p)'
    <3>1. before.proj[a] = Current(a, p)
      BY DEF View
    <3>2. Current(a, p)' = [age |-> clock[p], facts |-> FactsOf(a)']
      BY DEF Current
    <3>3. CASE a \in parties
      <4>0. PICK old : old = before.proj[a]
        OBVIOUS
      <4>1. after.proj[a] = [old EXCEPT !.facts = @ \cup {n}]
        BY <2>2, <2>4, <3>3, <4>0 DEF WithFact
      <4>2. after.proj[a] = [age |-> clock[p], facts |-> FactsOf(a) \cup {n}]
        <5>1. old = [age |-> clock[p], facts |-> FactsOf(a)]
          BY <3>1, <4>0 DEF Current
        <5> QED
          BY <4>1, <5>1, FactAdded
      <4>3. FactsOf(a)' = FactsOf(a) \cup {n}
        BY <3>3, FactsGrow DEF InboxTypesInv
      <4> QED
        BY <3>2, <4>2, <4>3
    <3>4. CASE a \notin parties
      <4>1. after.proj[a] = before.proj[a]
        BY <2>2, <2>4, <3>4 DEF WithFact
      <4>2. FactsOf(a)' = FactsOf(a)
        BY <3>4, FactsGrow DEF InboxTypesInv
      <4> QED
        BY <3>1, <3>2, <4>1, <4>2 DEF Current
    <3> QED
      BY <3>3, <3>4
  <2> QED
    BY <1>5, <1>6, <2>3, <2>4, <2>5, <2>6 DEF View
<1> QED
  BY <1>8, <1>9

(* The authority's clock advances: owners change for travellers who arrive *)
(* and nobody else, and the credits are for those who stay.                *)
HandedOver(clockNow, q) ==
  {Departed(a, records[a]) : a \in {b \in Arriving(clockNow) : pendingMoves[b].from = q}}
    \cup {Arrived(a, records[a]) : a \in {b \in Arriving(clockNow) :
                                             pendingMoves[b].to = q}}

LEMMA AdvanceChanges ==
  ASSUME InboxInv, Owners, Movers \cap Depositors = {}, NEW clockNow \in Nat,
         AdvanceTime(clockNow)
  PROVE  /\ operations' = Append(operations, AdvanceOf(clockNow))
         /\ AdvanceOf(clockNow).kind = "advance"
         /\ AdvanceOf(clockNow).parties = Depositors
         /\ DOMAIN records = Agent
         /\ Arriving(clockNow) \subseteq DOMAIN pendingMoves
         /\ DOMAIN pendingMoves \subseteq Agent \ Depositors
         /\ \A a \in Arriving(clockNow) : owner'[a] = pendingMoves[a].to
         /\ \A a \in Agent \ Arriving(clockNow) : owner'[a] = owner[a]
         /\ DOMAIN pendingMoves' = DOMAIN pendingMoves \ Arriving(clockNow)
         /\ \A a \in DOMAIN pendingMoves' : pendingMoves'[a] = pendingMoves[a]
         /\ \A a \in Agent \ Depositors : records'[a] = records[a]
         /\ \A q : HandoverAt(clockNow, q) = HandedOver(clockNow, q)
<1>1. DOMAIN records = Agent
  BY Constants DEF InboxInv, Known, Authority, Owners
<1>2. Depositors \subseteq Agent /\ Depositors \cap DOMAIN records = Depositors
  BY <1>1, Constants
<1>3. DOMAIN pendingMoves \subseteq Agent \ Depositors
  BY DEF Owners, InboxInv, InboxTypesInv, AuthorityTypes
<1> DEFINE settled == WithFact(records, Len(operations) + 1, Depositors)
<1>4. /\ operations' = Append(operations, AdvanceOf(clockNow))
      /\ records' = settled
      /\ owner' = [a \in Agent |-> IF a \in Arriving(clockNow) THEN pendingMoves[a].to
                                                               ELSE owner[a]]
      /\ pendingMoves' = [a \in DOMAIN pendingMoves \ Arriving(clockNow)
                            |-> pendingMoves[a]]
  BY <1>2 DEF AdvanceTime, AdvanceOf, HandoverAt
<1>5. \A a \in Agent \ Depositors : settled[a] = records[a]
  BY <1>1 DEF WithFact
<1>6. Arriving(clockNow) \subseteq DOMAIN pendingMoves
  BY DEF Arriving
<1>7. \A a \in Arriving(clockNow) : settled[a] = records[a]
  BY <1>3, <1>5, <1>6
<1> HIDE DEF settled
<1>8. \A q : HandoverAt(clockNow, q) = HandedOver(clockNow, q)
  <2> SUFFICES ASSUME NEW q PROVE HandoverAt(clockNow, q) = HandedOver(clockNow, q)
    OBVIOUS
  <2> DEFINE leaving == {b \in Arriving(clockNow) : pendingMoves[b].from = q}
             coming == {b \in Arriving(clockNow) : pendingMoves[b].to = q}
  <2>1. HandoverAt(clockNow, q) = {Departed(a, settled[a]) : a \in leaving}
                                    \cup {Arrived(a, settled[a]) : a \in coming}
    BY <1>2 DEF HandoverAt, settled
  <2>2. \A a \in leaving \cup coming : settled[a] = records[a]
    BY <1>7
  <2> HIDE DEF leaving, coming
  <2>3. {Departed(a, settled[a]) : a \in leaving} = {Departed(a, records[a]) : a \in leaving}
    BY <2>2
  <2>4. {Arrived(a, settled[a]) : a \in coming} = {Arrived(a, records[a]) : a \in coming}
    BY <2>2
  <2> QED
    BY <2>1, <2>3, <2>4 DEF leaving, coming, HandedOver
<1>9. /\ AdvanceOf(clockNow).kind = "advance"
      /\ AdvanceOf(clockNow).parties = Depositors
  BY <1>2 DEF AdvanceOf
<1>10. /\ \A a \in Arriving(clockNow) : owner'[a] = pendingMoves[a].to
       /\ \A a \in Agent \ Arriving(clockNow) : owner'[a] = owner[a]
       /\ DOMAIN pendingMoves' = DOMAIN pendingMoves \ Arriving(clockNow)
       /\ \A a \in DOMAIN pendingMoves' : pendingMoves'[a] = pendingMoves[a]
  BY <1>3, <1>4, <1>6
<1> QED
  BY <1>1, <1>3, <1>4, <1>5, <1>6, <1>8, <1>9, <1>10

\* What an advance can tell partition q of an agent.
EventFor(event, a, q, clockNow) ==
  \/ a \in Depositors \cap Owned(q) /\ event = Credited(Len(operations) + 1, a)
  \/ /\ a \in Arriving(clockNow) /\ pendingMoves[a].from = q
     /\ event = Departed(a, records[a])
  \/ /\ a \in Arriving(clockNow) /\ pendingMoves[a].to = q
     /\ event = Arrived(a, records[a])

Concerned(q, clockNow) ==
  (Depositors \cap Owned(q))
    \cup {a \in Arriving(clockNow) : pendingMoves[a].from = q \/ pendingMoves[a].to = q}

Brought(events, q, clockNow) ==
  /\ events \in Seq(Event)
  /\ \E who :
       /\ \A i \in 1..Len(events) : EventFor(events[i], who[i], q, clockNow)
       /\ \A i, j \in 1..Len(events) : who[i] = who[j] => i = j
       /\ \A a \in Concerned(q, clockNow) : \E i \in 1..Len(events) : who[i] = a

LEMMA AdvanceDelivers ==
  ASSUME InboxInv, Owners, Movers \cap Depositors = {}, NEW clockNow \in Nat,
         AdvanceTime(clockNow), NEW q \in Partition,
         NEW n, n = Len(operations) + 1, NEW events, events = DeliveryOf(n, q)'
  PROVE  Brought(events, q, clockNow)
<1> DEFINE paid == Depositors \cap Owned(q)
           H == HandoverAt(clockNow, q)
           leaving == {b \in Arriving(clockNow) : pendingMoves[b].from = q}
           coming == {b \in Arriving(clockNow) : pendingMoves[b].to = q}
<1>1. /\ operations' = Append(operations, AdvanceOf(clockNow))
      /\ AdvanceOf(clockNow).kind = "advance" /\ AdvanceOf(clockNow).parties = Depositors
      /\ Arriving(clockNow) \subseteq DOMAIN pendingMoves
      /\ DOMAIN pendingMoves \subseteq Agent \ Depositors
      /\ \A a \in Agent \ Arriving(clockNow) : owner'[a] = owner[a]
      /\ H = HandedOver(clockNow, q) /\ Depositors \subseteq Agent
  BY AdvanceChanges, Constants
<1>2. IsFiniteSet(paid) /\ IsFiniteSet(H) /\ H \subseteq Event /\ n \in Nat
  <2>1. IsFiniteSet(paid)
    BY <1>1, Constants, FS_Subset
  <2>2. IsFiniteSet(H) /\ H \subseteq Event
    BY HandoverTyped DEF InboxInv, InboxTypesInv, Known, Authority
  <2>3. n \in Nat
    BY PendingTokens DEF InboxInv, InboxTypesInv
  <2> QED
    BY <2>1, <2>2, <2>3
<1>3. /\ Cardinality(paid) \in Nat
      /\ SetToSeq(paid) \in [1..Cardinality(paid) -> paid]
      /\ \A x \in paid : \E i \in 1..Cardinality(paid) : SetToSeq(paid)[i] = x
      /\ \A i, j \in 1..Cardinality(paid) :
           SetToSeq(paid)[i] = SetToSeq(paid)[j] => i = j
  BY <1>2, Lists
<1>4. /\ Cardinality(H) \in Nat
      /\ SetToSeq(H) \in [1..Cardinality(H) -> H]
      /\ \A x \in H : \E i \in 1..Cardinality(H) : SetToSeq(H)[i] = x
      /\ \A i, j \in 1..Cardinality(H) : SetToSeq(H)[i] = SetToSeq(H)[j] => i = j
  BY <1>2, Lists
<1>5. {a \in AdvanceOf(clockNow).parties :
         AdvanceOf(clockNow).kind = "advance" /\ owner'[a] = q} = paid
  BY <1>1 DEF Owned
<1>6. operations'[n] = AdvanceOf(clockNow)
  BY <1>1 DEF InboxInv, InboxTypesInv, AuthorityTypes
<1>7. AdvanceOf(clockNow).to[q] = SetToSeq(H)
  BY DEF AdvanceOf
<1>8. PICK m, k, first, second :
        /\ m = Cardinality(paid) /\ k = Cardinality(H)
        /\ first = SetToSeq(paid) /\ second = SetToSeq(H)
  OBVIOUS
<1> DEFINE credits == [i \in 1..m |-> Credited(n, first[i])]
<1>9. events = credits \o second
  <2>1. DeliveryOf(n, q)' =
          [i \in 1..Cardinality({a \in operations'[n].parties :
                                   operations'[n].kind = "advance" /\ owner'[a] = q}) |->
             Credited(n, SetToSeq({a \in operations'[n].parties :
                                     operations'[n].kind = "advance" /\ owner'[a] = q})[i])]
            \o operations'[n].to[q]
    BY DEF DeliveryOf
  <2> HIDE DEF paid, H
  <2>2. DeliveryOf(n, q)' =
          [i \in 1..Cardinality(paid) |-> Credited(n, SetToSeq(paid)[i])] \o SetToSeq(H)
    BY <1>5, <1>6, <1>7, <2>1
  <2> QED
    BY <1>8, <2>2
<1>10. /\ m \in Nat /\ k \in Nat
       /\ \A i \in 1..m : first[i] \in paid
       /\ \A x \in paid : \E i \in 1..m : first[i] = x
       /\ \A i, j \in 1..m : first[i] = first[j] => i = j
       /\ second \in [1..k -> H]
       /\ \A x \in H : \E i \in 1..k : second[i] = x
       /\ \A i, j \in 1..k : second[i] = second[j] => i = j
  <2> HIDE DEF paid, H
  <2> QED
    BY <1>3, <1>4, <1>8
<1>11. \A i \in 1..m : Credited(n, first[i]) \in Event
  BY <1>1, <1>2, <1>10 DEF Credited, Event, Fact
<1>12. credits \in Seq(Event) /\ Len(credits) = m
  BY <1>10, <1>11
<1>13. second \in Seq(Event) /\ Len(second) = k
  <2>1. second \in Seq(H)
    BY <1>10
  <2> HIDE DEF H
  <2> QED
    BY <1>2, <1>10, <2>1
<1> HIDE DEF credits
<1>13a. PICK T : T = Event
  OBVIOUS
<1>13b. /\ events \in Seq(T) /\ Len(events) = Len(credits) + Len(second)
        /\ \A i \in 1..Len(credits) : events[i] = credits[i]
        /\ \A i \in 1..Len(second) : events[Len(credits) + i] = second[i]
  <2>1. credits \in Seq(T) /\ second \in Seq(T)
    BY <1>12, <1>13, <1>13a
  <2>2. /\ credits \o second \in Seq(T)
        /\ Len(credits \o second) = Len(credits) + Len(second)
        /\ \A i \in 1..Len(credits) : (credits \o second)[i] = credits[i]
        /\ \A i \in 1..Len(second) : (credits \o second)[Len(credits) + i] = second[i]
    <3>1. Len(credits) \in Nat /\ Len(second) \in Nat
      BY <2>1
    <3>2. credits \o second \in Seq(T)
          /\ Len(credits \o second) = Len(credits) + Len(second)
      BY <2>1
    <3>3. \A i \in 1..Len(credits) : (credits \o second)[i] = credits[i]
      BY <2>1, <3>1
    <3>4. \A i \in 1..Len(second) : (credits \o second)[Len(credits) + i] = second[i]
      BY <2>1, <3>1
    <3> QED
      BY <3>2, <3>3, <3>4
  <2> QED
    BY <1>9, <2>2, Zenon
<1>14. events \in Seq(Event) /\ Len(events) = m + k
  BY <1>12, <1>13, <1>13a, <1>13b
<1>15. /\ \A i \in 1..m : events[i] = Credited(n, first[i])
       /\ \A i \in 1..k : events[m + i] = second[i]
  <2>1. \A i \in 1..m : credits[i] = Credited(n, first[i])
    BY DEF credits
  <2> QED
    BY <1>12, <1>13, <1>13b, <2>1
<1> DEFINE who == [i \in 1..(m + k) |-> IF i <= m THEN first[i] ELSE second[i - m].agent]
<1>16. ASSUME NEW i \in 1..(m + k)
       PROVE  \/ /\ i \in 1..m /\ who[i] = first[i] /\ who[i] \in paid
                 /\ events[i] = Credited(n, who[i])
              \/ \E j \in 1..k :
                   /\ i = m + j /\ events[i] = second[j] /\ second[j] \in H
                   /\ who[i] = second[j].agent
  <2>1. CASE i <= m
    <3>1. i \in 1..m /\ who[i] = first[i]
      BY <1>10, <2>1
    <3> HIDE DEF who
    <3> QED
      BY <1>10, <1>15, <3>1
  <2>2. CASE ~(i <= m)
    <3>1. PICK j : j = i - m
      OBVIOUS
    <3>2. j \in 1..k /\ i = m + j
      BY <1>10, <2>2, <3>1
    <3>3. who[i] = second[j].agent
      BY <2>2, <3>1
    <3> HIDE DEF who
    <3> QED
      BY <1>10, <1>15, <3>2, <3>3
  <2> QED
    BY <2>1, <2>2
<1>17. \A event \in H :
         \/ event.agent \in leaving /\ event = Departed(event.agent, records[event.agent])
         \/ event.agent \in coming /\ event = Arrived(event.agent, records[event.agent])
  <2> SUFFICES ASSUME NEW event \in H
               PROVE  \/ /\ event.agent \in leaving
                         /\ event = Departed(event.agent, records[event.agent])
                      \/ /\ event.agent \in coming
                         /\ event = Arrived(event.agent, records[event.agent])
    OBVIOUS
  <2>1. CASE event \in {Departed(a, records[a]) : a \in leaving}
    <3>1. PICK a \in leaving : event = Departed(a, records[a])
      BY <2>1
    <3>2. event.agent = a
      BY <3>1 DEF Departed
    <3> QED
      BY <3>1, <3>2
  <2>2. CASE event \in {Arrived(a, records[a]) : a \in coming}
    <3>1. PICK a \in coming : event = Arrived(a, records[a])
      BY <2>2
    <3>2. event.agent = a
      BY <3>1 DEF Arrived
    <3> QED
      BY <3>1, <3>2
  <2> QED
    BY <1>1, <2>1, <2>2 DEF HandedOver
<1>18. \A a \in Agent : ~(a \in leaving /\ a \in coming)
  BY <1>1 DEF Owners
<1>19. \A x, y \in H : x.agent = y.agent => x = y
  <2> SUFFICES ASSUME NEW x \in H, NEW y \in H, x.agent = y.agent PROVE x = y
    OBVIOUS
  <2> HIDE DEF H, leaving, coming
  <2>1. x.agent \in Agent
    BY <1>1, <1>17 DEF leaving, coming
  <2> QED
    BY <1>17, <1>18, <2>1
<1> HIDE DEF who, H
<1>20. \A i \in 1..Len(events) : EventFor(events[i], who[i], q, clockNow)
  <2> SUFFICES ASSUME NEW i \in 1..(m + k)
               PROVE  EventFor(events[i], who[i], q, clockNow)
    BY <1>14
  <2> QED
    BY <1>16, <1>17 DEF EventFor
<1>21. \A i, j \in 1..Len(events) : who[i] = who[j] => i = j
  <2> SUFFICES ASSUME NEW i \in 1..(m + k), NEW j \in 1..(m + k), who[i] = who[j]
               PROVE  i = j
    BY <1>14
  <2>1. \A event \in H : event.agent \notin paid
    BY <1>1, <1>17
  <2> HIDE DEF paid
  <2>2. CASE i \in 1..m /\ who[i] = first[i] /\ who[i] \in paid
    <3>1. j \in 1..m /\ who[j] = first[j]
      BY <1>16, <2>1, <2>2
    <3> QED
      BY <1>10, <2>2, <3>1
  <2>3. CASE \E x \in 1..k : i = m + x /\ second[x] \in H /\ who[i] = second[x].agent
    <3>1. PICK x \in 1..k : i = m + x /\ second[x] \in H /\ who[i] = second[x].agent
      BY <2>3
    <3>2. PICK y \in 1..k : j = m + y /\ second[y] \in H /\ who[j] = second[y].agent
      BY <1>16, <2>1, <3>1
    <3>3. second[x] = second[y]
      BY <1>19, <3>1, <3>2
    <3>4. x = y
      BY <1>10, <3>3
    <3> QED
      BY <3>1, <3>2, <3>4
  <2> QED
    BY <1>16, <2>2, <2>3
<1>22. ASSUME NEW a \in Concerned(q, clockNow)
       PROVE  \E i \in 1..Len(events) : who[i] = a
  <2>1. CASE a \in paid
    <3>1. PICK i \in 1..m : first[i] = a
      BY <1>10, <2>1
    <3>2. i \in 1..(m + k) /\ i <= m
      BY <1>10
    <3> QED
      BY <1>14, <3>1, <3>2 DEF who
  <2>2. CASE a \notin paid
    <3>1. a \in leaving \/ a \in coming
      BY <2>2 DEF Concerned
    <3>2. PICK event \in H : event.agent = a
      <4>1. Departed(a, records[a]).agent = a /\ Arrived(a, records[a]).agent = a
        BY DEF Departed, Arrived
      <4>2. HandedOver(clockNow, q) = {Departed(b, records[b]) : b \in leaving}
                                         \cup {Arrived(b, records[b]) : b \in coming}
        BY DEF HandedOver
      <4> QED
        BY <1>1, <3>1, <4>1, <4>2 DEF H
    <3>3. PICK j \in 1..k : second[j] = event
      BY <1>10
    <3>4. m + j \in 1..(m + k) /\ ~(m + j <= m) /\ (m + j) - m = j
      BY <1>10
    <3>5. who[m + j] = second[j].agent
      BY <3>4 DEF who
    <3> QED
      BY <1>14, <3>2, <3>3, <3>4, <3>5
  <2> QED
    BY <2>1, <2>2
<1> QED
  BY <1>14, <1>20, <1>21, <1>22 DEF Brought

\* Advance: everyone is between two ticks, and has lived as long as the others.
Between(q) ==
  /\ pc[q] \notin {"ready"} \cup InTick
  /\ clock[q] = now /\ ticked[q] = now /\ ~HasTime(tail[q])

LEMMA AdvanceBetween ==
  ASSUME InboxTypesInv, Timing, crashes = 0, NEW p \in Partition, Interleaves(p),
         Advance(p), \A q \in Partition : Calm(q)
  PROVE  /\ \A q \in Partition : Between(q)
         /\ now' = now + 1 /\ now' \in Nat /\ AdvanceTime(now')
<1>1. ASSUME NEW q \in Partition PROVE Between(q)
  <2>1. published[q] >= now /\ pc[p] = "waiting"
    BY DEF Advance, BarrierIsOpen
  <2>2. TailOfTick(q) /\ PublishedTicks(q) /\ Calm(q)
    BY DEF Timing
  <2>3. pc[q] # "finished"
    BY <2>1 DEF Interleaves
  <2>3a. published[q] <= ticked[q]
    BY <2>2, <2>3, Numbers DEF PublishedTicks
  <2>4. pc[q] \notin {"ready"} \cup InTick
    <3> SUFFICES ASSUME pc[q] \in {"ready"} \cup InTick PROVE FALSE
      OBVIOUS
    <3>1. ticked[q] + 1 <= now
      BY <2>2 DEF PublishedTicks
    <3> QED
      BY <2>1, <2>3a, <3>1, Numbers
  <2>5. ~HasTime(tail[q])
    BY <2>2, <2>4 DEF Calm
  <2>6. ticked[q] <= published[q] /\ published[q] <= ticked[q] /\ published[q] <= now
    BY <2>2, <2>3a DEF PublishedTicks
  <2>7. clock[q] = ticked[q]
    BY <2>2, <2>5, Numbers DEF TailOfTick
  <2> QED
    BY <2>1, <2>4, <2>5, <2>6, <2>7, Numbers DEF Between
<1>2. pc[p] = "waiting" /\ now' = Target(p) /\ AdvanceTime(Target(p))
  BY DEF Advance, AdvanceTime
<1>3. Target(p) = ticked[p] + 1
  BY <1>2, ClockAtStart DEF Timing
<1>4. Between(p)
  BY <1>1
<1> QED
  BY <1>1, <1>2, <1>3, <1>4, Numbers DEF Between

(* What an advance brings is taken by who has read everything before it,   *)
(* and then says of every agent what the authority says.                   *)
LEMMA AdvanceView ==
  ASSUME InboxInv, Owners, OperationsPlain, Movers \cap Depositors = {},
         NEW q \in Partition, StreamOf(q), pc[q] # "poisoned", View(q),
         clock[q] = now,
         \A a \in DOMAIN pendingMoves : records[a] = [age |-> now, facts |-> FactsOf(a)],
         NEW clockNow \in Nat, AdvanceTime(clockNow), projection'[q] = projection[q],
         stream'[q] = stream[q], cursor'[q] = cursor[q], clock'[q] = clock[q]
  PROVE  View(q)'
<1>0. PICK n : n = Len(operations) + 1
  OBVIOUS
<1>1. /\ operations' = Append(operations, AdvanceOf(clockNow))
      /\ AdvanceOf(clockNow).kind = "advance" /\ AdvanceOf(clockNow).parties = Depositors
      /\ Arriving(clockNow) \subseteq DOMAIN pendingMoves
      /\ DOMAIN pendingMoves \subseteq Agent \ Depositors
      /\ \A a \in Arriving(clockNow) : owner'[a] = pendingMoves[a].to
      /\ \A a \in Agent \ Arriving(clockNow) : owner'[a] = owner[a]
      /\ Depositors \subseteq Agent
  BY AdvanceChanges, Constants
<1>2. /\ Len(operations) \in Nat /\ DOMAIN operations = 1..Len(operations)
      /\ \A t \in DOMAIN operations : operations'[t] = operations[t]
  BY <1>1 DEF InboxInv, InboxTypesInv, AuthorityTypes
<1>3. \A t \in DOMAIN operations : DeliveryOf(t, q)' = DeliveryOf(t, q)
  <2> SUFFICES ASSUME NEW t \in DOMAIN operations
               PROVE  DeliveryOf(t, q)' = DeliveryOf(t, q)
    OBVIOUS
  <2>1. operations'[t] = operations[t]
    BY <1>2
  <2>2. {a \in operations[t].parties : operations[t].kind = "advance" /\ owner'[a] = q}
          = {a \in operations[t].parties : operations[t].kind = "advance" /\ owner[a] = q}
    BY <1>1 DEF OperationsPlain
  <2> QED
    BY <2>1, <2>2 DEF DeliveryOf
<1> DEFINE events == DeliveryOf(n, q)'
<1>4. PICK given : given = events
  OBVIOUS
<1>5. Taken(q)' = IF given = <<>> THEN Taken(q) ELSE TakeEvents(Taken(q), n, given)
  <2>1. AuthorityTypes /\ InboxTypes
    BY DEF InboxInv, InboxTypesInv
  <2> QED
    BY <1>0, <1>1, <1>3, <1>4, <2>1, ViewExtends
<1>6. Brought(given, q, clockNow)
  BY <1>0, <1>4, AdvanceDelivers
<1>7. PICK who : /\ \A i \in 1..Len(given) : EventFor(given[i], who[i], q, clockNow)
                 /\ \A i, j \in 1..Len(given) : who[i] = who[j] => i = j
                 /\ \A a \in Concerned(q, clockNow) : \E i \in 1..Len(given) : who[i] = a
  BY <1>6 DEF Brought
<1> HIDE DEF events
<1> DEFINE before == Taken(q)
           proj == before.proj
<1>8. /\ before \in Reader /\ before.outcome = "taken" /\ DOMAIN proj = Owned(q)
      /\ \A a \in Owned(q) : proj[a] = Current(a, q)
      /\ proj \in World
  BY TakenTyped DEF View, InboxInv, InboxTypesInv, Reader
<1>9. \A a \in DOMAIN pendingMoves : records[a] = [age |-> clock[q], facts |-> FactsOf(a)]
  OBVIOUS
<1> HIDE DEF before
<1>10. ASSUME NEW i \in 1..Len(given)
       PROVE  who[i] \in Agent /\ IsAbout(given[i], who[i]) /\ Applicable(proj, given[i])
  <2>1. EventFor(given[i], who[i], q, clockNow)
    BY <1>7
  <2>2. PICK a, event : a = who[i] /\ event = given[i]
    OBVIOUS
  <2>3. CASE a \in Depositors \cap Owned(q) /\ event = Credited(n, a)
    <3>1. event.type = "credited" /\ event.agents = {a}
      BY <2>3 DEF Credited
    <3>2. {a} \subseteq DOMAIN proj /\ a \in Agent
      BY <1>8, <2>3 DEF Owned
    <3> QED
      BY <2>2, <3>1, <3>2 DEF IsAbout, Applicable
  <2>4. CASE /\ a \in Arriving(clockNow) /\ pendingMoves[a].from = q
             /\ event = Departed(a, records[a])
    <3>1. event.type = "departed" /\ event.agent = a /\ event.record = records[a]
      BY <2>4 DEF Departed
    <3>2. a \in Owned(q) /\ a \in DOMAIN pendingMoves /\ a \in Agent
      BY <1>1, <2>4 DEF Owners, Owned
    <3>3. a \in DOMAIN proj /\ proj[a].facts = event.record.facts
      BY <1>8, <1>9, <3>1, <3>2 DEF Current
    <3> QED
      BY <2>2, <3>1, <3>2, <3>3 DEF IsAbout, Applicable
  <2>5. CASE /\ a \in Arriving(clockNow) /\ pendingMoves[a].to = q
             /\ event = Arrived(a, records[a])
    <3>1. event.type = "arrived" /\ event.agent = a
      BY <2>5 DEF Arrived
    <3>2. a \notin Owned(q) /\ a \in Agent
      BY <1>1, <2>5 DEF Owners, Owned
    <3>3. a \notin DOMAIN proj
      BY <1>8, <3>2
    <3> QED
      BY <2>2, <3>1, <3>2, <3>3 DEF IsAbout, Applicable
  <2> QED
    BY <1>0, <2>1, <2>2, <2>3, <2>4, <2>5 DEF EventFor
<1> DEFINE after == AppliedAll(proj, given)
<1>11. PICK state : state = after
  OBVIOUS
<1>12. /\ state.sound = TRUE /\ state.proj \in World
       /\ \A i \in 1..Len(given) : SameAt(state.proj, Applied(proj, given[i]), who[i])
       /\ \A a \in Agent : (\A i \in 1..Len(given) : who[i] # a) =>
            SameAt(state.proj, proj, a)
  <2> HIDE DEF after
  <2>1. given \in Seq(Event) /\ proj \in World
    BY <1>6, <1>8 DEF Brought
  <2>2. state = AppliedAll(proj, given)
    BY <1>11 DEF after
  <2> HIDE DEF proj
  <2>3. Apart(proj, given, who)
    BY <1>7, <1>10 DEF Apart
  <2> QED
    BY <2>1, <2>2, <2>3, AppliedApart
<1> HIDE DEF after
<1>13. Taken(q)'.outcome = "taken" /\ Taken(q)'.proj = state.proj
  <2>1. CASE given = <<>>
    <3>1. Taken(q)' = before
      BY <1>5, <2>1 DEF before
    <3>2. \A a \in Agent : SameAt(state.proj, proj, a)
      BY <1>12, <2>1
    <3>3. DOMAIN state.proj \subseteq Agent /\ DOMAIN proj \subseteq Agent
          /\ state.proj = [a \in DOMAIN state.proj |-> state.proj[a]]
          /\ proj = [a \in DOMAIN proj |-> proj[a]]
      BY <1>8, <1>12, Worlds
    <3>4. state.proj = proj
      <4> HIDE DEF proj
      <4>1. DOMAIN state.proj = DOMAIN proj
        BY <3>2, <3>3 DEF SameAt
      <4>2. \A a \in DOMAIN proj : state.proj[a] = proj[a]
        BY <3>2, <3>3, <4>1 DEF SameAt
      <4> QED
        BY <3>3, <4>1, <4>2
    <3> QED
      BY <1>8, <3>1, <3>4
  <2>2. CASE given # <<>>
    <3>1. Taken(q)' = TakeEvents(before, n, given)
      BY <1>5, <2>2 DEF before
    <3>2. ~IsAppended(before.entries, n)
      <4>1. before.outcome = "taken"
        BY <1>8
      <4> QED
        BY <1>0, <4>1, NotYet DEF before, InboxInv
    <3>3. TakeEvents(before, n, given) =
            [proj |-> state.proj,
             entries |-> Append(before.entries, [token |-> n, events |-> given]),
             outcome |-> "taken"]
      BY <1>8, <1>11, <1>12, <3>2 DEF TakeEvents, after
    <3> QED
      BY <3>1, <3>3
  <2> QED
    BY <2>1, <2>2
<1>14. DOMAIN state.proj \subseteq Agent
  BY <1>12, Worlds
<1> HIDE DEF proj
<1>15. ASSUME NEW a \in Agent
       PROVE  /\ a \in DOMAIN state.proj <=> owner'[a] = q
              /\ owner'[a] = q => state.proj[a] = [age |-> clock[q], facts |-> FactsOf(a)']
  <2>1. a \in Depositors => FactsOf(a)' = FactsOf(a) \cup {n}
    BY <1>0, <1>1, FactsGrow DEF InboxInv, InboxTypesInv
  <2>2. a \notin Depositors => FactsOf(a)' = FactsOf(a)
    BY <1>0, <1>1, FactsGrow DEF InboxInv, InboxTypesInv
  <2>3. CASE a \notin Concerned(q, clockNow)
    <3>1. \A i \in 1..Len(given) : who[i] # a
      <4> SUFFICES ASSUME NEW i \in 1..Len(given), who[i] = a PROVE FALSE
        OBVIOUS
      <4>1. EventFor(given[i], a, q, clockNow)
        BY <1>7
      <4> QED
        BY <2>3, <4>1 DEF EventFor, Concerned
    <3>2. SameAt(state.proj, proj, a)
      BY <1>12, <3>1
    <3>3. a \in Owned(q) <=> owner'[a] = q
      BY <1>1, <2>3 DEF Concerned, Owned, Owners
    <3>4. a \in Owned(q) => a \notin Depositors
      BY <2>3 DEF Concerned
    <3> QED
      BY <1>8, <2>2, <3>2, <3>3, <3>4 DEF SameAt, Current
  <2>4. CASE a \in Concerned(q, clockNow)
    <3>1. PICK i \in 1..Len(given) : who[i] = a
      BY <1>7, <2>4
    <3>2. PICK event : event = given[i]
      OBVIOUS
    <3>3. EventFor(event, a, q, clockNow) /\ SameAt(state.proj, Applied(proj, event), a)
      BY <1>7, <1>12, <3>1, <3>2
    <3>4. CASE a \in Depositors \cap Owned(q) /\ event = Credited(n, a)
      <4>1. event.type = "credited" /\ event.token = n /\ event.agents = {a}
        BY <3>4 DEF Credited
      <4>2. Applied(proj, event) = WithFact(proj, n, {a})
        BY <4>1 DEF Applied
      <4>3. a \in DOMAIN proj
        BY <1>8, <3>4
      <4>4. PICK old : old = proj[a]
        OBVIOUS
      <4>5. PICK new : new = WithFact(proj, n, {a})[a]
        OBVIOUS
      <4>6. /\ a \in DOMAIN WithFact(proj, n, {a})
            /\ new = [old EXCEPT !.facts = @ \cup {n}]
        BY <4>3, <4>4, <4>5 DEF WithFact
      <4>7. old = [age |-> clock[q], facts |-> FactsOf(a)]
        BY <1>8, <3>4, <4>4 DEF Current
      <4>7a. new = [age |-> clock[q], facts |-> FactsOf(a) \cup {n}]
        BY <4>6, <4>7, FactAdded
      <4>8. owner'[a] = q
        BY <1>1, <3>4 DEF Owned
      <4> QED
        BY <2>1, <3>3, <3>4, <4>2, <4>5, <4>6, <4>7a, <4>8 DEF SameAt
    <3>5. CASE /\ a \in Arriving(clockNow) /\ pendingMoves[a].from = q
               /\ event = Departed(a, records[a])
      <4>1. event.type = "departed" /\ event.agent = a
        BY <3>5 DEF Departed
      <4>2. Applied(proj, event) = Without(proj, a)
        BY <4>1 DEF Applied
      <4>3. a \notin DOMAIN Without(proj, a)
        BY DEF Without
      <4>4. owner'[a] # q
        BY <1>1, <3>5 DEF Owners
      <4> QED
        BY <3>3, <4>2, <4>3, <4>4 DEF SameAt
    <3>6. CASE /\ a \in Arriving(clockNow) /\ pendingMoves[a].to = q
               /\ event = Arrived(a, records[a])
      <4>1. event.type = "arrived" /\ event.agent = a /\ event.record = records[a]
        BY <3>6 DEF Arrived
      <4>2. Applied(proj, event) = With(proj, a, records[a])
        BY <4>1 DEF Applied
      <4>3. a \in DOMAIN With(proj, a, records[a])
            /\ With(proj, a, records[a])[a] = records[a]
        BY DEF With
      <4>4. owner'[a] = q /\ a \in DOMAIN pendingMoves /\ a \notin Depositors
        BY <1>1, <3>6
      <4>5. records[a] = [age |-> clock[q], facts |-> FactsOf(a)]
        BY <1>9, <4>4
      <4> QED
        BY <2>2, <3>3, <4>2, <4>3, <4>4, <4>5 DEF SameAt
    <3> QED
      BY <1>0, <3>3, <3>4, <3>5, <3>6 DEF EventFor
  <2> QED
    BY <2>3, <2>4
<1>16. DOMAIN Taken(q)'.proj = Owned(q)'
  BY <1>13, <1>14, <1>15 DEF Owned
<1>17. \A a \in Owned(q)' : Taken(q)'.proj[a] = Current(a, q)'
  BY <1>13, <1>15 DEF Owned, Current
<1> QED
  BY <1>13, <1>16, <1>17 DEF View

LEMMA ReceiptTyped ==
  ASSUME AuthorityTypes, NEW d \in receipts
  PROVE  /\ d.partition \in Partition /\ DOMAIN d.state.agents \subseteq Agent
         /\ \A a \in DOMAIN d.state.agents :
              d.state.agents[a].age \in Nat /\ d.state.agents[a] \in Rec
<1>1. d.partition \in Partition /\ d.state.agents \in World
  BY DEF AuthorityTypes, Digest, Report
<1> QED
  BY <1>1, Worlds DEF Rec

LEMMA AdvanceWhole ==
  ASSUME InboxInv, Timing, Streams, Whole, crashes = 0, Movers \cap Depositors = {},
         NEW p \in Partition, Interleaves(p), Advance(p)
  PROVE  Whole'
<1>1. /\ Owners /\ OperationsPlain /\ Receipts /\ InboxTypesInv /\ AuthorityTypes
      /\ \A q \in Partition : PartitionWhole(q) /\ StreamOf(q)
  BY DEF Whole, Streams, InboxInv, InboxTypesInv
<1>2. /\ \A q \in Partition : Between(q)
      /\ now' = now + 1 /\ now' \in Nat /\ AdvanceTime(now')
  BY <1>1, AdvanceBetween DEF PartitionWhole
<1>3. UNCHANGED <<published, receipts, stream, projection, cursor, clock, boundary, ticked,
                  tail, pc, working, agenda, recovering, lastSynced, lastReported>>
  BY DEF Advance, inbox, lifecycle, router
<1>4. PICK clockNow \in Nat : clockNow = now'
  BY <1>2
<1>5. /\ operations' = Append(operations, AdvanceOf(clockNow))
      /\ AdvanceOf(clockNow).kind = "advance" /\ AdvanceOf(clockNow).parties = Depositors
      /\ Arriving(clockNow) \subseteq DOMAIN pendingMoves
      /\ DOMAIN pendingMoves \subseteq Agent \ Depositors
      /\ \A a \in Arriving(clockNow) : owner'[a] = pendingMoves[a].to
      /\ \A a \in Agent \ Arriving(clockNow) : owner'[a] = owner[a]
      /\ DOMAIN pendingMoves' = DOMAIN pendingMoves \ Arriving(clockNow)
      /\ \A a \in DOMAIN pendingMoves' : pendingMoves'[a] = pendingMoves[a]
      /\ \A a \in Agent \ Depositors : records'[a] = records[a]
  <2>1. AdvanceTime(clockNow)
    BY <1>2, <1>4
  <2> QED
    BY <1>1, <2>1, AdvanceChanges
<1>6. /\ \A a : FactsOf(a) \subseteq FactsOf(a)'
      /\ \A a : a \notin Depositors => FactsOf(a)' = FactsOf(a)
  BY <1>1, <1>5, FactsGrow
<1>7. \A a \in DOMAIN pendingMoves' :
        /\ a \in DOMAIN pendingMoves /\ a \in Agent /\ owner'[a] = owner[a]
        /\ records'[a] = records[a] /\ FactsOf(a)' = FactsOf(a)
        /\ pendingMoves'[a] = pendingMoves[a]
  BY <1>5, <1>6
<1>8. Owners'
  <2>1. \A a \in Agent : owner'[a] \in Partition
    BY <1>1, <1>5 DEF Owners
  <2>2. \A a \in DOMAIN pendingMoves' :
          /\ a \in Movers /\ pendingMoves'[a].from = owner'[a]
          /\ pendingMoves'[a].to \in Partition \ {owner'[a]}
    BY <1>1, <1>7 DEF Owners
  <2> QED
    BY <2>1, <2>2 DEF Owners
<1>9. OperationsPlain'
  <2>1. PICK n : n = Len(operations) + 1
    OBVIOUS
  <2>2. /\ DOMAIN operations' = DOMAIN operations \cup {n}
        /\ operations'[n] = AdvanceOf(clockNow)
        /\ \A t \in DOMAIN operations : operations'[t] = operations[t]
    BY <1>1, <1>5, <2>1 DEF AuthorityTypes
  <2> SUFFICES ASSUME NEW t \in DOMAIN operations'
               PROVE  /\ operations'[t].kind = "advance" =>
                           operations'[t].parties \subseteq Depositors
                      /\ operations'[t].kind # "advance" =>
                           \A q \in Partition : operations'[t].to[q] \in
                             {<<>>, <<Settled(t, operations'[t].parties)>>}
    BY DEF OperationsPlain
  <2>3. CASE t = n
    BY <1>5, <2>2, <2>3
  <2>4. CASE t \in DOMAIN operations
    BY <1>1, <2>2, <2>4 DEF OperationsPlain
  <2> QED
    BY <2>2, <2>3, <2>4
<1>10. Receipts'
  <2>1. ASSUME NEW d \in receipts, NEW a \in DOMAIN d.state.agents
        PROVE  /\ d.state.agents[a].age <= clock'[d.partition]
               /\ d.state.agents[a].facts \subseteq FactsOf(a)'
               /\ /\ a \in DOMAIN pendingMoves' /\ owner'[a] = d.partition
                  /\ d.state.agents[a] = Current(a, d.partition)'
                  => records'[a] = d.state.agents[a]
    <3>1. /\ d.state.agents[a].age <= clock[d.partition]
          /\ d.state.agents[a].facts \subseteq FactsOf(a)
          /\ /\ a \in DOMAIN pendingMoves /\ owner[a] = d.partition
             /\ d.state.agents[a] = Current(a, d.partition)
             => records[a] = d.state.agents[a]
      BY <1>1 DEF Receipts
    <3>2. clock'[d.partition] = clock[d.partition]
      BY <1>3
    <3>3. a \in DOMAIN pendingMoves' =>
            Current(a, d.partition)' = Current(a, d.partition)
      BY <1>3, <1>7 DEF Current
    <3> QED
      BY <1>6, <1>7, <3>1, <3>2, <3>3
  <2>2. \A q \in Partition : lastSynced'[q] # <<>> =>
          \E d \in receipts' : d.partition = q /\ lastSynced'[q] = <<d.state>>
    BY <1>1, <1>3 DEF Receipts
  <2> QED
    BY <1>3, <2>1, <2>2 DEF Receipts
<1>11. ASSUME NEW q \in Partition PROVE PartitionWhole(q)'
  <2>1. Between(q) /\ PartitionWhole(q) /\ StreamOf(q)
    BY <1>1, <1>2
  <2>2. \A a \in DOMAIN pendingMoves : records[a] = [age |-> now, facts |-> FactsOf(a)]
    <3> SUFFICES ASSUME NEW a \in DOMAIN pendingMoves
                 PROVE  records[a] = [age |-> now, facts |-> FactsOf(a)]
      OBVIOUS
    <3>1. PICK r \in Partition : r = owner[a] /\ a \in Agent
      BY <1>1, <1>5 DEF Owners
    <3>2. RecordsOf(r) /\ Between(r) /\ a \in Owned(r)
      BY <1>1, <1>2, <3>1 DEF PartitionWhole, Owned
    <3>3. pc[r] \notin {"body", "drain"}
      BY <3>2 DEF Between, InTick
    <3> QED
      BY <3>2, <3>3 DEF RecordsOf, Current, Between
  <2>3. View(q)'
    <3>1. AdvanceTime(clockNow) /\ clock[q] = now /\ pc[q] # "poisoned" /\ View(q)
      BY <1>2, <1>4, <2>1 DEF Between, PartitionWhole, Calm
    <3> QED
      BY <1>1, <1>3, <2>1, <2>2, <3>1, AdvanceView
  <2>4. Calm(q)' /\ Working(q)'
    BY <1>3, <2>1 DEF Calm, Working, PartitionWhole, Between, InTick
  <2>5. \A a \in Owned(q)' \cap DOMAIN pendingMoves' :
          /\ a \in Owned(q) \cap DOMAIN pendingMoves /\ records'[a] = records[a]
          /\ Current(a, q)' = Current(a, q)
    BY <1>3, <1>7 DEF Owned, Current
  <2>6. RecordsOf(q)'
    BY <1>3, <2>1, <2>5 DEF RecordsOf, PartitionWhole
  <2>7. now' # ticked[q]
    BY <1>1, <1>2, <2>1, Numbers DEF Between
  <2>8. Bound(q)'
    <3>1. \A a \in DOMAIN boundary[q].proj :
            /\ boundary'[q].proj[a].age <= clock'[q]
            /\ boundary'[q].proj[a].facts \subseteq FactsOf(a)'
      BY <1>3, <1>6, <2>1 DEF Bound, PartitionWhole
    <3>2. \A a \in Owned(q)' \cap DOMAIN pendingMoves' :
            a \in DOMAIN boundary'[q].proj /\ boundary'[q].proj[a] = Current(a, q)'
      BY <1>3, <2>1, <2>5 DEF Bound, PartitionWhole, Between
    <3>3. recovering'[q] \/ pc'[q] \in {"waiting", "failed"} =>
            lastReported'[q] \subseteq DOMAIN boundary'[q].proj
      BY <1>3, <2>1 DEF Bound, PartitionWhole
    <3> QED
      BY <1>3, <2>7, <3>1, <3>2, <3>3 DEF Bound
  <2> QED
    BY <2>3, <2>4, <2>6, <2>8 DEF PartitionWhole
<1> QED
  BY <1>8, <1>9, <1>10, <1>11 DEF Whole

(* What the authority holds behind a publication that it has not refused   *)
(* and that misses nobody: the owners and journeys are what they were, the *)
(* records of travellers what their owner has.                             *)
LEMMA ReportHolds ==
  ASSUME InboxInv, Owners, Receipts, NEW p \in Partition, NEW proj \in World,
         NEW clocks, ~IsRefused(p, proj, clocks), LeftTown(p, proj) = {},
         \A a \in Owned(p) \cap DOMAIN pendingMoves :
           a \in DOMAIN proj /\ proj[a] = Current(a, p),
         NEW state, state = AfterReport(p, proj, clocks)
  PROVE  /\ state.owner = owner
         /\ DOMAIN state.pendingMoves = DOMAIN pendingMoves
         /\ \A a \in DOMAIN pendingMoves : state.pendingMoves[a] = pendingMoves[a]
         /\ \A a \in Agent : owner[a] # p => state.records[a] = records[a]
         /\ \A a \in Owned(p) \cap DOMAIN pendingMoves : state.records[a] = Current(a, p)
         /\ receipts \subseteq state.receipts
         /\ \A d \in state.receipts :
              d \in receipts \/ (d.partition = p /\ d.state.agents = proj)
         /\ \E d \in state.receipts :
              d.partition = p /\ d.state = Reported(p, proj, clocks)
<1> DEFINE digest == DigestOf(p, proj, clocks)
<1>1. digest.partition = p /\ digest.state = Reported(p, proj, clocks)
  BY DEF DigestOf
<1>2. Reported(p, proj, clocks).agents = proj
  BY DEF Reported
<1>3. owner \in [Agent -> Partition \cup {NoPartition}]
      /\ DOMAIN records = Agent /\ DOMAIN pendingMoves \subseteq Agent
  BY Constants DEF InboxInv, InboxTypesInv, AuthorityTypes, Known, Authority, Owners
<1> HIDE DEF digest
<1>4. CASE IsUnchanged(p, proj, clocks) \/ digest \in receipts
  <2>1. /\ state.owner = owner /\ state.pendingMoves = pendingMoves
        /\ state.records = records /\ state.receipts = receipts
    BY <1>4 DEF AfterReport, digest
  <2>2. PICK d \in receipts : d.partition = p /\ d.state = Reported(p, proj, clocks)
    <3>1. CASE digest \in receipts
      BY <1>1, <3>1
    <3>2. CASE IsUnchanged(p, proj, clocks)
      <4>1. lastSynced[p] = <<Reported(p, proj, clocks)>>
        BY <3>2 DEF IsUnchanged
      <4>2. lastSynced[p] # <<>>
        BY <4>1
      <4>3. PICK d \in receipts : d.partition = p /\ lastSynced[p] = <<d.state>>
        BY <4>2 DEF Receipts
      <4>4. d.state = Reported(p, proj, clocks)
        BY <4>1, <4>3
      <4> QED
        BY <4>3, <4>4
    <3> QED
      BY <1>4, <3>1, <3>2
  <2>3. ASSUME NEW a \in Owned(p) \cap DOMAIN pendingMoves
        PROVE  records[a] = Current(a, p)
    <3>1. a \in DOMAIN d.state.agents /\ d.state.agents[a] = Current(a, p)
          /\ owner[a] = d.partition
      BY <1>2, <2>2 DEF Owned
    <3> QED
      BY <2>2, <3>1 DEF Receipts
  <2> QED
    BY <2>1, <2>2, <2>3
<1>5. CASE ~(IsUnchanged(p, proj, clocks) \/ digest \in receipts)
  <2>1. \A a \in DOMAIN proj : a \in Agent /\ owner[a] = p
    <3>1. \A a \in DOMAIN proj : owner[a] \in {p, NoPartition}
      BY <1>5 DEF IsRefused, digest
    <3>2. DOMAIN proj \subseteq Agent
      BY Worlds
    <3>3. \A a \in DOMAIN proj : owner[a] # NoPartition
      BY <3>2, Constants DEF Owners
    <3> QED
      BY <3>1, <3>2, <3>3
  <2>2. state = [owner |-> [a \in Agent |-> IF a \in {} THEN NoPartition
                                            ELSE IF a \in DOMAIN proj THEN p
                                            ELSE owner[a]],
           pendingMoves |-> [a \in DOMAIN pendingMoves \ {} |-> pendingMoves[a]],
           records |-> [a \in (DOMAIN records \ {}) \cup DOMAIN proj |->
                          IF a \in DOMAIN proj THEN proj[a] ELSE records[a]],
           published |-> [published EXCEPT ![p] =
                            IF clocks = {} THEN @ ELSE CHOOSE c \in clocks : TRUE],
           receipts |-> receipts \cup {digest}]
    BY <1>5 DEF AfterReport, digest
  <2>3. /\ state.owner = [a \in Agent |-> IF a \in DOMAIN proj THEN p ELSE owner[a]]
        /\ state.pendingMoves = [a \in DOMAIN pendingMoves |-> pendingMoves[a]]
        /\ state.records = [a \in Agent \cup DOMAIN proj |->
                              IF a \in DOMAIN proj THEN proj[a] ELSE records[a]]
        /\ state.receipts = receipts \cup {digest}
    BY <1>3, <2>2
  <2>4. state.owner = owner
    BY <1>3, <2>1, <2>3
  <2>5. \A a \in Agent : owner[a] # p => state.records[a] = records[a]
    BY <2>1, <2>3
  <2>6. \A a \in Owned(p) \cap DOMAIN pendingMoves : state.records[a] = Current(a, p)
    BY <1>3, <2>3
  <2>7. \A d \in state.receipts :
          d \in receipts \/ (d.partition = p /\ d.state.agents = proj)
    BY <1>1, <1>2, <2>3
  <2>8. digest \in state.receipts /\ receipts \subseteq state.receipts
    BY <2>3
  <2>9. DOMAIN state.pendingMoves = DOMAIN pendingMoves
        /\ \A a \in DOMAIN pendingMoves : state.pendingMoves[a] = pendingMoves[a]
    BY <2>3
  <2> HIDE DEF digest
  <2> QED
    BY <1>1, <2>4, <2>5, <2>6, <2>7, <2>8, <2>9
<1> QED
  BY <1>4, <1>5

(* Receipts through a step in which partition p may have published proj.   *)
LEMMA ReceiptsKept ==
  ASSUME AuthorityTypes, Receipts, NEW p \in Partition, NEW proj,
         \A a \in DOMAIN proj : proj[a].age <= clock[p] /\ proj[a].facts \subseteq FactsOf(a),
         owner' = owner, clock' = clock, receipts \subseteq receipts',
         \A d \in receipts' : d \in receipts \/ (d.partition = p /\ d.state.agents = proj),
         \A a : FactsOf(a) \subseteq FactsOf(a)',
         \A a \in DOMAIN pendingMoves' :
           \/ ~(FactsOf(a)' \subseteq FactsOf(a))
           \/ /\ a \in DOMAIN pendingMoves
              /\ owner[a] # p => records'[a] = records[a]
              /\ owner[a] = p => records'[a] = Current(a, p),
         \A q \in Partition \ {p} : lastSynced'[q] = lastSynced[q],
         \/ lastSynced'[p] = lastSynced[p]
         \/ \E d \in receipts' : d.partition = p /\ lastSynced'[p] = <<d.state>>
  PROVE  Receipts'
<1>1. ASSUME NEW d \in receipts', NEW a \in DOMAIN d.state.agents
      PROVE  /\ d.state.agents[a].age <= clock'[d.partition]
             /\ d.state.agents[a].facts \subseteq FactsOf(a)'
             /\ /\ a \in DOMAIN pendingMoves' /\ owner'[a] = d.partition
                /\ d.state.agents[a] = Current(a, d.partition)'
                => records'[a] = d.state.agents[a]
  <2>1. d.state.agents[a].age <= clock[d.partition]
        /\ d.state.agents[a].facts \subseteq FactsOf(a)
    BY <1>1 DEF Receipts
  <2>2. ASSUME a \in DOMAIN pendingMoves', owner'[a] = d.partition,
               d.state.agents[a] = Current(a, d.partition)'
        PROVE  records'[a] = d.state.agents[a]
    <3>1. d.state.agents[a].facts = FactsOf(a)'
      BY <2>2 DEF Current
    <3>2. FactsOf(a)' = FactsOf(a)
      BY <2>1, <3>1
    <3>3. d.state.agents[a] = Current(a, d.partition)
      BY <2>2, <3>2 DEF Current
    <3>4. /\ a \in DOMAIN pendingMoves
          /\ owner[a] # p => records'[a] = records[a]
          /\ owner[a] = p => records'[a] = Current(a, p)
      BY <2>2, <3>2
    <3>5. CASE owner[a] = p
      BY <2>2, <3>3, <3>4, <3>5
    <3>6. CASE owner[a] # p
      <4>1. d \in receipts
        BY <2>2, <3>6
      <4>2. records[a] = d.state.agents[a]
        BY <2>2, <3>3, <3>4, <4>1 DEF Receipts
      <4> QED
        BY <3>4, <3>6, <4>2
    <3> QED
      BY <3>5, <3>6
  <2> QED
    BY <2>1, <2>2
<1>2. ASSUME NEW q \in Partition, lastSynced'[q] # <<>>
      PROVE  \E d \in receipts' : d.partition = q /\ lastSynced'[q] = <<d.state>>
  <2>1. CASE lastSynced'[q] = lastSynced[q]
    BY <1>2, <2>1 DEF Receipts
  <2>2. CASE q = p
    BY <2>1, <2>2
  <2> QED
    BY <2>1, <2>2
<1> QED
  BY <1>1, <1>2 DEF Receipts

\* What a cycle can settle: parties that are not under way.
SettlesApart(operation) ==
  /\ operation \in Operation /\ operations' = Append(operations, operation)
  /\ Settles(operation, Len(operations) + 1)
  /\ operation.parties \cap DOMAIN pendingMoves = {}

(* A partition that has no part in a step is whole behind it.              *)
LEMMA ElsewhereWhole ==
  ASSUME InboxInv, NEW q \in Partition, PartitionWhole(q), StreamOf(q),
         projection'[q] = projection[q], stream'[q] = stream[q],
         cursor'[q] = cursor[q], clock'[q] = clock[q], boundary'[q] = boundary[q],
         ticked'[q] = ticked[q], tail'[q] = tail[q], pc'[q] = pc[q],
         working'[q] = working[q], recovering'[q] = recovering[q],
         lastReported'[q] = lastReported[q], now' = now, owner' = owner,
         \A a \in Owned(q) : a \in DOMAIN pendingMoves' <=> a \in DOMAIN pendingMoves,
         \A a \in Owned(q) \cap DOMAIN pendingMoves : records'[a] = records[a],
         \/ UNCHANGED operations
         \/ pc[q] # "finished" /\ \E operation : SettlesApart(operation)
  PROVE  PartitionWhole(q)'
<1>1. InboxTypesInv /\ AuthorityTypes
  BY DEF InboxInv, InboxTypesInv
<1>2. /\ View(q)'
      /\ \A a : FactsOf(a) \subseteq FactsOf(a)'
      /\ \A a \in DOMAIN pendingMoves : FactsOf(a)' = FactsOf(a)
      /\ (\A t \in Pending(q) : operations[t].kind # "advance") =>
            \A t \in Pending(q)' : operations'[t].kind # "advance"
      /\ pc[q] = "finished" => Pending(q)' = Pending(q)
  <2>1. CASE UNCHANGED operations
    <3>1. View(q)' /\ Pending(q)' = Pending(q)
      BY <1>1, <2>1, ViewKept DEF PartitionWhole
    <3> QED
      BY <2>1, <3>1, FactsStay
  <2>2. CASE pc[q] # "finished" /\ \E operation : SettlesApart(operation)
    <3>1. PICK operation : SettlesApart(operation)
      BY <2>2
    <3>2. PICK n : n = Len(operations) + 1
      OBVIOUS
    <3>3. View(q)' /\ Pending(q)' \subseteq Pending(q) \cup {n}
      BY <1>1, <3>1, <3>2, SettledView DEF SettlesApart, PartitionWhole, Calm
    <3>4. /\ \A a : FactsOf(a) \subseteq FactsOf(a)'
          /\ \A a \in DOMAIN pendingMoves : FactsOf(a)' = FactsOf(a)
      BY <1>1, <3>1, FactsGrow DEF SettlesApart
    <3>5. operations'[n] = operation
          /\ \A t \in DOMAIN operations : operations'[t] = operations[t]
      BY <1>1, <3>1, <3>2 DEF SettlesApart, AuthorityTypes
    <3>6. operation.kind # "advance" /\ Pending(q) \subseteq DOMAIN operations
      BY <3>1 DEF SettlesApart, Settles, Pending
    <3> QED
      BY <2>2, <3>3, <3>4, <3>5, <3>6
  <2> QED
    BY <2>1, <2>2
<1>3. Owned(q)' = Owned(q)
  BY DEF Owned
<1>4. \A a \in Owned(q)' \cap DOMAIN pendingMoves' :
        /\ a \in Owned(q) \cap DOMAIN pendingMoves /\ records'[a] = records[a]
        /\ Current(a, q)' = Current(a, q)
  BY <1>2, <1>3 DEF Current
<1>5. Calm(q)'
  BY <1>2 DEF Calm, PartitionWhole
<1>6. Working(q)'
  <2> SUFFICES ASSUME pc[q] \in {"ready", "body"}, ~recovering[q]
               PROVE  /\ DOMAIN working[q] = Owned(q)'
                      /\ \A a \in Owned(q)' : working[q][a].age = clock[q]
                           /\ working[q][a].facts \subseteq FactsOf(a)'
                      /\ \A a \in Owned(q)' \cap DOMAIN pendingMoves' :
                           working[q][a] = Current(a, q)'
    BY DEF Working
  <2>1. /\ DOMAIN working[q] = Owned(q)
        /\ \A a \in Owned(q) : working[q][a].age = clock[q]
             /\ working[q][a].facts \subseteq FactsOf(a)
        /\ \A a \in Owned(q) \cap DOMAIN pendingMoves : working[q][a] = Current(a, q)
    BY DEF Working, PartitionWhole
  <2> QED
    BY <1>2, <1>3, <1>4, <2>1
<1>7. Bound(q)'
  <2>1. Bound(q)
    BY DEF PartitionWhole
  <2>2. \A a \in DOMAIN boundary[q].proj :
          /\ boundary[q].proj[a].age <= clock[q]
          /\ boundary[q].proj[a].facts \subseteq FactsOf(a)'
    BY <1>2, <2>1 DEF Bound
  <2>3. pc[q] \notin InTick =>
          /\ \A a \in Owned(q)' \cap DOMAIN pendingMoves' :
               a \in DOMAIN boundary[q].proj /\ boundary[q].proj[a] = Current(a, q)'
          /\ now = ticked[q] => DOMAIN boundary[q].proj = Owned(q)'
    BY <1>3, <1>4, <2>1 DEF Bound
  <2>4. recovering[q] \/ pc[q] \in {"waiting", "failed"} =>
          lastReported[q] \subseteq DOMAIN boundary[q].proj
    BY <2>1 DEF Bound
  <2> QED
    BY <2>2, <2>3, <2>4 DEF Bound
<1>8. RecordsOf(q)'
  BY <1>3, <1>4 DEF RecordsOf, PartitionWhole
<1> QED
  BY <1>2, <1>5, <1>6, <1>7, <1>8 DEF PartitionWhole

\* A publication that changes neither owners nor journeys, nor what the town
\* knows of anybody.
Harmless(p) ==
  /\ UNCHANGED <<operations, now, clock, boundary, ticked, recovering, crashes>>
  /\ owner' = owner /\ DOMAIN pendingMoves' = DOMAIN pendingMoves
  /\ \A a \in DOMAIN pendingMoves : pendingMoves'[a] = pendingMoves[a]
  /\ \A q \in Partition \ {p} :
       /\ projection'[q] = projection[q] /\ stream'[q] = stream[q]
       /\ cursor'[q] = cursor[q] /\ tail'[q] = tail[q] /\ pc'[q] = pc[q]
       /\ working'[q] = working[q] /\ lastReported'[q] = lastReported[q]
  /\ \A a \in Agent : owner[a] # p => records'[a] = records[a]

LEMMA HarmlessElsewhere ==
  ASSUME InboxInv, Streams, Whole, NEW p \in Partition, Harmless(p)
  PROVE  /\ Owners' /\ OperationsPlain'
         /\ \A q \in Partition \ {p} : PartitionWhole(q)'
         /\ \A a : FactsOf(a)' = FactsOf(a) /\ Current(a, p)' = Current(a, p)
         /\ Owned(p)' = Owned(p)
<1>1. Owners'
  BY DEF Whole, Owners, Harmless
<1>2. OperationsPlain'
  BY DEF Whole, OperationsPlain, Harmless
<1>3. ASSUME NEW q \in Partition \ {p} PROVE PartitionWhole(q)'
  <2>1. PartitionWhole(q) /\ StreamOf(q)
    BY DEF Whole, Streams
  <2>2. \A a \in Owned(q) \cap DOMAIN pendingMoves : records'[a] = records[a]
    BY DEF Owned, Harmless
  <2> QED
    BY <2>1, <2>2, ElsewhereWhole DEF Harmless
<1>4. Owned(p)' = Owned(p)
  BY DEF Owned, Harmless
<1>5. \A a : FactsOf(a)' = FactsOf(a) /\ Current(a, p)' = Current(a, p)
  BY FactsStay DEF Current, Harmless
<1> QED
  BY <1>1, <1>2, <1>3, <1>4, <1>5

(* Reading the inbox and publishing: nothing stands in the way, and behind *)
(* it the partition, the record of its tick and the authority agree.       *)
LEMMA PublishWhole ==
  ASSUME InboxInv, Streams, Whole, NEW p \in Partition, NEW given, NEW clocks,
         \A c \in clocks : ~(c < published[p]), NEW place, ~recovering[p],
         MaterializeAndPublish(p, given, clocks, place),
         UNCHANGED <<clock, lifecycle, agenda, recovering, faults>>
  PROVE  /\ Harmless(p) /\ pc'[p] = place
         /\ Owners' /\ OperationsPlain' /\ Receipts'
         /\ \A q \in Partition \ {p} : PartitionWhole(q)'
         /\ View(p)' /\ Pending(p)' = {}
         /\ DOMAIN working'[p] = Owned(p)'
         /\ \A a \in Owned(p)' : working'[p][a] = Current(a, p)'
         /\ \A a \in Owned(p)' \cap DOMAIN pendingMoves' : records'[a] = Current(a, p)'
         /\ lastReported'[p] = Owned(p)'
         /\ \A a : FactsOf(a)' = FactsOf(a) /\ Current(a, p)' = Current(a, p)
         /\ Owned(p)' = Owned(p)
<1>1. /\ InboxTypesInv /\ AuthorityTypes /\ InboxTypes /\ TickTypes /\ RouterTypes
      /\ Owners /\ Receipts /\ View(p)
  BY DEF InboxInv, InboxTypesInv, Whole, PartitionWhole
<1>2. PICK proj : proj = Taken(p).proj
  OBVIOUS
<1>3. /\ proj \in World /\ Taken(p).outcome = "taken" /\ DOMAIN proj = Owned(p)
      /\ \A a \in Owned(p) : proj[a] = Current(a, p)
  BY <1>1, <1>2, TakenTyped DEF View, Reader
<1>4. ~IsRefused(p, proj, clocks)
  BY <1>3 DEF IsRefused, Owned
<1>5. LeftTown(p, proj) = {}
  BY <1>1, <1>3 DEF LeftTown, Owned, RouterTypes
<1>6. PICK state : state = AfterReport(p, proj, clocks)
  OBVIOUS
<1>7. /\ StreamsTaken(p, Taken(p))
      /\ tail' = [tail EXCEPT ![p] = tail[p] \o AppendsOf(p, Taken(p))]
      /\ AuthorityBecomes(state) /\ RouterHasReported(p, proj, clocks)
      /\ Goto(p, place) /\ WorkOn(p, proj) /\ UNCHANGED <<operations, now>>
  BY <1>2, <1>3, <1>4, <1>6 DEF MaterializeAndPublish, Published
<1>8. /\ state.owner = owner
      /\ DOMAIN state.pendingMoves = DOMAIN pendingMoves
      /\ \A a \in DOMAIN pendingMoves : state.pendingMoves[a] = pendingMoves[a]
      /\ \A a \in Agent : owner[a] # p => state.records[a] = records[a]
      /\ \A a \in Owned(p) \cap DOMAIN pendingMoves : state.records[a] = Current(a, p)
      /\ receipts \subseteq state.receipts
      /\ \A d \in state.receipts :
           d \in receipts \/ (d.partition = p /\ d.state.agents = proj)
      /\ \E d \in state.receipts :
           d.partition = p /\ d.state = Reported(p, proj, clocks)
  <2>1. \A a \in Owned(p) \cap DOMAIN pendingMoves :
          a \in DOMAIN proj /\ proj[a] = Current(a, p)
    BY <1>3
  <2> QED
    BY <1>1, <1>3, <1>4, <1>5, <1>6, <2>1, ReportHolds
<1>9. /\ owner' = state.owner /\ pendingMoves' = state.pendingMoves
      /\ records' = state.records /\ receipts' = state.receipts
  BY <1>7 DEF AuthorityBecomes
<1>10. Harmless(p)
  <2>1. \A q \in Partition \ {p} :
          /\ projection'[q] = projection[q] /\ stream'[q] = stream[q]
          /\ cursor'[q] = cursor[q] /\ tail'[q] = tail[q] /\ pc'[q] = pc[q]
          /\ working'[q] = working[q] /\ lastReported'[q] = lastReported[q]
    BY <1>1, <1>7 DEF StreamsTaken, InboxTypes, TickTypes, RouterTypes, Goto, WorkOn,
       RouterHasReported
  <2> QED
    BY <1>7, <1>8, <1>9, <2>1 DEF Harmless, lifecycle, faults
<1>11. /\ Owners' /\ OperationsPlain'
       /\ \A q \in Partition \ {p} : PartitionWhole(q)'
       /\ \A a : FactsOf(a)' = FactsOf(a) /\ Current(a, p)' = Current(a, p)
       /\ Owned(p)' = Owned(p)
  BY <1>10, HarmlessElsewhere
<1>12. /\ pc'[p] = place /\ working'[p] = proj /\ lastReported'[p] = Owned(p)
       /\ lastSynced'[p] = <<Reported(p, proj, clocks)>>
       /\ \A q \in Partition \ {p} : lastSynced'[q] = lastSynced[q]
  BY <1>1, <1>3, <1>7 DEF TickTypes, RouterTypes, Goto, WorkOn, RouterHasReported
<1>13. Receipts'
  <2>1. \A a \in DOMAIN proj : proj[a].age <= clock[p] /\ proj[a].facts \subseteq FactsOf(a)
    BY <1>1, <1>3 DEF Current, TickTypes
  <2>2. \A a \in DOMAIN pendingMoves' :
          /\ a \in DOMAIN pendingMoves
          /\ owner[a] # p => records'[a] = records[a]
          /\ owner[a] = p => records'[a] = Current(a, p)
    BY <1>1, <1>8, <1>9 DEF Owned, AuthorityTypes
  <2>3. \E d \in receipts' : d.partition = p /\ lastSynced'[p] = <<d.state>>
    BY <1>8, <1>9, <1>12
  <2>4. clock' = clock /\ owner' = owner /\ receipts \subseteq receipts'
        /\ \A d \in receipts' :
             d \in receipts \/ (d.partition = p /\ d.state.agents = proj)
    BY <1>8, <1>9
  <2> QED
    BY <1>1, <1>11, <1>12, <2>1, <2>2, <2>3, <2>4, ReceiptsKept
<1>14. View(p)' /\ Pending(p)' = {}
  <2>1. /\ Pending(p)' = {}
        /\ Taken(p)' = [proj |-> Taken(p).proj, entries |-> Taken(p).entries,
                        outcome |-> "taken"]
    BY <1>1, <1>3, <1>7, <1>8, <1>9, ViewRead
  <2>2. Taken(p)'.proj = proj /\ Taken(p)'.outcome = "taken"
    BY <1>2, <2>1
  <2> QED
    BY <1>3, <1>11, <2>1, <2>2 DEF View
<1> QED
  BY <1>3, <1>8, <1>9, <1>10, <1>11, <1>12, <1>13, <1>14

(* What a publication leaves of a partition that is between two ticks.     *)
LEMMA BoundHolds ==
  ASSUME NEW p \in Partition, Bound(p), pc[p] \notin InTick,
         UNCHANGED <<now, clock>>, ticked'[p] = ticked[p], boundary'[p] = boundary[p],
         Owned(p)' = Owned(p), DOMAIN pendingMoves' = DOMAIN pendingMoves,
         \A a : FactsOf(a)' = FactsOf(a) /\ Current(a, p)' = Current(a, p),
         recovering'[p] \/ pc'[p] \in {"waiting", "failed"} =>
           lastReported'[p] \subseteq DOMAIN boundary[p].proj
  PROVE  Bound(p)'
BY DEF Bound

LEMMA WorkingOnAll ==
  ASSUME NEW p, DOMAIN working'[p] = Owned(p)',
         \A a \in Owned(p)' : working'[p][a] = Current(a, p)'
  PROVE  Working(p)'
<1>1. \A a \in Owned(p)' :
        working'[p][a].age = clock'[p] /\ working'[p][a].facts = FactsOf(a)'
  <2> SUFFICES ASSUME NEW a \in Owned(p)'
               PROVE  working'[p][a].age = clock'[p] /\ working'[p][a].facts = FactsOf(a)'
    OBVIOUS
  <2>1. Current(a, p)' = [age |-> clock'[p], facts |-> FactsOf(a)']
    BY DEF Current
  <2>2. working'[p][a] = Current(a, p)'
    OBVIOUS
  <2>3. working'[p][a] = [age |-> clock'[p], facts |-> FactsOf(a)']
    BY <2>1, <2>2
  <2> QED
    BY <2>3
<1> QED
  BY <1>1 DEF Working

LEMMA PreTickWhole ==
  ASSUME InboxInv, Timing, Streams, Whole, crashes = 0, NEW p \in Partition, PreTick(p),
         ~recovering[p]
  PROVE  Whole'
<1> DEFINE place == IF now < Target(p) THEN "waiting" ELSE "ready"
           clocks == {ClockOf(p)}
<1>1. /\ pc[p] = "start" /\ MaterializeAndPublish(p, boundary[p].proj, clocks, place)
      /\ UNCHANGED <<clock, lifecycle, agenda, recovering, faults>>
  BY DEF PreTick
<1>2. /\ InboxTypesInv /\ TailOfTick(p) /\ PublishedTicks(p)
      /\ Calm(p) /\ Bound(p)
  BY DEF InboxInv, Timing, Whole, PartitionWhole
<1>3. ClockOf(p) = ticked[p] /\ Target(p) = ticked[p] + 1 /\ clock[p] = ticked[p]
  BY <1>1, <1>2, ClockAtStart
<1>4. ticked[p] <= published[p] /\ published[p] <= ticked[p] /\ published[p] <= now
  BY <1>1, <1>2, Numbers DEF PublishedTicks
<1>5. \A c \in clocks : ~(c < published[p])
  BY <1>2, <1>3, <1>4, Numbers
<1>6. PICK there : there = place
  OBVIOUS
<1> HIDE DEF clocks
<1>7. /\ Harmless(p) /\ pc'[p] = there
      /\ Owners' /\ OperationsPlain' /\ Receipts'
      /\ \A q \in Partition \ {p} : PartitionWhole(q)'
      /\ View(p)' /\ Pending(p)' = {}
      /\ DOMAIN working'[p] = Owned(p)'
      /\ \A a \in Owned(p)' : working'[p][a] = Current(a, p)'
      /\ \A a \in Owned(p)' \cap DOMAIN pendingMoves' : records'[a] = Current(a, p)'
      /\ lastReported'[p] = Owned(p)'
      /\ \A a : FactsOf(a)' = FactsOf(a) /\ Current(a, p)' = Current(a, p)
      /\ Owned(p)' = Owned(p)
  <2>1. MaterializeAndPublish(p, boundary[p].proj, clocks, there)
    BY <1>1, <1>6
  <2> QED
    BY <1>1, <1>5, <2>1, PublishWhole
<1>8. there \in {"waiting", "ready"}
  BY <1>6
<1>9. ~HasTime(tail'[p])
  <2>1. Materializes(p)
    BY <1>1 DEF Materializes, MaterializeAndPublish
  <2>2. ~HasTime(tail[p])
    BY <1>1, <1>2 DEF Calm, InTick
  <2> QED
    BY <1>2, <2>1, <2>2, MaterializesTail
<1>10. Calm(p)'
  <2>1. \A t \in Pending(p)' : operations'[t].kind # "advance"
    BY <1>7
  <2>2. ~recovering'[p]
    BY <1>7 DEF Harmless
  <2>3. pc'[p] \notin InTick /\ pc'[p] \notin {"poisoned", "finished"}
    BY <1>7, <1>8 DEF InTick
  <2> QED
    BY <1>9, <2>1, <2>2, <2>3 DEF Calm
<1>11. Working(p)'
  BY <1>7, WorkingOnAll
<1>12. Bound(p)'
  <2>1. pc'[p] \in {"waiting", "failed"} => Owned(p) \subseteq DOMAIN boundary[p].proj
    <3> SUFFICES ASSUME there = "waiting"
                 PROVE  Owned(p) = DOMAIN boundary[p].proj
      BY <1>7, <1>8
    <3>1. now < ticked[p] + 1
      BY <1>3, <1>6
    <3>2. now = ticked[p]
      BY <1>2, <1>4, <3>1, Numbers
    <3> QED
      BY <1>1, <1>2, <3>2 DEF Bound, InTick
  <2>2. ~recovering'[p]
    BY <1>7 DEF Harmless
  <2>3. pc[p] \notin InTick
    BY <1>1 DEF InTick
  <2> QED
    BY <1>2, <1>7, <2>1, <2>2, <2>3, BoundHolds DEF Harmless
<1>13. RecordsOf(p)'
  BY <1>7 DEF RecordsOf
<1>14. PartitionWhole(p)'
  BY <1>7, <1>10, <1>11, <1>12, <1>13 DEF PartitionWhole
<1> QED
  BY <1>7, <1>14 DEF Whole

LEMMA DrainWhole ==
  ASSUME InboxInv, Timing, Streams, Whole, crashes = 0, NEW p \in Partition,
         DrainAfterCycle(p) \/ FinishTick(p)
  PROVE  Whole'
<1>1. /\ InboxTypesInv /\ TailOfTick(p) /\ PublishedTicks(p)
      /\ Calm(p) /\ Bound(p)
  BY DEF InboxInv, Timing, Whole, PartitionWhole
<1>2. /\ pc[p] \in {"drain", "body"} /\ pc[p] \in InTick
      /\ UNCHANGED <<clock, lifecycle, agenda, recovering, faults>>
  BY DEF DrainAfterCycle, FinishTick, InTick
<1>3. ~recovering[p] /\ HasTime(tail[p])
  BY <1>1, <1>2 DEF Calm
<1>4. PICK clocks, there :
        /\ clocks \in {{}, {clock[p]}} /\ there \in {"body", "finished"}
        /\ MaterializeAndPublish(p, working[p], clocks, there)
  <2>1. CASE DrainAfterCycle(p)
    BY <2>1 DEF DrainAfterCycle
  <2>2. CASE FinishTick(p)
    BY <1>3, <2>2 DEF FinishTick
  <2> QED
    BY <2>1, <2>2
<1>5. \A c \in clocks : ~(c < published[p])
  <2>1. clock[p] = ticked[p] + 1 /\ published[p] <= ticked[p] + 1
    BY <1>1, <1>3, Numbers DEF TailOfTick, PublishedTicks
  <2> QED
    BY <1>1, <1>4, <2>1, Numbers
<1>6. /\ Harmless(p) /\ pc'[p] = there
      /\ Owners' /\ OperationsPlain' /\ Receipts'
      /\ \A q \in Partition \ {p} : PartitionWhole(q)'
      /\ View(p)' /\ Pending(p)' = {}
      /\ DOMAIN working'[p] = Owned(p)'
      /\ \A a \in Owned(p)' : working'[p][a] = Current(a, p)'
      /\ \A a \in Owned(p)' \cap DOMAIN pendingMoves' : records'[a] = Current(a, p)'
      /\ lastReported'[p] = Owned(p)'
      /\ \A a : FactsOf(a)' = FactsOf(a) /\ Current(a, p)' = Current(a, p)
      /\ Owned(p)' = Owned(p)
  BY <1>2, <1>3, <1>4, <1>5, PublishWhole
<1>7. HasTime(tail'[p])
  <2>1. Materializes(p)
    BY <1>4 DEF Materializes, MaterializeAndPublish
  <2> QED
    BY <1>1, <1>3, <2>1, MaterializesTail
<1>8. Calm(p)'
  <2>1. \A t \in Pending(p)' : operations'[t].kind # "advance"
    BY <1>6
  <2>2. ~recovering'[p]
    BY <1>3, <1>6 DEF Harmless
  <2>3. pc'[p] \in InTick /\ pc'[p] # "poisoned"
    BY <1>4, <1>6 DEF InTick
  <2> QED
    BY <1>6, <1>7, <2>1, <2>2, <2>3 DEF Calm
<1>9. Working(p)' /\ RecordsOf(p)'
  BY <1>6, WorkingOnAll DEF RecordsOf
<1>10. Bound(p)'
  <2>1. pc'[p] \in InTick /\ ~recovering'[p] /\ pc'[p] \notin {"waiting", "failed"}
    BY <1>3, <1>4, <1>6 DEF InTick, Harmless
  <2>2. \A a \in DOMAIN boundary'[p].proj :
          /\ boundary'[p].proj[a].age <= clock'[p]
          /\ boundary'[p].proj[a].facts \subseteq FactsOf(a)'
    BY <1>1, <1>6 DEF Bound, Harmless
  <2> QED
    BY <2>1, <2>2 DEF Bound
<1>11. PartitionWhole(p)'
  BY <1>6, <1>8, <1>9, <1>10 DEF PartitionWhole
<1> QED
  BY <1>6, <1>11 DEF Whole

(* A recovered start publishes what its boundary had, and takes nothing.   *)
LEMMA RecoveredPreTickWhole ==
  ASSUME InboxInv, Timing, Streams, Whole, crashes = 0, NEW p \in Partition, PreTick(p),
         recovering[p]
  PROVE  Whole'
<1> DEFINE place == IF now < Target(p) THEN "waiting" ELSE "ready"
<1>1. PICK clocks, there :
        /\ there \in {"waiting", "ready"}
        /\ MaterializeAndPublish(p, boundary[p].proj, clocks, there)
  <2>1. MaterializeAndPublish(p, boundary[p].proj, {ClockOf(p)}, place)
    BY DEF PreTick
  <2>2. place \in {"waiting", "ready"}
    OBVIOUS
  <2> HIDE DEF place
  <2> QED
    BY <2>1, <2>2
<1>2. pc[p] = "start" /\ UNCHANGED <<clock, lifecycle, agenda, recovering, faults>>
  BY DEF PreTick
<1>3. /\ InboxTypesInv /\ AuthorityTypes /\ InboxTypes /\ TickTypes /\ RouterTypes
      /\ Owners /\ OperationsPlain /\ Receipts
      /\ View(p) /\ Calm(p) /\ Bound(p) /\ RecordsOf(p) /\ PartitionWhole(p)
  BY DEF InboxInv, InboxTypesInv, Whole, PartitionWhole
<1>4. PICK proj : proj = boundary[p].proj
  OBVIOUS
<1>5. /\ proj \in World
      /\ \A a \in DOMAIN proj : proj[a].age <= clock[p] /\ proj[a].facts \subseteq FactsOf(a)
      /\ \A a \in Owned(p) \cap DOMAIN pendingMoves :
           a \in DOMAIN proj /\ proj[a] = Current(a, p)
      /\ lastReported[p] \subseteq DOMAIN proj
  BY <1>2, <1>3, <1>4 DEF Bound, InTick, TickTypes
<1>6. LeftTown(p, proj) = {}
  BY <1>5 DEF LeftTown
<1>7. PICK state : state = AfterReport(p, proj, clocks)
  OBVIOUS
<1>8. /\ UNCHANGED <<operations, now, inbox, tail>> /\ WorkOn(p, proj)
      /\ \/ UNCHANGED <<authorityState, router>> /\ Goto(p, "failed")
         \/ /\ ~IsRefused(p, proj, clocks) /\ Goto(p, there)
            /\ AuthorityBecomes(state) /\ RouterHasReported(p, proj, clocks)
  BY <1>1, <1>4, <1>7 DEF MaterializeAndPublish, Published
<1>9. /\ \A q \in Partition \ {p} :
           /\ projection'[q] = projection[q] /\ stream'[q] = stream[q]
           /\ cursor'[q] = cursor[q] /\ tail'[q] = tail[q] /\ pc'[q] = pc[q]
           /\ working'[q] = working[q]
      /\ projection'[p] = projection[p] /\ stream'[p] = stream[p]
      /\ cursor'[p] = cursor[p] /\ tail'[p] = tail[p] /\ recovering'[p]
      /\ boundary' = boundary /\ ticked' = ticked /\ clock' = clock /\ crashes' = crashes
  BY <1>2, <1>3, <1>8 DEF TickTypes, Goto, WorkOn, inbox, lifecycle, faults
<1>10. /\ Harmless(p) /\ Receipts' /\ pc'[p] \in {"failed", "waiting", "ready"}
       /\ \A a \in Owned(p) \cap DOMAIN pendingMoves : records'[a] = Current(a, p)
       /\ lastReported'[p] \subseteq DOMAIN proj
  <2>1. CASE UNCHANGED <<authorityState, router>> /\ Goto(p, "failed")
    <3>1. UNCHANGED <<owner, pendingMoves, records, receipts, lastSynced, lastReported>>
          /\ pc'[p] = "failed"
      BY <1>3, <2>1 DEF authorityState, router, Goto, TickTypes
    <3>2. Harmless(p)
      BY <1>2, <1>8, <1>9, <3>1 DEF Harmless
    <3>3. Receipts'
      <4>1. \A a : FactsOf(a)' = FactsOf(a)
        BY <1>8, FactsStay
      <4>2. \A a, q : Current(a, q)' = Current(a, q)
        BY <1>9, <4>1 DEF Current
      <4> QED
        BY <1>3, <1>9, <3>1, <4>1, <4>2 DEF Receipts
    <3> QED
      BY <1>2, <1>3, <1>5, <3>1, <3>2, <3>3 DEF RecordsOf
  <2>2. CASE /\ ~IsRefused(p, proj, clocks) /\ Goto(p, there)
             /\ AuthorityBecomes(state) /\ RouterHasReported(p, proj, clocks)
    <3>1. /\ state.owner = owner
          /\ DOMAIN state.pendingMoves = DOMAIN pendingMoves
          /\ \A a \in DOMAIN pendingMoves : state.pendingMoves[a] = pendingMoves[a]
          /\ \A a \in Agent : owner[a] # p => state.records[a] = records[a]
          /\ \A a \in Owned(p) \cap DOMAIN pendingMoves : state.records[a] = Current(a, p)
          /\ receipts \subseteq state.receipts
          /\ \A d \in state.receipts :
               d \in receipts \/ (d.partition = p /\ d.state.agents = proj)
          /\ \E d \in state.receipts :
               d.partition = p /\ d.state = Reported(p, proj, clocks)
      BY <1>3, <1>5, <1>6, <1>7, <2>2, ReportHolds
    <3>2. /\ owner' = state.owner /\ pendingMoves' = state.pendingMoves
          /\ records' = state.records /\ receipts' = state.receipts
      BY <2>2 DEF AuthorityBecomes
    <3>3. /\ pc'[p] = there /\ lastReported'[p] = DOMAIN proj
          /\ lastSynced'[p] = <<Reported(p, proj, clocks)>>
          /\ \A q \in Partition \ {p} :
               lastReported'[q] = lastReported[q] /\ lastSynced'[q] = lastSynced[q]
      BY <1>3, <2>2 DEF RouterTypes, TickTypes, RouterHasReported, Goto
    <3>4. Harmless(p)
      BY <1>2, <1>8, <1>9, <3>1, <3>2, <3>3 DEF Harmless
    <3>5. Receipts'
      <4>1. \A a : FactsOf(a) \subseteq FactsOf(a)'
        BY <1>8, FactsStay
      <4>2. \A a \in DOMAIN pendingMoves' :
              /\ a \in DOMAIN pendingMoves
              /\ owner[a] # p => records'[a] = records[a]
              /\ owner[a] = p => records'[a] = Current(a, p)
        BY <1>3, <3>1, <3>2 DEF Owned, AuthorityTypes
      <4>3. \E d \in receipts' : d.partition = p /\ lastSynced'[p] = <<d.state>>
        BY <3>1, <3>2, <3>3
      <4>4. owner' = owner /\ clock' = clock /\ receipts \subseteq receipts'
            /\ \A d \in receipts' :
                 d \in receipts \/ (d.partition = p /\ d.state.agents = proj)
        BY <1>9, <3>1, <3>2
      <4>5. \A q \in Partition \ {p} : lastSynced'[q] = lastSynced[q]
        BY <3>3
      <4> HIDE DEF place
      <4> QED
        BY <1>3, <1>5, <4>1, <4>2, <4>3, <4>4, <4>5, ReceiptsKept
    <3> QED
      BY <1>1, <3>1, <3>2, <3>3, <3>4, <3>5
  <2> QED
    BY <1>8, <2>1, <2>2
<1>11. /\ Owners' /\ OperationsPlain'
       /\ \A q \in Partition \ {p} : PartitionWhole(q)'
       /\ \A a : FactsOf(a)' = FactsOf(a) /\ Current(a, p)' = Current(a, p)
       /\ Owned(p)' = Owned(p)
  BY <1>10, HarmlessElsewhere
<1>12. View(p)'
  BY <1>3, <1>8, <1>9, <1>10, ViewKept DEF Harmless
<1>13. Calm(p)'
  <2>1. ~HasTime(tail'[p])
    BY <1>2, <1>3, <1>9 DEF Calm, InTick
  <2>2. pc'[p] \notin InTick /\ pc'[p] \notin {"poisoned", "finished"}
    BY <1>10 DEF InTick
  <2> QED
    BY <1>9, <2>1, <2>2 DEF Calm
<1>14. Working(p)'
  BY <1>9 DEF Working
<1>15. Bound(p)'
  <2>1. DOMAIN pendingMoves' = DOMAIN pendingMoves /\ pc[p] \notin InTick
    BY <1>2, <1>10 DEF Harmless, InTick
  <2> QED
    BY <1>3, <1>4, <1>8, <1>9, <1>10, <1>11, <2>1, BoundHolds
<1>16. RecordsOf(p)'
  BY <1>10, <1>11 DEF RecordsOf, Harmless
<1>17. PartitionWhole(p)'
  BY <1>12, <1>13, <1>14, <1>15, <1>16 DEF PartitionWhole
<1> QED
  BY <1>10, <1>11, <1>17 DEF Whole

(* Who leaves the barrier has read its inbox again, unless it recovers.    *)
LEMMA FindAdvancedWhole ==
  ASSUME InboxInv, Timing, Streams, Whole, crashes = 0, NEW p \in Partition,
         FindAdvanced(p)
  PROVE  Whole'
<1>1. /\ pc[p] = "waiting" /\ LeaveBarrier(p)
      /\ UNCHANGED <<authorityState, operations, now, clock, lifecycle, agenda,
                     recovering, router, faults>>
  BY DEF FindAdvanced
<1>2. /\ InboxTypesInv /\ AuthorityTypes /\ InboxTypes /\ TickTypes /\ RouterTypes
      /\ Owners /\ OperationsPlain /\ Receipts
      /\ View(p) /\ Calm(p) /\ Bound(p) /\ RecordsOf(p) /\ PartitionWhole(p)
  BY DEF InboxInv, InboxTypesInv, Whole, PartitionWhole
<1>3. PICK proj : proj = Taken(p).proj
  OBVIOUS
<1>4. /\ Taken(p).outcome = "taken" /\ DOMAIN proj = Owned(p)
      /\ \A a \in Owned(p) : proj[a] = Current(a, p)
  BY <1>2, <1>3 DEF View
<1>5. /\ Goto(p, "ready") /\ Materializes(p)
      /\ recovering[p] => UNCHANGED <<inbox, tail, working>>
      /\ ~recovering[p] => StreamsTaken(p, Taken(p)) /\ WorkOn(p, proj)
  BY <1>1, <1>3, <1>4 DEF LeaveBarrier, Materializes
<1>6. /\ UNCHANGED <<owner, pendingMoves, records, receipts, lastSynced, lastReported>>
      /\ UNCHANGED <<boundary, ticked, crashes>> /\ pc'[p] = "ready"
  BY <1>1, <1>2, <1>5 DEF authorityState, router, lifecycle, faults, Goto, TickTypes
<1>7. \A q \in Partition \ {p} :
        /\ projection'[q] = projection[q] /\ stream'[q] = stream[q]
        /\ cursor'[q] = cursor[q] /\ pc'[q] = pc[q] /\ working'[q] = working[q]
  BY <1>2, <1>5 DEF StreamsTaken, WorkOn, Goto, InboxTypes, TickTypes, inbox
<1>8. /\ \A q \in Partition \ {p} : tail'[q] = tail[q]
      /\ HasTime(tail'[p]) <=> HasTime(tail[p])
  BY <1>2, <1>5, MaterializesTail
<1>9. Harmless(p)
  BY <1>1, <1>6, <1>7, <1>8 DEF Harmless
<1>10. /\ Owners' /\ OperationsPlain'
       /\ \A q \in Partition \ {p} : PartitionWhole(q)'
       /\ \A a : FactsOf(a)' = FactsOf(a) /\ Current(a, p)' = Current(a, p)
       /\ Owned(p)' = Owned(p)
  BY <1>9, HarmlessElsewhere
<1>11. Receipts'
  <2>1. \A a, q : Current(a, q)' = Current(a, q)
    BY <1>1, <1>10 DEF Current
  <2> QED
    BY <1>1, <1>2, <1>6, <1>10, <2>1 DEF Receipts
<1>12. View(p)' /\ (~recovering[p] => Pending(p)' = {})
  <2>1. CASE recovering[p]
    BY <1>1, <1>2, <1>5, <1>6, <2>1, ViewKept DEF inbox
  <2>2. CASE ~recovering[p]
    <3>1. /\ Pending(p)' = {}
          /\ Taken(p)' = [proj |-> Taken(p).proj, entries |-> Taken(p).entries,
                          outcome |-> "taken"]
      BY <1>1, <1>2, <1>4, <1>5, <1>6, <2>2, ViewRead
    <3>2. Taken(p)'.proj = proj /\ Taken(p)'.outcome = "taken"
      BY <1>3, <3>1
    <3> QED
      BY <1>4, <1>10, <2>2, <3>1, <3>2 DEF View
  <2> QED
    BY <2>1, <2>2
<1>13. Calm(p)'
  <2>1. ~HasTime(tail'[p])
    BY <1>1, <1>2, <1>8 DEF Calm, InTick
  <2>2. pc'[p] \notin InTick /\ pc'[p] \notin {"poisoned", "finished"}
    BY <1>6 DEF InTick
  <2>3. ~recovering'[p] => \A t \in Pending(p)' : operations'[t].kind # "advance"
    BY <1>1, <1>12
  <2> QED
    BY <2>1, <2>2, <2>3 DEF Calm
<1>14. Working(p)'
  <2>1. CASE recovering[p]
    BY <1>1, <2>1 DEF Working
  <2>2. CASE ~recovering[p]
    <3>1. working'[p] = proj
      BY <1>2, <1>5, <2>2 DEF WorkOn, TickTypes
    <3> QED
      BY <1>4, <1>10, <3>1, WorkingOnAll
  <2> QED
    BY <2>1, <2>2
<1>15. Bound(p)'
  <2>1. DOMAIN pendingMoves' = DOMAIN pendingMoves /\ pc[p] \notin InTick
    BY <1>1, <1>6 DEF InTick
  <2>2. recovering'[p] \/ pc'[p] \in {"waiting", "failed"} =>
          lastReported'[p] \subseteq DOMAIN boundary[p].proj
    BY <1>1, <1>2, <1>6 DEF Bound
  <2> QED
    BY <1>1, <1>2, <1>6, <1>10, <2>1, <2>2, BoundHolds
<1>16. RecordsOf(p)'
  BY <1>1, <1>2, <1>6, <1>10 DEF RecordsOf
<1>17. PartitionWhole(p)'
  BY <1>12, <1>13, <1>14, <1>15, <1>16 DEF PartitionWhole
<1> QED
  BY <1>10, <1>11, <1>17 DEF Whole

(* A time event ages whoever is in the town, read or still to be read.     *)
LEMMA AppendTimeWhole ==
  ASSUME InboxInv, Timing, Streams, Whole, crashes = 0, NEW p \in Partition,
         AppendTime(p)
  PROVE  Whole'
<1>1. /\ pc[p] = "ready"
      /\ UNCHANGED <<operations, now, stream, cursor, boundary, ticked,
                     recovering, crashes, owner, pendingMoves, records, receipts,
                     lastSynced, lastReported>>
  BY DEF AppendTime, authorityState, lifecycle, router, faults
<1>2. /\ InboxTypesInv /\ AuthorityTypes /\ InboxTypes /\ TickTypes /\ RouterTypes
      /\ Owners /\ OperationsPlain /\ Receipts /\ TailOfTick(p)
      /\ View(p) /\ Calm(p) /\ Working(p) /\ Bound(p) /\ RecordsOf(p) /\ PartitionWhole(p)
  BY DEF InboxInv, InboxTypesInv, Whole, PartitionWhole, Timing
<1>3. ~HasTime(tail[p]) /\ tail[p] \in Seq({"time", "delivery"})
  BY <1>1, <1>2, Numbers DEF Calm, InTick
<1>4. \A a : FactsOf(a)' = FactsOf(a)
  BY <1>1, FactsStay
<1>5. Owners' /\ OperationsPlain' /\ Owned(p)' = Owned(p)
  BY <1>1, <1>2 DEF Owners, OperationsPlain, Owned
<1>6. CASE recovering[p]
  <2>1. tail[p] # <<>>
    BY <1>2, <1>6 DEF TailOfTick
  <2>2. Head(tail[p]) # "time"
    BY <1>3, <2>1 DEF HasTime
  <2>3. Goto(p, "failed") /\ UNCHANGED <<projection, clock, tail, working, agenda>>
    BY <1>6, <2>1, <2>2 DEF AppendTime
  <2>4. pc'[p] = "failed" /\ \A q \in Partition \ {p} : pc'[q] = pc[q]
    BY <1>2, <2>3 DEF Goto, TickTypes
  <2>5. Harmless(p)
    BY <1>1, <2>3, <2>4 DEF Harmless
  <2>6. /\ \A q \in Partition \ {p} : PartitionWhole(q)'
        /\ \A a : Current(a, p)' = Current(a, p)
    BY <2>5, HarmlessElsewhere
  <2>7. Receipts'
    <3>1. \A a, q : Current(a, q)' = Current(a, q)
      BY <1>4, <2>3 DEF Current
    <3> QED
      BY <1>1, <1>2, <1>4, <2>3, <3>1 DEF Receipts
  <2>8. View(p)'
    BY <1>1, <1>2, <2>3, ViewKept
  <2>9. Calm(p)' /\ Working(p)'
    <3>1. ~HasTime(tail'[p])
      BY <1>3, <2>3
    <3>2. pc'[p] \notin InTick
          /\ pc'[p] \notin {"poisoned", "finished", "ready", "body"}
      BY <2>4 DEF InTick
    <3> QED
      BY <3>1, <3>2 DEF Calm, Working
  <2>10. Bound(p)'
    <3>1. pc[p] \notin InTick
      BY <1>1 DEF InTick
    <3>2. lastReported'[p] \subseteq DOMAIN boundary[p].proj
      BY <1>1, <1>2, <1>6 DEF Bound
    <3> QED
      BY <1>1, <1>2, <1>4, <1>5, <2>3, <2>6, <3>1, <3>2, BoundHolds
  <2>11. RecordsOf(p)'
    BY <1>1, <1>2, <1>5, <2>6 DEF RecordsOf
  <2>12. PartitionWhole(p)'
    BY <2>8, <2>9, <2>10, <2>11 DEF PartitionWhole
  <2> QED
    BY <1>5, <2>6, <2>7, <2>12 DEF Whole
<1>7. CASE ~recovering[p]
  <2>1. /\ Goto(p, "body") /\ WorkOn(p, AgedBy(working[p], 1))
        /\ projection' = [projection EXCEPT ![p] = AgedBy(projection[p], 1)]
        /\ clock' = [clock EXCEPT ![p] = clock[p] + 1]
        /\ tail' = [tail EXCEPT ![p] = Append(tail[p], "time")]
    BY <1>7 DEF AppendTime
  <2>2. /\ pc'[p] = "body" /\ working'[p] = AgedBy(working[p], 1)
        /\ projection'[p] = AgedBy(projection[p], 1) /\ clock'[p] = clock[p] + 1
        /\ tail'[p] = Append(tail[p], "time") /\ ~recovering'[p]
        /\ clock[p] \in Nat /\ clock'[p] \in Nat /\ ~(clock'[p] <= clock[p])
        /\ \A q \in Partition \ {p} :
             /\ pc'[q] = pc[q] /\ working'[q] = working[q] /\ tail'[q] = tail[q]
             /\ projection'[q] = projection[q] /\ clock'[q] = clock[q]
    BY <1>1, <1>2, <1>7, <2>1, Numbers DEF Goto, WorkOn, TickTypes, InboxTypes
  <2>3. \A q \in Partition \ {p} : PartitionWhole(q)'
    <3> SUFFICES ASSUME NEW q \in Partition \ {p} PROVE PartitionWhole(q)'
      OBVIOUS
    <3>1. PartitionWhole(q) /\ StreamOf(q)
      BY DEF Whole, Streams
    <3> QED
      BY <1>1, <2>2, <3>1, ElsewhereWhole
  <2>4. \A a : Current(a, p)' = [age |-> clock[p] + 1, facts |-> FactsOf(a)]
    <3> TAKE a
    <3>1. Current(a, p)' = [age |-> clock'[p], facts |-> FactsOf(a)']
      BY DEF Current
    <3> QED
      BY <1>4, <2>2, <3>1
  <2>5. ASSUME NEW proj, NEW a \in DOMAIN proj, proj[a] = Current(a, p)
        PROVE  AgedBy(proj, 1)[a] = Current(a, p)'
    <3>1. proj[a] = [age |-> clock[p], facts |-> FactsOf(a)]
      BY <2>5 DEF Current
    <3>2. [proj[a] EXCEPT !.age = @ + 1] = [age |-> clock[p] + 1, facts |-> FactsOf(a)]
      BY <3>1
    <3> QED
      BY <2>4, <2>5, <3>2 DEF AgedBy
  <2>6. Receipts'
    <3>1. ASSUME NEW d \in receipts, NEW a \in DOMAIN d.state.agents
          PROVE  /\ d.state.agents[a].age <= clock'[d.partition]
                 /\ d.state.agents[a].facts \subseteq FactsOf(a)'
                 /\ /\ a \in DOMAIN pendingMoves' /\ owner'[a] = d.partition
                    /\ d.state.agents[a] = Current(a, d.partition)'
                    => records'[a] = d.state.agents[a]
      <4>1. /\ d.partition \in Partition /\ d.state.agents[a].age \in Nat
            /\ d.state.agents[a].age <= clock[d.partition]
            /\ d.state.agents[a].facts \subseteq FactsOf(a)
            /\ /\ a \in DOMAIN pendingMoves /\ owner[a] = d.partition
               /\ d.state.agents[a] = Current(a, d.partition)
               => records[a] = d.state.agents[a]
        BY <1>2, ReceiptTyped DEF Receipts
      <4>2. CASE d.partition = p
        <5>1. d.state.agents[a].age # clock'[p] /\ d.state.agents[a].age <= clock'[p]
          BY <2>2, <4>1, <4>2
        <5>2. Current(a, p)'.age = clock'[p]
          BY <2>2, <2>4
        <5> QED
          BY <1>4, <4>1, <4>2, <5>1, <5>2
      <4>3. CASE d.partition # p
        <5>1. clock'[d.partition] = clock[d.partition]
          BY <2>2, <4>1, <4>3
        <5>2. Current(a, d.partition)' = Current(a, d.partition)
          BY <1>4, <5>1 DEF Current
        <5> QED
          BY <1>1, <1>4, <4>1, <5>1, <5>2
      <4> QED
        BY <4>2, <4>3
    <3>2. \A q \in Partition : lastSynced'[q] # <<>> =>
            \E d \in receipts' : d.partition = q /\ lastSynced'[q] = <<d.state>>
      BY <1>1, <1>2 DEF Receipts
    <3> QED
      BY <1>1, <3>1, <3>2 DEF Receipts
  <2>7. \A t \in Pending(p) : /\ operations[t].kind # "advance"
                              /\ \E agents \in SUBSET Agent :
                                   DeliveryOf(t, p) = <<Settled(t, agents)>>
    <3> SUFFICES ASSUME NEW t \in Pending(p)
                 PROVE  /\ operations[t].kind # "advance"
                        /\ \E agents \in SUBSET Agent :
                             DeliveryOf(t, p) = <<Settled(t, agents)>>
      OBVIOUS
    <3>1. operations[t].kind # "advance" /\ t \in DOMAIN operations
          /\ DeliveryOf(t, p) # <<>>
      BY <1>1, <1>2, <1>7 DEF Calm, Pending
    <3>2. operations[t] \in Operation
      BY <1>2, <3>1 DEF AuthorityTypes
    <3>3. operations[t].to[p] \in Seq(Event) /\ operations[t].parties \in SUBSET Agent
      BY <3>2 DEF Operation
    <3>4. DeliveryOf(t, p) = operations[t].to[p]
      BY <3>1, <3>3, DeliveryPlain
    <3>5. operations[t].to[p] \in {<<>>, <<Settled(t, operations[t].parties)>>}
      BY <1>2, <3>1 DEF OperationsPlain
    <3> QED
      BY <3>1, <3>3, <3>4, <3>5
  <2>8. Taken(p)' = Older(Taken(p))
    BY <1>1, <1>2, <2>2, <2>7, ViewAges
  <2>9. View(p)'
    <3>1. PICK proj : proj = Taken(p).proj
      OBVIOUS
    <3>2. /\ DOMAIN proj = Owned(p) /\ Taken(p).outcome = "taken"
          /\ \A a \in Owned(p) : proj[a] = Current(a, p)
      BY <1>2, <3>1 DEF View
    <3>3. Taken(p)'.proj = AgedBy(proj, 1) /\ Taken(p)'.outcome = "taken"
      BY <2>8, <3>1, <3>2 DEF Older
    <3>4. DOMAIN AgedBy(proj, 1) = Owned(p)
      BY <3>2 DEF AgedBy
    <3>5. \A a \in Owned(p) : AgedBy(proj, 1)[a] = Current(a, p)'
      BY <2>5, <3>2
    <3> QED
      BY <1>5, <3>3, <3>4, <3>5 DEF View
  <2>10. Calm(p)'
    <3>1. HasTime(tail'[p])
      <4>1. /\ Len(tail[p]) \in Nat /\ Len(tail'[p]) = Len(tail[p]) + 1
            /\ tail'[p][Len(tail[p]) + 1] = "time"
        BY <1>3, <2>2
      <4> QED
        BY <4>1 DEF HasTime
    <3>2. Pending(p)' = Pending(p)
      <4>1. \A t : DeliveryOf(t, p)' = DeliveryOf(t, p)
        BY <1>1, DeliveryStays
      <4> QED
        BY <1>1, <4>1 DEF Pending
    <3>3. \A t \in Pending(p)' : operations'[t].kind # "advance"
      BY <1>1, <2>7, <3>2
    <3>4. pc'[p] \in InTick /\ pc'[p] \notin {"poisoned", "finished"}
      BY <2>2 DEF InTick
    <3> QED
      BY <2>2, <3>1, <3>3, <3>4 DEF Calm
  <2>11. Working(p)'
    <3>1. /\ DOMAIN working[p] = Owned(p)
          /\ \A a \in Owned(p) :
               working[p][a].age = clock[p] /\ working[p][a].facts \subseteq FactsOf(a)
          /\ \A a \in Owned(p) \cap DOMAIN pendingMoves : working[p][a] = Current(a, p)
      BY <1>1, <1>2, <1>7 DEF Working
    <3>2. DOMAIN working'[p] = Owned(p)
      BY <2>2, <3>1 DEF AgedBy
    <3>3. \A a \in Owned(p) : working'[p][a].age = clock'[p]
            /\ working'[p][a].facts \subseteq FactsOf(a)
      <4> SUFFICES ASSUME NEW a \in Owned(p)
                   PROVE  /\ working'[p][a].age = clock'[p]
                          /\ working'[p][a].facts \subseteq FactsOf(a)
        OBVIOUS
      <4>1. working'[p][a] = [working[p][a] EXCEPT !.age = @ + 1]
        BY <2>2, <3>1 DEF AgedBy
      <4>2. working[p][a] \in Rec
        BY <1>2, <3>1, Worlds DEF TickTypes
      <4>3. [working[p][a] EXCEPT !.age = @ + 1].age = working[p][a].age + 1
            /\ [working[p][a] EXCEPT !.age = @ + 1].facts = working[p][a].facts
        BY <4>2 DEF Rec
      <4> QED
        BY <2>2, <3>1, <4>1, <4>3
    <3>4. \A a \in Owned(p) \cap DOMAIN pendingMoves : working'[p][a] = Current(a, p)'
      BY <2>2, <2>5, <3>1
    <3> QED
      BY <1>1, <1>4, <1>5, <3>2, <3>3, <3>4 DEF Working
  <2>12. Bound(p)'
    <3>1. pc'[p] \in InTick /\ pc'[p] \notin {"waiting", "failed"}
      BY <2>2 DEF InTick
    <3>2. \A a \in DOMAIN boundary[p].proj : boundary[p].proj[a].age \in Nat
      <4>1. boundary[p].proj \in World
        BY <1>2 DEF TickTypes
      <4> QED
        BY <4>1, Worlds DEF Rec
    <3>3. \A a \in DOMAIN boundary[p].proj :
            /\ boundary[p].proj[a].age <= clock'[p]
            /\ boundary[p].proj[a].facts \subseteq FactsOf(a)'
      BY <1>2, <1>4, <2>2, <3>2 DEF Bound
    <3> QED
      BY <1>1, <2>2, <3>1, <3>3 DEF Bound
  <2>13. RecordsOf(p)'
    BY <2>2 DEF RecordsOf
  <2>14. PartitionWhole(p)'
    BY <2>9, <2>10, <2>11, <2>12, <2>13 DEF PartitionWhole
  <2> QED
    BY <1>5, <2>3, <2>6, <2>14 DEF Whole
<1> QED
  BY <1>6, <1>7

\* What a cycle's settlement makes of the state its report has left: the
\* parties are of this moment, and who sets out on a journey is p's.
Settling(p, state, made) ==
  /\ made.operation \in Operation
  /\ Settles(made.operation, Len(operations) + 1)
  /\ made.operation.parties \cap DOMAIN pendingMoves = {}
  /\ made.state.owner = state.owner /\ made.state.receipts = state.receipts
  /\ \A b \in DOMAIN pendingMoves :
       /\ b \in DOMAIN made.state.pendingMoves
       /\ made.state.pendingMoves[b] = state.pendingMoves[b]
       /\ made.state.records[b] = state.records[b]
  /\ \A b \in DOMAIN made.state.pendingMoves \ DOMAIN pendingMoves :
       /\ b \in made.operation.parties /\ b \in Movers /\ owner[b] = p
       /\ made.state.pendingMoves[b].from = p
       /\ made.state.pendingMoves[b].to \in Partition \ {p}

\* What the authority holds behind a cycle's report.
ReportedState(p, state) ==
  /\ AuthorityFields(state) /\ Known(state) /\ state.owner = owner
  /\ DOMAIN state.pendingMoves = DOMAIN pendingMoves
  /\ \A b \in DOMAIN pendingMoves : state.pendingMoves[b] = pendingMoves[b]

LEMMA TransferSettles ==
  ASSUME InboxInv, NEW p \in Partition, NEW a \in Agent, NEW b \in Agent, NEW state,
         ReportedState(p, state), Transfer(p, a, b, state).enabled
  PROVE  Settling(p, state, Transfer(p, a, b, state))
<1> DEFINE token == Len(operations) + 1
           both == {a, b}
           settled == WithFact(state.records, token, both)
           made == Transfer(p, a, b, state)
           to == [q \in Partition |-> IF \E c \in both : state.owner[c] = q
                                      THEN <<Settled(token, both)>> ELSE <<>>]
<1>1. AuthorityTypes /\ TickTypes
  BY DEF InboxInv, InboxTypesInv
<1>2. made.operation \in Operation
  BY <1>1, TransferTyped DEF ReportedState
<1>3. made.operation = [kind |-> "transfer", key |-> KeyOf(p, a, "transfer"),
                        due |-> now, parties |-> both, to |-> to]
  BY DEF Transfer
<1>4. made.state = [state EXCEPT !.records = settled]
  BY DEF Transfer
<1>5. both \cap DOMAIN state.pendingMoves = {}
  BY DEF Transfer
<1>6. \A c \in DOMAIN state.records : c \notin both => settled[c] = state.records[c]
  BY DEF WithFact
<1>7. made.operation.kind = "transfer" /\ made.operation.parties = both
      /\ made.operation.to = to
  BY <1>3
<1>8. \A q \in Partition :
        /\ both \cap Owned(q) = {} => to[q] = <<>>
        /\ both \cap Owned(q) # {} => to[q] = <<Settled(token, both)>>
  <2> SUFFICES ASSUME NEW q \in Partition
               PROVE  /\ both \cap Owned(q) = {} => to[q] = <<>>
                      /\ both \cap Owned(q) # {} => to[q] = <<Settled(token, both)>>
    OBVIOUS
  <2>1. (\E c \in both : state.owner[c] = q) <=> both \cap Owned(q) # {}
    BY DEF Owned, ReportedState
  <2> HIDE DEF both
  <2> QED
    BY <2>1
<1> HIDE DEF to, both, settled, made
<1>9. Settles(made.operation, token)
  BY <1>7, <1>8 DEF Settles
<1>10. /\ made.state.owner = state.owner /\ made.state.receipts = state.receipts
       /\ made.state.pendingMoves = state.pendingMoves /\ made.state.records = settled
  BY <1>4 DEF ReportedState, AuthorityFields
<1>11. \A c \in DOMAIN pendingMoves : c \in DOMAIN state.records /\ c \notin both
  BY <1>5 DEF ReportedState, Known
<1>12. Settling(p, state, made)
  BY <1>2, <1>5, <1>6, <1>7, <1>9, <1>10, <1>11 DEF Settling, ReportedState
<1> QED
  BY <1>12 DEF made

LEMMA MoveSettles ==
  ASSUME InboxInv, TravelTicks > 0, NEW p \in Partition, NEW a \in Movers,
         NEW q \in Partition \ {p}, NEW state,
         ReportedState(p, state), Move(p, a, q, state).enabled
  PROVE  Settling(p, state, Move(p, a, q, state))
<1> DEFINE token == Len(operations) + 1
           settled == WithFact(state.records, token, {a})
           journey == [from |-> p, to |-> q, token |-> token, due |-> now + TravelTicks]
           made == Move(p, a, q, state)
           moves == [b \in DOMAIN state.pendingMoves \cup {a} |->
                       IF b = a THEN journey ELSE state.pendingMoves[b]]
           to == [r \in Partition |->
                    CASE r = p -> <<Settled(token, {a})>> \o <<>>
                      [] r = q /\ FALSE -> <<Arrived(a, settled[a])>>
                      [] OTHER -> <<>>]
<1>1. AuthorityTypes /\ TickTypes /\ a \in Agent /\ token \in Nat
  BY Constants, PendingTokens DEF InboxInv, InboxTypesInv
<1>2. made.operation \in Operation
  BY <1>1, MoveTyped DEF ReportedState
<1>3. ~(TravelTicks = 0)
  BY Constants
<1>4. made.operation = [kind |-> "move", key |-> KeyOf(p, a, "move"),
                        due |-> journey.due, parties |-> {a}, to |-> to]
  BY <1>3 DEF Move
<1>5. made.state = [state EXCEPT !.records = settled, !.owner = state.owner,
                                 !.pendingMoves = moves]
  BY <1>3 DEF Move
<1>6. a \in DOMAIN state.records /\ a \notin DOMAIN pendingMoves /\ owner[a] = p
  BY DEF Move, ReportedState
<1>7. \A c \in DOMAIN state.records : c # a => settled[c] = state.records[c]
  BY DEF WithFact
<1>8. /\ journey.from = p /\ journey.to = q /\ moves[a] = journey
      /\ DOMAIN moves = DOMAIN pendingMoves \cup {a}
      /\ \A b \in DOMAIN pendingMoves : moves[b] = state.pendingMoves[b]
  BY <1>6 DEF ReportedState
<1>9. to[p] = <<Settled(token, {a})>> /\ \A r \in Partition \ {p} : to[r] = <<>>
  <2>1. Settled(token, {a}) \in Event
    BY <1>1 DEF Settled, Event, Fact
  <2>2. <<Settled(token, {a})>> \o <<>> = <<Settled(token, {a})>>
    BY <2>1
  <2>3. \A r \in Partition \ {p} : to[r] = <<>>
    OBVIOUS
  <2> QED
    BY <2>2, <2>3
<1>10. made.operation.kind = "move" /\ made.operation.parties = {a}
       /\ made.operation.to = to
  BY <1>4
<1> HIDE DEF to, settled, made, moves, journey
<1>11. Settles(made.operation, token)
  <2>1. \A r \in Partition : {a} \cap Owned(r) # {} <=> r = p
    BY <1>1, <1>6 DEF Owned
  <2>2. \A r \in Partition :
          /\ {a} \cap Owned(r) = {} => to[r] = <<>>
          /\ {a} \cap Owned(r) # {} => to[r] = <<Settled(token, {a})>>
    BY <1>9, <2>1
  <2> QED
    BY <1>10, <2>2 DEF Settles
<1>12. /\ made.state.owner = state.owner /\ made.state.receipts = state.receipts
       /\ made.state.pendingMoves = moves /\ made.state.records = settled
  BY <1>5 DEF ReportedState, AuthorityFields
<1>13. \A c \in DOMAIN pendingMoves : c \in DOMAIN state.records /\ c # a
  BY <1>6 DEF ReportedState, Known
<1>14. Settling(p, state, made)
  <2>1. \A b \in DOMAIN pendingMoves :
          /\ b \in DOMAIN made.state.pendingMoves
          /\ made.state.pendingMoves[b] = state.pendingMoves[b]
          /\ made.state.records[b] = state.records[b]
    BY <1>7, <1>8, <1>12, <1>13
  <2>2. \A b \in DOMAIN made.state.pendingMoves \ DOMAIN pendingMoves :
          /\ b \in made.operation.parties /\ b \in Movers /\ owner[b] = p
          /\ made.state.pendingMoves[b].from = p
          /\ made.state.pendingMoves[b].to \in Partition \ {p}
    BY <1>6, <1>8, <1>10, <1>12
  <2>3. made.operation.parties \cap DOMAIN pendingMoves = {}
    BY <1>6, <1>10
  <2> QED
    BY <1>2, <1>11, <1>12, <2>1, <2>2, <2>3 DEF Settling
<1> QED
  BY <1>14 DEF made

(* An agent's cycle: whatever it settles, every partition that owns a      *)
(* party is told, and a traveller sets out with its owner's record.        *)
LEMMA CycleWhole ==
  ASSUME InboxInv, Timing, Streams, Whole, crashes = 0, NEW p \in Partition,
         Interleaves(p), NEW a, NEW made, NEW key, Cycle(p, a, made, key),
         NEW state, state = AfterReport(p, working[p], {}),
         ReportedState(p, state) /\ made.enabled => Settling(p, state, made)
  PROVE  Whole'
<1>1. /\ InboxTypesInv /\ AuthorityTypes /\ InboxTypes /\ TickTypes /\ RouterTypes
      /\ Known(Authority) /\ Owners /\ OperationsPlain /\ Receipts
      /\ View(p) /\ Calm(p) /\ Working(p) /\ Bound(p) /\ PartitionWhole(p) /\ StreamOf(p)
  BY DEF InboxInv, InboxTypesInv, Whole, PartitionWhole, Streams
<1>2. PICK proj : proj = working[p]
  OBVIOUS
<1>3. /\ pc[p] = "body" /\ pc[p] \in InTick /\ ~recovering[p] /\ HasTime(tail[p])
      /\ \A t \in Pending(p) : operations[t].kind # "advance"
  BY <1>1 DEF Cycle, Calm, InTick
<1>4. /\ proj \in World /\ DOMAIN proj = Owned(p)
      /\ \A b \in Owned(p) : proj[b].age = clock[p] /\ proj[b].facts \subseteq FactsOf(b)
      /\ \A b \in Owned(p) \cap DOMAIN pendingMoves : proj[b] = Current(b, p)
  BY <1>1, <1>2, <1>3 DEF Working, TickTypes
<1>5. ~IsRefused(p, proj, {}) /\ LeftTown(p, proj) = {}
  BY <1>1, <1>4 DEF IsRefused, LeftTown, Owned, RouterTypes
<1>6. state = AfterReport(p, proj, {})
  BY <1>2
<1>7. /\ UNCHANGED <<now, stream, projection, cursor, clock, boundary, ticked, tail,
                     recovering, crashes>>
      /\ RouterHasReported(p, proj, {}) /\ Goto(p, "drain")
      /\ \E after : WorkOn(p, after)
      /\ \/ AuthorityBecomes(state) /\ UNCHANGED operations
         \/ /\ made.enabled /\ AuthorityBecomes(made.state)
            /\ operations' = Append(operations, made.operation)
  BY <1>2, <1>5 DEF Cycle, inbox, lifecycle, faults
<1>8. /\ state.owner = owner
      /\ DOMAIN state.pendingMoves = DOMAIN pendingMoves
      /\ \A b \in DOMAIN pendingMoves : state.pendingMoves[b] = pendingMoves[b]
      /\ \A b \in Agent : owner[b] # p => state.records[b] = records[b]
      /\ \A b \in Owned(p) \cap DOMAIN pendingMoves : state.records[b] = Current(b, p)
      /\ receipts \subseteq state.receipts
      /\ \A d \in state.receipts :
           d \in receipts \/ (d.partition = p /\ d.state.agents = proj)
      /\ \E d \in state.receipts :
           d.partition = p /\ d.state = Reported(p, proj, {})
  <2>1. \A b \in Owned(p) \cap DOMAIN pendingMoves :
          b \in DOMAIN proj /\ proj[b] = Current(b, p)
    BY <1>4
  <2> QED
    BY <1>1, <1>4, <1>5, <1>6, <2>1, ReportHolds
<1>9. ReportedState(p, state)
  <2>1. AuthorityFields(state) /\ Known(state)
    BY <1>1, <1>4, <1>6, ReportTyped, ReportKnown DEF Boundary
  <2> QED
    BY <1>8, <2>1 DEF ReportedState
<1>10. /\ pc'[p] = "drain" /\ lastReported'[p] = Owned(p)
       /\ lastSynced'[p] = <<Reported(p, proj, {})>>
       /\ \A q \in Partition \ {p} :
            /\ pc'[q] = pc[q] /\ working'[q] = working[q]
            /\ lastReported'[q] = lastReported[q] /\ lastSynced'[q] = lastSynced[q]
  BY <1>1, <1>4, <1>7 DEF TickTypes, RouterTypes, Goto, WorkOn, RouterHasReported
<1>11. /\ owner' = owner /\ receipts' = state.receipts
       /\ \A b \in DOMAIN pendingMoves :
            /\ b \in DOMAIN pendingMoves' /\ pendingMoves'[b] = pendingMoves[b]
            /\ records'[b] = state.records[b]
       /\ \/ UNCHANGED operations /\ DOMAIN pendingMoves' = DOMAIN pendingMoves
          \/ \E operation :
               /\ SettlesApart(operation)
               /\ \A b \in DOMAIN pendingMoves' \ DOMAIN pendingMoves :
                    /\ b \in operation.parties /\ b \in Movers /\ owner[b] = p
                    /\ pendingMoves'[b].from = p
                    /\ pendingMoves'[b].to \in Partition \ {p}
  <2>1. CASE AuthorityBecomes(state) /\ UNCHANGED operations
    BY <1>8, <2>1 DEF AuthorityBecomes
  <2>2. CASE /\ made.enabled /\ AuthorityBecomes(made.state)
             /\ operations' = Append(operations, made.operation)
    <3>1. Settling(p, state, made)
      BY <1>9, <2>2
    <3>2. SettlesApart(made.operation)
      BY <2>2, <3>1 DEF Settling, SettlesApart
    <3>3. /\ owner' = made.state.owner /\ pendingMoves' = made.state.pendingMoves
          /\ records' = made.state.records /\ receipts' = made.state.receipts
      BY <2>2 DEF AuthorityBecomes
    <3> QED
      BY <1>8, <3>1, <3>2, <3>3 DEF Settling
  <2> QED
    BY <1>7, <2>1, <2>2
<1>12. DOMAIN pendingMoves \subseteq Agent
  BY <1>1 DEF AuthorityTypes
<1>13. /\ \A b : FactsOf(b) \subseteq FactsOf(b)'
       /\ \A b \in DOMAIN pendingMoves : FactsOf(b)' = FactsOf(b)
       /\ \A b \in DOMAIN pendingMoves' \ DOMAIN pendingMoves :
            /\ ~(FactsOf(b)' \subseteq FactsOf(b))
            /\ b \in Movers /\ owner[b] = p /\ pendingMoves'[b].from = p
            /\ pendingMoves'[b].to \in Partition \ {p}
  <2>1. CASE UNCHANGED operations /\ DOMAIN pendingMoves' = DOMAIN pendingMoves
    BY <2>1, FactsStay
  <2>2. CASE ~(UNCHANGED operations /\ DOMAIN pendingMoves' = DOMAIN pendingMoves)
    <3>1. PICK operation :
            /\ SettlesApart(operation)
            /\ \A b \in DOMAIN pendingMoves' \ DOMAIN pendingMoves :
                 /\ b \in operation.parties /\ b \in Movers /\ owner[b] = p
                 /\ pendingMoves'[b].from = p
                 /\ pendingMoves'[b].to \in Partition \ {p}
      BY <1>11, <2>2
    <3>2. PICK n : n = Len(operations) + 1
      OBVIOUS
    <3>3. \A b : /\ n \notin FactsOf(b) /\ FactsOf(b) \subseteq FactsOf(b)'
                 /\ b \in operation.parties => FactsOf(b)' = FactsOf(b) \cup {n}
                 /\ b \notin operation.parties => FactsOf(b)' = FactsOf(b)
      BY <1>1, <3>1, <3>2, FactsGrow DEF SettlesApart
    <3>4. \A b \in DOMAIN pendingMoves : b \notin operation.parties
      BY <3>1 DEF SettlesApart
    <3> QED
      BY <3>1, <3>3, <3>4
  <2> QED
    BY <2>1, <2>2
<1>14. Owners'
  <2>1. \A b \in Agent : owner'[b] \in Partition
    BY <1>1, <1>11 DEF Owners
  <2>2. \A b \in DOMAIN pendingMoves' :
          /\ b \in Movers /\ pendingMoves'[b].from = owner'[b]
          /\ pendingMoves'[b].to \in Partition \ {owner'[b]}
    <3> SUFFICES ASSUME NEW b \in DOMAIN pendingMoves'
                 PROVE  /\ b \in Movers /\ pendingMoves'[b].from = owner'[b]
                        /\ pendingMoves'[b].to \in Partition \ {owner'[b]}
      OBVIOUS
    <3>1. CASE b \in DOMAIN pendingMoves
      BY <1>1, <1>11, <3>1 DEF Owners
    <3>2. CASE b \notin DOMAIN pendingMoves
      BY <1>11, <1>13, <3>2
    <3> QED
      BY <3>1, <3>2
  <2> QED
    BY <2>1, <2>2 DEF Owners
<1>15. OperationsPlain'
  <2>1. CASE UNCHANGED operations
    BY <1>1, <2>1 DEF OperationsPlain
  <2>2. CASE \E operation : SettlesApart(operation)
    <3>1. PICK operation : SettlesApart(operation)
      BY <2>2
    <3>2. PICK n : n = Len(operations) + 1
      OBVIOUS
    <3>3. /\ DOMAIN operations' = DOMAIN operations \cup {n} /\ operations'[n] = operation
          /\ \A t \in DOMAIN operations : operations'[t] = operations[t]
      BY <1>1, <3>1, <3>2 DEF AuthorityTypes, SettlesApart
    <3>4. /\ operation.kind # "advance"
          /\ \A q \in Partition :
               operation.to[q] \in {<<>>, <<Settled(n, operation.parties)>>}
      BY <3>1, <3>2 DEF SettlesApart, Settles
    <3>5. \A t \in DOMAIN operations' :
            /\ operations'[t].kind = "advance" => operations'[t].parties \subseteq Depositors
            /\ operations'[t].kind # "advance" =>
                 \A q \in Partition : operations'[t].to[q] \in
                   {<<>>, <<Settled(t, operations'[t].parties)>>}
      <4> SUFFICES ASSUME NEW t \in DOMAIN operations'
                   PROVE  /\ operations'[t].kind = "advance" =>
                               operations'[t].parties \subseteq Depositors
                          /\ operations'[t].kind # "advance" =>
                               \A q \in Partition : operations'[t].to[q] \in
                                 {<<>>, <<Settled(t, operations'[t].parties)>>}
        OBVIOUS
      <4>1. CASE t = n
        BY <3>3, <3>4, <4>1
      <4>2. CASE t \in DOMAIN operations
        BY <1>1, <3>3, <4>2 DEF OperationsPlain
      <4> QED
        BY <3>3, <4>1, <4>2
    <3> QED
      BY <3>5 DEF OperationsPlain
  <2> QED
    BY <1>11, <2>1, <2>2
<1>16. Receipts'
  <2>1. \A b \in DOMAIN proj : proj[b].age <= clock[p] /\ proj[b].facts \subseteq FactsOf(b)
    BY <1>1, <1>4, Numbers
  <2>2. \A b \in DOMAIN pendingMoves' :
          \/ ~(FactsOf(b)' \subseteq FactsOf(b))
          \/ /\ b \in DOMAIN pendingMoves
             /\ owner[b] # p => records'[b] = records[b]
             /\ owner[b] = p => records'[b] = Current(b, p)
    <3> SUFFICES ASSUME NEW b \in DOMAIN pendingMoves
                 PROVE  /\ owner[b] # p => records'[b] = records[b]
                        /\ owner[b] = p => records'[b] = Current(b, p)
      BY <1>13
    <3> QED
      BY <1>8, <1>11, <1>12 DEF Owned
  <2>3. \E d \in receipts' : d.partition = p /\ lastSynced'[p] = <<d.state>>
    BY <1>8, <1>10, <1>11
  <2>4. owner' = owner /\ clock' = clock /\ receipts \subseteq receipts'
        /\ \A d \in receipts' :
             d \in receipts \/ (d.partition = p /\ d.state.agents = proj)
    BY <1>7, <1>8, <1>11
  <2> QED
    <3>1. \A b : FactsOf(b) \subseteq FactsOf(b)'
      BY <1>13
    <3>2. \A q \in Partition \ {p} : lastSynced'[q] = lastSynced[q]
      BY <1>10
    <3>3. AuthorityTypes /\ Receipts
      BY <1>1
    <3> QED
      BY <2>1, <2>2, <2>3, <2>4, <3>1, <3>2, <3>3, ReceiptsKept
<1>17. ASSUME NEW q \in Partition \ {p} PROVE PartitionWhole(q)'
  <2>1. PartitionWhole(q) /\ StreamOf(q) /\ pc[q] # "finished"
    BY DEF Whole, Streams, Interleaves
  <2>2. /\ \A b \in Owned(q) : b \in DOMAIN pendingMoves' <=> b \in DOMAIN pendingMoves
        /\ \A b \in Owned(q) \cap DOMAIN pendingMoves : records'[b] = records[b]
    BY <1>8, <1>11, <1>13 DEF Owned
  <2>3. UNCHANGED operations \/ \E operation : SettlesApart(operation)
    BY <1>11
  <2> QED
    BY <1>7, <1>10, <1>11, <2>1, <2>2, <2>3, ElsewhereWhole
<1>18. View(p)' /\ \A t \in Pending(p)' : operations'[t].kind # "advance"
  <2>1. CASE UNCHANGED operations
    <3>1. View(p)' /\ Pending(p)' = Pending(p)
      BY <1>1, <1>7, <1>11, <2>1, ViewKept
    <3> QED
      BY <1>3, <2>1, <3>1
  <2>2. CASE \E operation : SettlesApart(operation)
    <3>1. PICK operation : SettlesApart(operation)
      BY <2>2
    <3>2. PICK n : n = Len(operations) + 1
      OBVIOUS
    <3>3. View(p)' /\ Pending(p)' \subseteq Pending(p) \cup {n}
      BY <1>1, <1>3, <1>7, <1>11, <3>1, <3>2, SettledView DEF SettlesApart
    <3>4. operations'[n] = operation
          /\ \A t \in DOMAIN operations : operations'[t] = operations[t]
      BY <1>1, <3>1, <3>2 DEF SettlesApart, AuthorityTypes
    <3>5. operation.kind # "advance" /\ Pending(p) \subseteq DOMAIN operations
      BY <3>1 DEF SettlesApart, Settles, Pending
    <3> QED
      BY <1>3, <3>3, <3>4, <3>5
  <2> QED
    BY <1>11, <2>1, <2>2
<1>19. Calm(p)'
  <2>1. HasTime(tail'[p]) /\ ~recovering'[p]
    BY <1>3, <1>7
  <2>2. pc'[p] \in InTick /\ pc'[p] \notin {"poisoned", "finished"}
    BY <1>10 DEF InTick
  <2> QED
    BY <1>18, <2>1, <2>2 DEF Calm
<1>20. Working(p)' /\ RecordsOf(p)'
  BY <1>10 DEF Working, RecordsOf
<1>21. Bound(p)'
  <2>1. pc'[p] \in InTick /\ ~recovering'[p] /\ pc'[p] \notin {"waiting", "failed"}
    BY <1>3, <1>7, <1>10 DEF InTick
  <2>2. \A b \in DOMAIN boundary'[p].proj :
          /\ boundary'[p].proj[b].age <= clock'[p]
          /\ boundary'[p].proj[b].facts \subseteq FactsOf(b)'
    BY <1>1, <1>7, <1>13 DEF Bound
  <2> QED
    BY <2>1, <2>2 DEF Bound
<1>22. PartitionWhole(p)'
  BY <1>18, <1>19, <1>20, <1>21 DEF PartitionWhole
<1> QED
  BY <1>14, <1>15, <1>16, <1>17, <1>22 DEF Whole

LEMMA AgentStepsWhole ==
  ASSUME InboxInv, Timing, Streams, Whole, crashes = 0, TravelTicks > 0,
         NEW p \in Partition, Interleaves(p), NEW a \in Agent,
         TransferCycle(p, a) \/ MoveCycle(p, a)
  PROVE  Whole'
<1>1. PICK state : state = AfterReport(p, working[p], {})
  OBVIOUS
<1>2. CASE TransferCycle(p, a)
  <2>1. PICK b \in Agent \ {a} :
          Cycle(p, a, Transfer(p, a, b, state), KeyOf(p, a, "transfer"))
    BY <1>1, <1>2 DEF TransferCycle
  <2>2. PICK made : made = Transfer(p, a, b, state)
    OBVIOUS
  <2>3. ReportedState(p, state) /\ made.enabled => Settling(p, state, made)
    BY <2>2, TransferSettles
  <2> QED
    BY <1>1, <2>1, <2>2, <2>3, CycleWhole
<1>3. CASE MoveCycle(p, a)
  <2>1. PICK q \in Partition \ {p} :
          a \in Movers /\ Cycle(p, a, Move(p, a, q, state), KeyOf(p, a, "move"))
    BY <1>1, <1>3 DEF MoveCycle
  <2>2. PICK made : made = Move(p, a, q, state)
    OBVIOUS
  <2>3. ReportedState(p, state) /\ made.enabled => Settling(p, state, made)
    BY <2>1, <2>2, MoveSettles
  <2> QED
    BY <1>1, <2>1, <2>2, <2>3, CycleWhole
<1> QED
  BY <1>2, <1>3

(* A tick that completes has taken everything: its boundary is the whole   *)
(* of what the partition has.                                              *)
LEMMA CompleteTickWhole ==
  ASSUME InboxInv, Timing, Streams, Whole, crashes = 0, NEW p \in Partition,
         CompleteTick(p)
  PROVE  Whole'
<1>1. /\ pc[p] = "finished"
      /\ UNCHANGED <<operations, now, stream, projection, cursor, clock, working,
                     owner, pendingMoves, records, receipts, lastSynced, lastReported>>
  BY DEF CompleteTick, authorityState, inbox, router
<1>2. /\ InboxTypesInv /\ AuthorityTypes /\ InboxTypes /\ TickTypes /\ RouterTypes
      /\ Owners /\ OperationsPlain /\ Receipts
      /\ View(p) /\ Calm(p) /\ Bound(p) /\ RecordsOf(p)
  BY DEF InboxInv, InboxTypesInv, Whole, PartitionWhole
<1>3. ~recovering[p] /\ Pending(p) = {}
  BY <1>1, <1>2 DEF Calm, InTick
<1>4. PICK place \in {"done", "start"} : pc' = [pc EXCEPT ![p] = place]
  BY DEF CompleteTick, Goto
<1>5. /\ recovering' = [recovering EXCEPT ![p] = FALSE]
      /\ boundary' = [boundary EXCEPT ![p] = [proj |-> projection[p], clock |-> clock[p]]]
      /\ tail' = [tail EXCEPT ![p] = <<>>]
      /\ ticked' = [ticked EXCEPT ![p] = ticked[p] + 1]
  BY <1>3 DEF CompleteTick
<1>6. /\ pc'[p] = place /\ ~recovering'[p] /\ boundary'[p].proj = projection[p]
      /\ tail'[p] = <<>>
      /\ \A q \in Partition \ {p} :
           /\ pc'[q] = pc[q] /\ recovering'[q] = recovering[q]
           /\ boundary'[q] = boundary[q] /\ tail'[q] = tail[q] /\ ticked'[q] = ticked[q]
  BY <1>2, <1>4, <1>5 DEF TickTypes
<1>7. \A q \in Partition \ {p} : PartitionWhole(q)'
  <2> SUFFICES ASSUME NEW q \in Partition \ {p} PROVE PartitionWhole(q)'
    OBVIOUS
  <2>1. PartitionWhole(q) /\ StreamOf(q)
    BY DEF Whole, Streams
  <2> QED
    BY <1>1, <1>6, <2>1, ElsewhereWhole
<1>8. Owners' /\ OperationsPlain' /\ Owned(p)' = Owned(p)
  BY <1>1, <1>2 DEF Owners, OperationsPlain, Owned
<1>9. \A a : FactsOf(a)' = FactsOf(a)
  BY <1>1, FactsStay
<1>10. \A a, q : Current(a, q)' = Current(a, q)
  BY <1>1, <1>9 DEF Current
<1>11. Receipts'
  BY <1>1, <1>2, <1>9, <1>10 DEF Receipts
<1>12. View(p)'
  BY <1>1, <1>2, ViewKept
<1>13. /\ DOMAIN projection[p] = Owned(p)
       /\ \A a \in Owned(p) : projection[p][a] = Current(a, p)
  <2>1. PICK start, last : start = Unread(p) /\ last = Len(operations)
    OBVIOUS
  <2>2. last \in Nat
    BY <1>2, <2>1, PendingTokens
  <2>3. Taken(p) = ReadFrom(p, start, last)
    BY <2>1, ToTheEnd DEF ReadsToTheEnd
  <2>4. Taken(p) = start
    BY <1>3, <2>2, <2>3, NothingRead DEF NothingIsNothing
  <2>5. Taken(p).proj = projection[p]
    BY <2>1, <2>4 DEF Unread
  <2> QED
    BY <1>2, <2>5 DEF View
<1>14. Calm(p)' /\ Working(p)'
  <2>1. ~HasTime(tail'[p])
    BY <1>6 DEF HasTime
  <2>2. pc'[p] \notin InTick
        /\ pc'[p] \notin {"poisoned", "finished", "ready", "body"}
    BY <1>6 DEF InTick
  <2> QED
    BY <1>6, <2>1, <2>2 DEF Calm, Working
<1>15. Bound(p)'
  <2>1. pc'[p] \notin {"waiting", "failed"}
    BY <1>6
  <2>2. \A a \in DOMAIN boundary'[p].proj :
          /\ boundary'[p].proj[a].age <= clock'[p]
          /\ boundary'[p].proj[a].facts \subseteq FactsOf(a)'
    <3>1. clock[p] <= clock[p] /\ clock' = clock
      BY <1>1, <1>2, Numbers
    <3>2. \A a \in Owned(p) :
            projection[p][a].age = clock[p] /\ projection[p][a].facts = FactsOf(a)
      <4> SUFFICES ASSUME NEW a \in Owned(p)
                   PROVE  /\ projection[p][a].age = clock[p]
                          /\ projection[p][a].facts = FactsOf(a)
        OBVIOUS
      <4>1. projection[p][a] = [age |-> clock[p], facts |-> FactsOf(a)]
        BY <1>13 DEF Current
      <4> QED
        BY <4>1
    <3> QED
      BY <1>6, <1>9, <1>13, <3>1, <3>2
  <2>3. /\ \A a \in Owned(p)' \cap DOMAIN pendingMoves' :
             a \in DOMAIN boundary'[p].proj /\ boundary'[p].proj[a] = Current(a, p)'
        /\ DOMAIN boundary'[p].proj = Owned(p)'
    BY <1>1, <1>6, <1>8, <1>10, <1>13
  <2> QED
    BY <1>6, <2>1, <2>2, <2>3 DEF Bound
<1>16. RecordsOf(p)'
  BY <1>1, <1>2, <1>8, <1>10 DEF RecordsOf
<1>17. PartitionWhole(p)'
  BY <1>12, <1>14, <1>15, <1>16 DEF PartitionWhole
<1> QED
  BY <1>7, <1>8, <1>11, <1>17 DEF Whole

(* A start that is given up, or made again, changes nothing else.          *)
LEMMA RestWhole ==
  ASSUME InboxInv, Timing, Streams, Whole, crashes = 0, NEW p \in Partition,
         TimesOut(p) \/ AppendRefused(p) \/ Retry(p)
  PROVE  Whole'
<1>1. /\ InboxTypesInv /\ AuthorityTypes /\ InboxTypes /\ TickTypes /\ RouterTypes
      /\ Owners /\ OperationsPlain /\ Receipts
      /\ View(p) /\ Calm(p) /\ Bound(p) /\ RecordsOf(p)
  BY DEF InboxInv, InboxTypesInv, Whole, PartitionWhole
<1>2. ~AppendRefused(p)
  BY <1>1 DEF AppendRefused, Calm, InTick
<1>3. PICK place \in {"failed", "start"} :
        pc[p] \in {"waiting", "failed"} /\ pc' = [pc EXCEPT ![p] = place]
  BY <1>2 DEF TimesOut, Retry, Goto
<1>4. /\ UNCHANGED <<operations, now, stream, projection, cursor, clock, working, tail,
                     boundary, ticked, owner, pendingMoves, records, receipts,
                     lastSynced, lastReported>>
      /\ \A q \in Partition \ {p} : recovering'[q] = recovering[q]
  BY <1>1, <1>2 DEF TimesOut, Retry, authorityState, inbox, router, lifecycle, TickTypes
<1>5. pc'[p] = place /\ \A q \in Partition \ {p} : pc'[q] = pc[q]
  BY <1>1, <1>3 DEF TickTypes
<1>6. \A q \in Partition \ {p} : PartitionWhole(q)'
  <2> SUFFICES ASSUME NEW q \in Partition \ {p} PROVE PartitionWhole(q)'
    OBVIOUS
  <2>1. PartitionWhole(q) /\ StreamOf(q)
    BY DEF Whole, Streams
  <2> QED
    BY <1>4, <1>5, <2>1, ElsewhereWhole
<1>7. Owners' /\ OperationsPlain' /\ Owned(p)' = Owned(p)
  BY <1>1, <1>4 DEF Owners, OperationsPlain, Owned
<1>8. \A a : FactsOf(a)' = FactsOf(a)
  BY <1>4, FactsStay
<1>9. \A a, q : Current(a, q)' = Current(a, q)
  BY <1>4, <1>8 DEF Current
<1>10. Receipts'
  BY <1>1, <1>4, <1>8, <1>9 DEF Receipts
<1>11. View(p)'
  BY <1>1, <1>4, ViewKept
<1>12. Calm(p)' /\ Working(p)'
  <2>1. ~HasTime(tail'[p])
    BY <1>1, <1>3, <1>4 DEF Calm, InTick
  <2>2. pc'[p] \notin InTick
        /\ pc'[p] \notin {"poisoned", "finished", "ready", "body"}
    BY <1>5 DEF InTick
  <2> QED
    BY <2>1, <2>2 DEF Calm, Working
<1>13. Bound(p)'
  <2>1. pc[p] \notin InTick
    BY <1>3 DEF InTick
  <2>2. lastReported'[p] \subseteq DOMAIN boundary[p].proj
    BY <1>1, <1>3, <1>4 DEF Bound
  <2> QED
    BY <1>1, <1>4, <1>7, <1>8, <1>9, <2>1, <2>2, BoundHolds
<1>14. RecordsOf(p)'
  BY <1>1, <1>3, <1>4, <1>7, <1>9 DEF RecordsOf
<1>15. PartitionWhole(p)'
  BY <1>11, <1>12, <1>13, <1>14 DEF PartitionWhole
<1> QED
  BY <1>6, <1>7, <1>10, <1>15 DEF Whole

LEMMA InitWhole ==
  ASSUME Init
  PROVE  Whole
<1>1. AuthorityTypes /\ InboxTypes
  BY InitTyped DEF InboxInv, InboxTypesInv
<1>2. /\ operations = <<>> /\ pendingMoves = <<>> /\ receipts = {} /\ owner = Home
      /\ Home \in [Agent -> Partition] /\ DOMAIN operations = {}
      /\ DOMAIN pendingMoves = {}
  BY Constants DEF Init
<1>3. Owners /\ OperationsPlain
  BY <1>2 DEF Owners, OperationsPlain
<1>4. Receipts
  BY <1>2 DEF Init, Receipts
<1>5. ASSUME NEW p \in Partition PROVE PartitionWhole(p)
  <2>1. /\ pc[p] = "start" /\ ~recovering[p] /\ tail[p] = <<>> /\ clock[p] = 0
        /\ boundary[p].proj = projection[p]
        /\ projection[p] = [a \in {b \in Agent : Home[b] = p} |-> NewRecord]
    BY DEF Init
  <2>2. Owned(p) = {b \in Agent : Home[b] = p}
    BY <1>2 DEF Owned
  <2>3. \A a : FactsOf(a) = {} /\ Current(a, p) = NewRecord
    BY <1>2, <2>1 DEF FactsOf, Current, NewRecord
  <2>4. /\ DOMAIN projection[p] = Owned(p)
        /\ \A a \in Owned(p) : projection[p][a] = Current(a, p)
    BY <2>1, <2>2, <2>3
  <2>5. Pending(p) = {}
    BY <1>2 DEF Pending
  <2>6. View(p)
    <3>1. PICK start, last : start = Unread(p) /\ last = Len(operations)
      OBVIOUS
    <3>2. last \in Nat
      BY <1>1, <3>1, PendingTokens
    <3>3. Taken(p) = ReadFrom(p, start, last)
      BY <3>1, ToTheEnd DEF ReadsToTheEnd
    <3>4. Taken(p) = start
      BY <2>5, <3>2, <3>3, NothingRead DEF NothingIsNothing
    <3>5. Taken(p).proj = projection[p] /\ Taken(p).outcome = "taken"
      BY <3>1, <3>4 DEF Unread
    <3> QED
      BY <2>4, <3>5 DEF View
  <2>7. Calm(p) /\ Working(p)
    <3>1. ~HasTime(tail[p])
      BY <2>1 DEF HasTime
    <3>2. pc[p] \notin InTick
      BY <2>1 DEF InTick
    <3> QED
      BY <2>1, <3>1, <3>2 DEF Calm, Working
  <2>8. Bound(p)
    <3>1. \A a \in Owned(p) : projection[p][a].age = 0 /\ projection[p][a].facts = {}
      BY <2>1, <2>2 DEF NewRecord
    <3>2. \A a \in DOMAIN boundary[p].proj :
            /\ boundary[p].proj[a].age <= clock[p]
            /\ boundary[p].proj[a].facts \subseteq FactsOf(a)
      <4>1. 0 <= 0 /\ {} \subseteq {}
        OBVIOUS
      <4>2. DOMAIN boundary[p].proj = Owned(p)
        BY <2>1, <2>4
      <4> SUFFICES ASSUME NEW a \in Owned(p)
                   PROVE  /\ boundary[p].proj[a].age <= clock[p]
                          /\ boundary[p].proj[a].facts \subseteq FactsOf(a)
        BY <4>2
      <4>3. boundary[p].proj[a].age = 0 /\ boundary[p].proj[a].facts = {}
        BY <2>1, <3>1
      <4>4. clock[p] = 0
        BY <2>1
      <4> QED
        BY <4>1, <4>3, <4>4
    <3>3. DOMAIN boundary[p].proj = Owned(p) /\ Owned(p) \cap DOMAIN pendingMoves = {}
      BY <1>2, <2>1, <2>4
    <3>4. ~(recovering[p] \/ pc[p] \in {"waiting", "failed"})
      BY <2>1
    <3> QED
      BY <3>2, <3>3, <3>4 DEF Bound
  <2>9. RecordsOf(p)
    BY <1>2 DEF RecordsOf
  <2> QED
    BY <2>6, <2>7, <2>8, <2>9 DEF PartitionWhole
<1> QED
  BY <1>3, <1>4, <1>5 DEF Whole

\* Journeys take time, and nobody who moves is paid by a cadence.  Without either
\* the theorems below do not hold: a record older than an arrival is published, or
\* a payment is delivered in front of the arrival of whom it is for.
UnpaidJourneys == TravelTicks > 0 /\ Movers \cap Depositors = {}

LEMMA StepsWhole ==
  ASSUME UnpaidJourneys, InboxInv, Timing, Streams, crashes = 0 => Whole,
         [Next]_vars
  PROVE  crashes' = 0 => Whole'
<1> SUFFICES ASSUME crashes' = 0 PROVE Whole'
  OBVIOUS
<1>0. TravelTicks > 0 /\ Movers \cap Depositors = {} /\ crashes \in Nat
  BY DEF UnpaidJourneys, InboxInv, InboxTypesInv, RouterTypes
<1>1. CASE UNCHANGED vars
  <2>1. Whole
    BY <1>1 DEF vars, faults
  <2>2. UNCHANGED <<operations, now, owner, pendingMoves, records, published, receipts,
                    stream, projection, cursor, clock, boundary, ticked, tail, pc, working,
                    recovering, lastSynced, lastReported>>
    BY <1>1 DEF vars, authorityState, inbox, lifecycle, router
  <2>3. \A p \in Partition : PartitionWhole(p)'
    <3> SUFFICES ASSUME NEW p \in Partition PROVE PartitionWhole(p)'
      OBVIOUS
    <3>1. PartitionWhole(p) /\ StreamOf(p)
      BY <2>1 DEF Whole, Streams
    <3> QED
      BY <2>2, <3>1, ElsewhereWhole
  <2>4. Owners' /\ OperationsPlain'
    BY <2>1, <2>2 DEF Whole, Owners, OperationsPlain
  <2>5. Receipts'
    <3>1. \A a : FactsOf(a)' = FactsOf(a)
      BY <2>2, FactsStay
    <3>2. \A a, q : Current(a, q)' = Current(a, q)
      BY <2>2, <3>1 DEF Current
    <3> QED
      BY <2>1, <2>2, <3>1, <3>2 DEF Whole, Receipts
  <2> QED
    BY <2>3, <2>4, <2>5 DEF Whole
<1>2. CASE KillAndRestart
  BY <1>0, <1>2 DEF KillAndRestart
<1>3. ASSUME NEW p \in Partition, Step(p) \/ TimesOut(p)
      PROVE  Whole'
  <2>1. crashes = 0 /\ Whole
    <3>1. CASE TimesOut(p)
      BY <3>1 DEF TimesOut
    <3>2. CASE Step(p)
      <4>1. crashes' = crashes
        BY <3>2 DEF Step, PreTick, FindAdvanced, Advance, AppendTime, TransferCycle,
           MoveCycle, Cycle, DrainAfterCycle, FinishTick, AppendRefused, CompleteTick,
           Retry, faults
      <4> QED
        BY <4>1
    <3> QED
      BY <1>3, <3>1, <3>2
  <2>2. CASE PreTick(p)
    BY <2>1, <2>2, PreTickWhole, RecoveredPreTickWhole
  <2>3. CASE FindAdvanced(p)
    BY <2>1, <2>3, FindAdvancedWhole
  <2>4. CASE Advance(p) /\ Interleaves(p)
    BY <1>0, <2>1, <2>4, AdvanceWhole
  <2>5. CASE AppendTime(p)
    BY <2>1, <2>5, AppendTimeWhole
  <2>6. CASE Interleaves(p) /\ \E a \in Agent : TransferCycle(p, a) \/ MoveCycle(p, a)
    BY <1>0, <2>1, <2>6, AgentStepsWhole
  <2>7. CASE DrainAfterCycle(p) \/ FinishTick(p)
    BY <2>1, <2>7, DrainWhole
  <2>8. CASE CompleteTick(p)
    BY <2>1, <2>8, CompleteTickWhole
  <2>9. CASE TimesOut(p) \/ AppendRefused(p) \/ Retry(p)
    BY <2>1, <2>9, RestWhole
  <2> QED
    BY <1>3, <2>2, <2>3, <2>4, <2>5, <2>6, <2>7, <2>8, <2>9 DEF Step
<1> QED
  BY <1>1, <1>2, <1>3 DEF Next

-----------------------------------------------------------------------------
(* Theorems.                                                               *)

(* As long as no process is killed, partitions, streams, journeys,         *)
(* publications and the records of the authority fit together as Whole     *)
(* says, at every moment: the inductive invariant of the two theorems that *)
(* follow.                                                                 *)
THEOREM WholeUntilAKill ==
  ASSUME UnpaidJourneys
  PROVE  Spec => [](crashes = 0 => Whole)
<1>1. Init => (crashes = 0 => Whole)
  BY InitWhole
<1>2. InboxInv /\ Timing /\ Streams /\ (crashes = 0 => Whole) /\ [Next]_vars
        => (crashes = 0 => Whole)'
  BY StepsWhole
<1>3. Init => Streams
  BY DEF Init, Streams, StreamOf, Increasing
<1>4. InboxInv /\ Streams /\ [Next]_vars => Streams'
  BY StepsStreams DEF InboxInv
<1> QED
  BY <1>1, <1>2, <1>3, <1>4, KnownTypes, ClocksAgree, PTL DEF Spec

(* As long as no process is killed, a partition that reads its inbox to    *)
(* the end has exactly the agents the authority says it owns, each with    *)
(* every fact settled for it and every tick it lived through, wherever it  *)
(* lived then (materializeSimulationWideAuthorityInbox against             *)
(* settleMove, settleResourceTransfer and syncPartitionState).             *)
THEOREM NothingIsLost ==
  ASSUME UnpaidJourneys
  PROVE  Spec => []InboxBringsEverything
<1>1. (crashes = 0 => Whole) => InboxBringsEverything
  <2> SUFFICES ASSUME Whole, NEW p \in Partition
               PROVE  /\ Taken(p).outcome = "taken"
                      /\ DOMAIN Taken(p).proj = {a \in Agent : owner[a] = p}
                      /\ \A a \in DOMAIN Taken(p).proj :
                           Taken(p).proj[a] = [age |-> clock[p], facts |-> FactsOf(a)]
    BY DEF InboxBringsEverything
  <2>1. View(p)
    BY DEF Whole, PartitionWhole
  <2> QED
    BY <2>1 DEF View, Owned, Current
<1> QED
  BY <1>1, WholeUntilAKill, PTL

(* As long as no process is killed, an agent whose cycle may run in a tick *)
(* is owned by the partition that runs it: no agent acts in two            *)
(* partitions, although ownership moves while partitions wait.             *)
THEOREM OnlyOwnersDo ==
  ASSUME UnpaidJourneys
  PROVE  Spec => []OnlyOwnersAct
<1>1. InboxInv /\ (crashes = 0 => Whole) => OnlyOwnersAct
  <2> SUFFICES ASSUME InboxInv, Whole, NEW p \in Partition, pc[p] = "body",
                      NEW a \in agenda[p], IsAvailable(p, a)
               PROVE  owner[a] = p
    BY DEF OnlyOwnersAct
  <2>1. Calm(p) /\ Working(p)
    BY DEF Whole, PartitionWhole
  <2>2. ~recovering[p]
    BY <2>1 DEF Calm, InTick
  <2>3. DOMAIN working[p] = Owned(p)
    BY <2>1, <2>2 DEF Working
  <2> QED
    BY <2>3 DEF IsAvailable, Owned
<1> QED
  BY <1>1, KnownTypes, WholeUntilAKill, PTL
-----------------------------------------------------------------------------
(* Bounds: a record is at most as old as the clock it lives by, and names  *)
(* settlements that were made.  Kills included; journeys take time, for an *)
(* arrival at once may be older than the clock of its new partition.       *)

Within(proj, n, tokens) ==
  \A a \in DOMAIN proj : proj[a].age <= n /\ proj[a].facts \subseteq tokens

EventWithin(event, n, tokens) ==
  /\ event.type \in {"settled", "credited"} => event.token \in tokens
  /\ event.type = "arrived" => /\ event.record.age <= n
                               /\ event.record.facts \subseteq tokens

EventsWithin(events, n, tokens) ==
  \A i \in 1..Len(events) : EventWithin(events[i], n, tokens)

\* What a partition has, works on, may go back to and may be brought.
BoundsOf(p) ==
  /\ published[p] <= clock[p]
  /\ Within(projection[p], clock[p], DOMAIN operations)
  /\ Within(working[p], clock[p], DOMAIN operations)
  /\ pc[p] \in {"waiting", "ready"} => Within(working[p], ticked[p], DOMAIN operations)
  /\ Within(boundary[p].proj, ticked[p], DOMAIN operations)
  /\ \A t \in DOMAIN operations :
       EventsWithin(operations[t].to[p], clock[p], DOMAIN operations)

\* The clock's ticks and the agents' commands are all that settles.
Bounds ==
  /\ Within(records, now, DOMAIN operations)
  /\ Len(operations) = Settlements + now /\ Settlements <= MaxSettlements
  /\ \A p \in Partition : BoundsOf(p)

LEMMA WithinGrows ==
  ASSUME NEW proj \in World, NEW n \in Nat, NEW m \in Nat, n <= m,
         NEW tokens, NEW more, tokens \subseteq more, Within(proj, n, tokens)
  PROVE  Within(proj, m, more)
<1> SUFFICES ASSUME NEW a \in DOMAIN proj
             PROVE  proj[a].age <= m /\ proj[a].facts \subseteq more
  BY DEF Within
<1>1. proj[a].age \in Nat
  BY Worlds DEF Rec
<1>2. proj[a].age <= n /\ proj[a].facts \subseteq tokens
  BY DEF Within
<1> QED
  BY <1>1, <1>2

LEMMA EventsWithinGrow ==
  ASSUME NEW events \in Seq(Event), NEW n \in Nat, NEW m \in Nat, n <= m,
         NEW tokens, NEW more, tokens \subseteq more, EventsWithin(events, n, tokens)
  PROVE  EventsWithin(events, m, more)
<1> SUFFICES ASSUME NEW i \in 1..Len(events) PROVE EventWithin(events[i], m, more)
  BY DEF EventsWithin
<1>1. events[i] \in Event /\ EventWithin(events[i], n, tokens)
  BY DEF EventsWithin
<1>2. events[i].type = "arrived" => events[i].record.age \in Nat
  BY <1>1 DEF Event, Fact, Handover, Rec
<1> QED
  BY <1>1, <1>2 DEF EventWithin

LEMMA AppliedWithin ==
  ASSUME NEW proj \in World, NEW event \in Event, NEW n \in Nat, NEW tokens,
         Within(proj, n, tokens), EventWithin(event, n, tokens)
  PROVE  Within(Applied(proj, event), n, tokens)
<1>1. CASE event \in Fact
  <2>1. /\ event.type \in {"settled", "credited"} /\ event.token \in tokens
        /\ Applied(proj, event) = WithFact(proj, event.token, event.agents)
    BY <1>1 DEF Fact, Applied, EventWithin
  <2> SUFFICES ASSUME NEW a \in DOMAIN proj
               PROVE  /\ WithFact(proj, event.token, event.agents)[a].age <= n
                      /\ WithFact(proj, event.token, event.agents)[a].facts
                           \subseteq tokens
    BY <2>1 DEF Within, WithFact
  <2>2. proj[a] \in Rec /\ proj[a].age <= n /\ proj[a].facts \subseteq tokens
    BY Worlds DEF Within
  <2>3. WithFact(proj, event.token, event.agents)[a] \in
          {proj[a], [proj[a] EXCEPT !.facts = proj[a].facts \cup {event.token}]}
    BY DEF WithFact
  <2> QED
    BY <2>1, <2>2, <2>3 DEF Rec
<1>2. CASE event \in Handover /\ event.type = "departed"
  <2>1. Applied(proj, event) = Without(proj, event.agent)
    BY <1>2 DEF Applied
  <2> QED
    BY <2>1 DEF Without, Within
<1>3. CASE event \in Handover /\ event.type = "arrived"
  <2>1. /\ Applied(proj, event) = With(proj, event.agent, event.record)
        /\ event.record.age <= n /\ event.record.facts \subseteq tokens
    BY <1>3 DEF Applied, EventWithin
  <2> QED
    BY <2>1 DEF With, Within
<1> QED
  BY <1>1, <1>2, <1>3 DEF Event, Handover

LEMMA AppliedAllWithin ==
  ASSUME NEW proj \in World, NEW events \in Seq(Event), NEW n \in Nat, NEW tokens,
         Within(proj, n, tokens), EventsWithin(events, n, tokens)
  PROVE  /\ AppliedAll(proj, events).proj \in World
         /\ Within(AppliedAll(proj, events).proj, n, tokens)
<1>1. Len(events) \in Nat /\ \A i \in 1..Len(events) : events[i] \in Event
  OBVIOUS
<1>2. PICK state :
        /\ state[0] = [proj |-> proj, sound |-> TRUE]
        /\ \A i \in 1..Len(events) : state[i] = Reduced(state[i - 1], events[i])
        /\ AppliedAll(proj, events) = state[Len(events)]
  BY <1>1, Applying
<1> DEFINE Good(i) == state[i] \in Reduction /\ Within(state[i].proj, n, tokens)
           Bad == {i \in 0..Len(events) : ~Good(i)}
<1>3. Bad = {}
  <2> SUFFICES ASSUME Bad # {} PROVE FALSE
    OBVIOUS
  <2>1. PICK i \in Bad : \A j \in Bad : i <= j
    <3>1. Bad \subseteq Nat
      BY <1>1
    <3> HIDE DEF Bad
    <3> QED
      BY <3>1, Least
  <2>2. i # 0
    <3>1. Good(0)
      BY <1>2 DEF Reduction
    <3> QED
      BY <3>1
  <2>3. i \in 1..Len(events) /\ i - 1 \in 0..Len(events) /\ i - 1 \notin Bad
    BY <1>1, <2>1, <2>2
  <2>4. Good(i - 1)
    BY <2>3
  <2>5. PICK before \in Reduction : before = state[i - 1] /\ Within(before.proj, n, tokens)
    BY <2>4
  <2>6. state[i] = Reduced(before, events[i]) /\ events[i] \in Event
        /\ EventWithin(events[i], n, tokens)
    BY <1>1, <1>2, <2>3, <2>5 DEF EventsWithin
  <2>7. state[i] \in Reduction
    BY <2>6, ReducedTyped
  <2>8. before.proj \in World
    BY DEF Reduction
  <2>9. Within(Applied(before.proj, events[i]), n, tokens)
    BY <2>5, <2>6, <2>8, AppliedWithin
  <2>10. state[i].proj \in {before.proj, Applied(before.proj, events[i])}
    BY <2>6 DEF Reduced, Reduction
  <2>11. Good(i)
    BY <2>5, <2>7, <2>9, <2>10
  <2> QED
    BY <2>11
<1>4. Good(Len(events))
  BY <1>1, <1>3
<1> QED
  BY <1>2, <1>4 DEF Reduction

LEMMA DeliveryWithin ==
  ASSUME AuthorityTypes, NEW p \in Partition, NEW n \in Nat, NEW t \in DOMAIN operations,
         EventsWithin(operations[t].to[p], n, DOMAIN operations)
  PROVE  EventsWithin(DeliveryOf(t, p), n, DOMAIN operations)
<1> DEFINE paid == {a \in operations[t].parties :
                      operations[t].kind = "advance" /\ owner[a] = p}
           credits == [i \in 1..Cardinality(paid) |-> Credited(t, SetToSeq(paid)[i])]
           rest == operations[t].to[p]
<1>1. operations[t] \in Operation
  BY DEF AuthorityTypes
<1>2. operations[t].parties \in SUBSET Agent /\ rest \in Seq(Event)
  BY <1>1 DEF Operation
<1>3. IsFiniteSet(paid) /\ paid \subseteq Agent
  BY <1>2, Constants, FS_Subset
<1> HIDE DEF paid
<1>4. Cardinality(paid) \in Nat
  BY <1>3, Lists
<1>5. \A i \in 1..Cardinality(paid) : EventWithin(Credited(t, SetToSeq(paid)[i]), n, DOMAIN operations)
  BY DEF Credited, EventWithin
<1>6. DeliveryOf(t, p) = credits \o rest
  BY DEF DeliveryOf, paid
<1>7. /\ Len(credits) = Cardinality(paid)
      /\ \A i \in 1..Len(credits) : EventWithin(credits[i], n, DOMAIN operations)
  BY <1>4, <1>5
<1>8. credits = [i \in 1..Len(credits) |-> credits[i]] /\ Len(credits) \in Nat
  BY <1>4
<1> HIDE DEF credits, rest
<1>9. Len(rest) \in Nat /\ Len(credits \o rest) = Len(credits) + Len(rest)
      /\ \A i \in 1..Len(credits \o rest) :
           (credits \o rest)[i] = IF i <= Len(credits) THEN credits[i]
                                  ELSE rest[i - Len(credits)]
  BY <1>2, <1>8
<1>10. ASSUME NEW i \in 1..Len(credits \o rest)
       PROVE  EventWithin((credits \o rest)[i], n, DOMAIN operations)
  <2>1. CASE i <= Len(credits)
    <3>1. (credits \o rest)[i] = credits[i] /\ i \in 1..Len(credits)
      BY <1>8, <1>9, <2>1
    <3> QED
      BY <1>7, <3>1
  <2>2. CASE ~(i <= Len(credits))
    <3>1. /\ (credits \o rest)[i] = rest[i - Len(credits)]
          /\ i - Len(credits) \in 1..Len(rest)
      BY <1>8, <1>9, <2>2
    <3>2. EventWithin(rest[i - Len(credits)], n, DOMAIN operations)
      BY <3>1 DEF EventsWithin, rest
    <3> QED
      BY <3>1, <3>2
  <2> QED
    BY <2>1, <2>2
<1> QED
  BY <1>6, <1>10 DEF EventsWithin

LEMMA TakeWithin ==
  ASSUME AuthorityTypes, NEW p \in Partition, NEW n \in Nat, NEW state \in Reader,
         NEW t \in DOMAIN operations, Within(state.proj, n, DOMAIN operations),
         EventsWithin(operations[t].to[p], n, DOMAIN operations)
  PROVE  Within(TakeDelivery(p, state, t).proj, n, DOMAIN operations)
<1> DEFINE events == DeliveryOf(t, p)
<1>1. events \in Seq(Event) /\ state.proj \in World
  BY DeliveryTyped DEF Reader
<1>2. EventsWithin(events, n, DOMAIN operations)
  BY DeliveryWithin
<1>3. Within(AppliedAll(state.proj, events).proj, n, DOMAIN operations)
  BY <1>1, <1>2, AppliedAllWithin
<1>4. TakeDelivery(p, state, t).proj \in {state.proj, AppliedAll(state.proj, events).proj}
  BY DEF TakeDelivery
<1> QED
  BY <1>3, <1>4

LEMMA ReadWithin ==
  ASSUME AuthorityTypes, NEW p \in Partition, NEW n \in Nat, NEW start \in Reader,
         NEW last \in 0..Len(operations), Within(start.proj, n, DOMAIN operations),
         \A t \in DOMAIN operations :
           EventsWithin(operations[t].to[p], n, DOMAIN operations)
  PROVE  Within(ReadFrom(p, start, last).proj, n, DOMAIN operations)
<1>1. last \in Nat
  BY PendingTokens
<1>2. PICK state :
        /\ state[0] = start
        /\ \A k \in 1..last :
             state[k] = IF k \in Pending(p) THEN TakeDelivery(p, state[k - 1], k)
                                            ELSE state[k - 1]
        /\ ReadFrom(p, start, last) = state[last]
  BY <1>1, Reading
<1> DEFINE Good(k) == state[k] \in Reader /\ Within(state[k].proj, n, DOMAIN operations)
           Bad == {k \in 0..last : ~Good(k)}
<1>3. Bad = {}
  <2> SUFFICES ASSUME Bad # {} PROVE FALSE
    OBVIOUS
  <2>1. PICK k \in Bad : \A j \in Bad : k <= j
    <3>1. Bad \subseteq Nat
      BY <1>1
    <3> HIDE DEF Bad
    <3> QED
      BY <3>1, Least
  <2>2. k \in 1..last /\ k - 1 \in 0..last /\ k - 1 \notin Bad
    BY <1>1, <1>2, <2>1
  <2>3. Good(k - 1)
    BY <2>2
  <2>4. CASE k \in Pending(p)
    <3>1. k \in DOMAIN operations /\ state[k] = TakeDelivery(p, state[k - 1], k)
      BY <1>2, <2>2, <2>4, PendingTokens
    <3>2. Good(k)
      BY <2>3, <3>1, TakeTyped, TakeWithin
    <3> QED
      BY <3>2
  <2>5. CASE k \notin Pending(p)
    BY <1>2, <2>2, <2>3, <2>5
  <2> QED
    BY <2>4, <2>5
<1> QED
  BY <1>1, <1>2, <1>3

LEMMA TakenWithin ==
  ASSUME InboxTypesInv, NEW p \in Partition, BoundsOf(p)
  PROVE  Taken(p).proj \in World /\ Within(Taken(p).proj, clock[p], DOMAIN operations)
<1>1. /\ AuthorityTypes /\ InboxTypes /\ clock[p] \in Nat
      /\ Len(operations) \in 0..Len(operations)
  BY PendingTokens DEF InboxTypesInv, TickTypes
<1>2. Unread(p) \in Reader /\ Within(Unread(p).proj, clock[p], DOMAIN operations)
  BY <1>1, UnreadTyped DEF Unread, BoundsOf
<1>3. Within(Taken(p).proj, clock[p], DOMAIN operations)
  BY <1>1, <1>2, ReadWithin DEF Taken, BoundsOf
<1> QED
  BY <1>1, <1>3, TakenTyped DEF Reader

LEMMA RestartedWithin ==
  ASSUME InboxTypesInv, NEW p \in Partition, NEW n \in Pending(p) \cup {0},
         NEW q \in Partition, BoundsOf(q)
  PROVE  Within(Restarted(p, n, q).proj, clock[q], DOMAIN operations)
<1>1. /\ AuthorityTypes /\ InboxTypes /\ clock[q] \in Nat
      /\ n \in 0..Len(operations) /\ 0 \in 0..Len(operations)
      /\ Len(operations) \in 0..Len(operations)
  BY PendingTokens DEF InboxTypesInv, TickTypes
<1>2. Unread(q) \in Reader /\ Within(Unread(q).proj, clock[q], DOMAIN operations)
  BY <1>1, UnreadTyped DEF Unread, BoundsOf
<1>3. \A t \in DOMAIN operations :
        EventsWithin(operations[t].to[q], clock[q], DOMAIN operations)
  BY DEF BoundsOf
<1>4. /\ AppendedSoFar(p, n, q) \in Reader
      /\ Within(AppendedSoFar(p, n, q).proj, clock[q], DOMAIN operations)
  <2>1. CASE pc[q] = "poisoned"
    <3>1. AppendedSoFar(p, n, q) = [Unread(q) EXCEPT !.outcome = "poisoned"]
      BY <2>1 DEF AppendedSoFar
    <3> QED
      BY <1>2, <3>1 DEF Reader
  <2>2. CASE pc[q] # "poisoned"
    <3>1. PICK last \in 0..Len(operations) :
            AppendedSoFar(p, n, q) = ReadFrom(q, Unread(q), last)
      BY <1>1, <2>2 DEF AppendedSoFar
    <3> QED
      BY <1>1, <1>2, <1>3, <3>1, ReadTyped, ReadWithin
  <2> QED
    BY <2>1, <2>2
<1> QED
  BY <1>1, <1>3, <1>4, ReadWithin DEF Restarted

LEMMA ReportWithin ==
  ASSUME AuthorityTypes, RouterTypes, NEW p \in Partition, NEW proj \in World,
         NEW clocks, NEW n \in Nat, NEW tokens,
         Within(records, n, tokens), Within(proj, n, tokens)
  PROVE  Within(AfterReport(p, proj, clocks).records, n, tokens)
<1> DEFINE after == [a \in (DOMAIN records \ LeftTown(p, proj)) \cup DOMAIN proj |->
                       IF a \in DOMAIN proj THEN proj[a] ELSE records[a]]
<1>1. AfterReport(p, proj, clocks).records \in {records, after}
  BY DEF AfterReport
<1>2. Within(after, n, tokens)
  BY DEF Within
<1> QED
  BY <1>1, <1>2

\* What is brought to q stays within its bounds when operations are added.
LEMMA BroughtWithin ==
  ASSUME InboxTypesInv, NEW q \in Partition, BoundsOf(q), OperationsGrow,
         DOMAIN operations \subseteq DOMAIN operations',
         clock'[q] \in Nat, clock[q] <= clock'[q],
         \A t \in DOMAIN operations' \ DOMAIN operations :
           EventsWithin(operations'[t].to[q], clock'[q], DOMAIN operations')
  PROVE  \A t \in DOMAIN operations' :
           EventsWithin(operations'[t].to[q], clock'[q], DOMAIN operations')
<1>1. clock[q] \in Nat /\ operations \in Seq(Operation)
  BY DEF InboxTypesInv, AuthorityTypes, TickTypes
<1>2. ASSUME NEW t \in DOMAIN operations
      PROVE  EventsWithin(operations'[t].to[q], clock'[q], DOMAIN operations')
  <2>1. operations'[t] = operations[t]
    BY DEF OperationsGrow
  <2>2. operations[t] \in Operation
    BY <1>1
  <2>3. operations[t].to[q] \in Seq(Event)
    BY <2>2 DEF Operation
  <2>4. EventsWithin(operations[t].to[q], clock[q], DOMAIN operations)
    BY DEF BoundsOf
  <2> QED
    BY <1>1, <2>1, <2>3, <2>4, EventsWithinGrow
<1> QED
  BY <1>1, <1>2

\* A partition that a step leaves alone.
LEMMA BoundsElsewhere ==
  ASSUME InboxTypesInv, NEW q \in Partition, BoundsOf(q), OperationsGrow,
         DOMAIN operations \subseteq DOMAIN operations',
         published'[q] = published[q], clock'[q] = clock[q],
         projection'[q] = projection[q], working'[q] = working[q],
         ticked'[q] = ticked[q], boundary'[q] = boundary[q],
         pc'[q] = pc[q] \/ pc'[q] \notin {"waiting", "ready"},
         \A t \in DOMAIN operations' \ DOMAIN operations :
           EventsWithin(operations'[t].to[q], clock'[q], DOMAIN operations')
  PROVE  BoundsOf(q)'
<1>1. /\ clock[q] \in Nat /\ ticked[q] \in Nat
      /\ projection[q] \in World /\ working[q] \in World /\ boundary[q].proj \in World
  BY DEF InboxTypesInv, InboxTypes, TickTypes
<1>2. \A t \in DOMAIN operations' :
        EventsWithin(operations'[t].to[q], clock'[q], DOMAIN operations')
  BY <1>1, BroughtWithin
<1>3. /\ Within(projection[q], clock[q], DOMAIN operations')
      /\ Within(working[q], clock[q], DOMAIN operations')
      /\ Within(boundary[q].proj, ticked[q], DOMAIN operations')
      /\ pc[q] \in {"waiting", "ready"} => Within(working[q], ticked[q], DOMAIN operations')
  BY <1>1, <1>2, WithinGrows DEF BoundsOf
<1> QED
  BY <1>2, <1>3 DEF BoundsOf

\* A step that settles nothing brings nothing.
LEMMA NothingBrought ==
  ASSUME UNCHANGED operations
  PROVE  /\ OperationsGrow /\ DOMAIN operations \subseteq DOMAIN operations'
         /\ DOMAIN operations' \ DOMAIN operations = {}
         /\ DOMAIN operations' = DOMAIN operations /\ Settlements' = Settlements
BY DEF OperationsGrow, Settlements

\* What materializing and publishing leaves.
LEMMA MaterializeFields ==
  ASSUME InboxInv, Timing, NEW p \in Partition, NEW given \in World, NEW clocks,
         Boundary(clocks), NEW place, MaterializeAndPublish(p, given, clocks, place)
  PROVE  /\ UNCHANGED <<operations, now>>
         /\ \A q \in Partition \ {p} :
              /\ published'[q] = published[q] /\ pc'[q] = pc[q]
              /\ projection'[q] = projection[q] /\ working'[q] = working[q]
         /\ pc'[p] \in {place, "failed", "poisoned"}
         /\ published'[p] \in {published[p]} \cup clocks
         /\ working'[p] = (IF recovering[p] THEN given ELSE Taken(p).proj)
         /\ projection'[p] = (IF recovering[p] THEN projection[p] ELSE Taken(p).proj)
         /\ \/ UNCHANGED records
            \/ records' = AfterReport(p, working'[p], clocks).records
<1> DEFINE proj == IF recovering[p] THEN given ELSE Taken(p).proj
<1>1. /\ InboxTypesInv /\ Stamps /\ working \in [Partition -> World]
      /\ projection \in [Partition -> World] /\ pc \in [Partition -> Places]
  BY DEF InboxInv, InboxTypesInv, Timing, TickTypes, InboxTypes
<1>2. /\ UNCHANGED <<operations, now>>
      /\ \A q \in Partition \ {p} : published'[q] = published[q] /\ pc'[q] = pc[q]
      /\ pc'[p] \in {place, "failed", "poisoned"}
      /\ published'[p] \in {published[p]} \cup clocks
  BY <1>1, MaterializeSteps
<1>3. /\ WorkOn(p, proj)
      /\ \/ UNCHANGED authorityState
         \/ AuthorityBecomes(AfterReport(p, proj, clocks))
      /\ \/ recovering[p] /\ UNCHANGED inbox
         \/ ~recovering[p] /\ StreamsTaken(p, Taken(p))
  BY DEF MaterializeAndPublish, Published
<1>4. /\ \A q \in Partition \ {p} : working'[q] = working[q]
      /\ working'[p] = proj
  BY <1>1, <1>3 DEF WorkOn
<1>5. /\ \A q \in Partition \ {p} : projection'[q] = projection[q]
      /\ projection'[p] = (IF recovering[p] THEN projection[p] ELSE Taken(p).proj)
  <2>1. CASE recovering[p] /\ UNCHANGED inbox
    BY <2>1 DEF inbox
  <2>2. CASE ~recovering[p] /\ StreamsTaken(p, Taken(p))
    <3>1. projection' = [projection EXCEPT ![p] = Taken(p).proj]
      BY <2>2 DEF StreamsTaken
    <3> QED
      BY <1>1, <2>2, <3>1
  <2> QED
    BY <1>3, <2>1, <2>2
<1>6. \/ UNCHANGED records
      \/ records' = AfterReport(p, working'[p], clocks).records
  BY <1>3, <1>4 DEF authorityState, AuthorityBecomes
<1> QED
  BY <1>2, <1>4, <1>5, <1>6

LEMMA MaterializeBounds ==
  ASSUME InboxInv, InboxInv', Timing, Bounds, NEW p \in Partition, NEW given \in World,
         NEW clocks, Boundary(clocks), \A c \in clocks : c <= clock[p], NEW place,
         recovering[p] => Within(given, clock[p], DOMAIN operations),
         place \in {"waiting", "ready"} =>
           IF recovering[p] THEN Within(given, ticked[p], DOMAIN operations)
                            ELSE clock[p] = ticked[p],
         MaterializeAndPublish(p, given, clocks, place), UNCHANGED <<clock, lifecycle>>
  PROVE  Bounds'
<1>1. /\ InboxTypesInv /\ AuthorityTypes /\ RouterTypes /\ BoundsOf(p)
      /\ clock[p] \in Nat /\ now \in Nat /\ clock[p] <= now
      /\ \A q \in Partition : BoundsOf(q)
  BY Numbers DEF InboxInv, InboxTypesInv, Bounds, Timing, PublishedTicks
<1>2. PICK proj \in World : proj = working'[p]
  BY DEF InboxInv, InboxTypesInv, TickTypes
<1>3. /\ UNCHANGED <<operations, now, clock, ticked, boundary>>
      /\ \A q \in Partition \ {p} :
           /\ published'[q] = published[q] /\ pc'[q] = pc[q]
           /\ projection'[q] = projection[q] /\ working'[q] = working[q]
      /\ pc'[p] \in {place, "failed", "poisoned"}
      /\ published'[p] \in {published[p]} \cup clocks
      /\ proj = (IF recovering[p] THEN given ELSE Taken(p).proj)
      /\ projection'[p] = (IF recovering[p] THEN projection[p] ELSE Taken(p).proj)
      /\ UNCHANGED records \/ records' = AfterReport(p, proj, clocks).records
  BY <1>2, MaterializeFields DEF lifecycle
<1>4. /\ OperationsGrow /\ DOMAIN operations \subseteq DOMAIN operations'
      /\ DOMAIN operations' \ DOMAIN operations = {}
      /\ DOMAIN operations' = DOMAIN operations /\ Settlements' = Settlements
  BY <1>3, NothingBrought
<1>5. Within(Taken(p).proj, clock[p], DOMAIN operations)
  BY <1>1, TakenWithin
<1>6. Within(proj, clock[p], DOMAIN operations)
  BY <1>3, <1>5
<1>7. Within(projection'[p], clock[p], DOMAIN operations)
  BY <1>1, <1>3, <1>5 DEF BoundsOf
<1>8. Within(records', now, DOMAIN operations)
  <2>1. Within(records, now, DOMAIN operations)
    BY DEF Bounds
  <2>2. Within(proj, now, DOMAIN operations)
    BY <1>1, <1>6, WithinGrows
  <2>3. Within(AfterReport(p, proj, clocks).records, now, DOMAIN operations)
    BY <1>1, <2>1, <2>2, ReportWithin
  <2> QED
    BY <1>3, <2>1, <2>3
<1>9. pc'[p] \in {"waiting", "ready"} => Within(proj, ticked[p], DOMAIN operations)
  BY <1>3, <1>6
<1>10. published'[p] <= clock[p]
  BY <1>1, <1>3 DEF BoundsOf
<1>11. BoundsOf(p)'
  BY <1>1, <1>2, <1>3, <1>6, <1>7, <1>9, <1>10 DEF BoundsOf
<1>12. \A q \in Partition \ {p} : BoundsOf(q)'
  BY <1>1, <1>3, <1>4, BoundsElsewhere
<1> QED
  BY <1>3, <1>4, <1>8, <1>11, <1>12 DEF Bounds

LEMMA PreTickBounds ==
  ASSUME InboxInv, InboxInv', Timing, Bounds, NEW p \in Partition, PreTick(p)
  PROVE  Bounds'
<1> DEFINE place == IF now < Target(p) THEN "waiting" ELSE "ready"
<1>1. /\ pc[p] = "start" /\ UNCHANGED <<clock, lifecycle>>
      /\ MaterializeAndPublish(p, boundary[p].proj, {ClockOf(p)}, place)
  BY DEF PreTick
<1>2. /\ InboxTypesInv /\ TailOfTick(p) /\ BoundsOf(p)
      /\ boundary[p].proj \in World /\ Boundary({ClockOf(p)})
      /\ clock[p] \in Nat /\ ticked[p] \in Nat
  BY ClocksTyped, Numbers DEF InboxInv, InboxTypesInv, Boundary, Timing, Bounds
<1>3. ClockOf(p) = ticked[p] /\ (~recovering[p] => clock[p] = ticked[p])
  BY <1>1, <1>2, ClockAtStart
<1>4. ticked[p] <= clock[p]
  BY <1>2 DEF TailOfTick
<1>5. Within(boundary[p].proj, ticked[p], DOMAIN operations)
  BY <1>2 DEF BoundsOf
<1>6. Within(boundary[p].proj, clock[p], DOMAIN operations)
  BY <1>2, <1>4, <1>5, WithinGrows
<1>7. \A c \in {ClockOf(p)} : c <= clock[p]
  BY <1>3, <1>4
<1> HIDE DEF place
<1> QED
  BY <1>1, <1>2, <1>3, <1>5, <1>6, <1>7, MaterializeBounds

LEMMA PublishInTickBounds ==
  ASSUME InboxInv, InboxInv', Timing, Bounds, NEW p \in Partition,
         DrainAfterCycle(p) \/ FinishTick(p)
  PROVE  Bounds'
<1> DEFINE c == IF recovering[p] THEN Target(p) ELSE clock[p]
<1>1. /\ TailOfTick(p) /\ BoundsOf(p) /\ working[p] \in World
      /\ clock[p] \in Nat /\ ticked[p] \in Nat /\ boundary[p].clock \in Nat
  BY Numbers DEF InboxInv, InboxTypesInv, TickTypes, Timing, Bounds
<1>2. Within(working[p], clock[p], DOMAIN operations)
  BY <1>1 DEF BoundsOf
<1>3. CASE DrainAfterCycle(p)
  <2>1. /\ UNCHANGED <<clock, lifecycle>> /\ Boundary({})
        /\ MaterializeAndPublish(p, working[p], {}, "body")
    BY <1>3 DEF DrainAfterCycle, Boundary
  <2> QED
    BY <1>1, <1>2, <2>1, MaterializeBounds
<1>4. CASE FinishTick(p)
  <2>1. /\ pc[p] = "body" /\ UNCHANGED <<clock, lifecycle>>
        /\ MaterializeAndPublish(p, working[p], {c}, "finished")
    BY <1>4 DEF FinishTick
  <2>2. c = clock[p]
    BY <1>1, <2>1 DEF TailOfTick, InTick, Target, ClockOf
  <2>3. Boundary({c}) /\ \A d \in {c} : d <= clock[p]
    BY <1>1, <2>2 DEF Boundary
  <2> HIDE DEF c
  <2> QED
    BY <1>1, <1>2, <2>1, <2>3, MaterializeBounds
<1> QED
  BY <1>3, <1>4

LEMMA FindAdvancedBounds ==
  ASSUME InboxInv, InboxInv', Timing, Bounds, NEW p \in Partition, FindAdvanced(p)
  PROVE  Bounds'
<1>1. /\ pc[p] = "waiting" /\ LeaveBarrier(p)
      /\ UNCHANGED <<authorityState, operations, now, clock, lifecycle>>
  BY DEF FindAdvanced
<1>2. /\ InboxTypesInv /\ TailOfTick(p) /\ BoundsOf(p) /\ \A q \in Partition : BoundsOf(q)
      /\ working \in [Partition -> World] /\ projection \in [Partition -> World]
      /\ pc \in [Partition -> Places]
  BY DEF InboxInv, InboxTypesInv, TickTypes, InboxTypes, Timing, Bounds
<1>3. ~recovering[p] => clock[p] = ticked[p]
  BY <1>1, <1>2, ClockAtStart
<1>4. UNCHANGED <<published, records, operations, now, clock, ticked, boundary>>
  BY <1>1 DEF authorityState, lifecycle
<1>5. /\ OperationsGrow /\ DOMAIN operations \subseteq DOMAIN operations'
      /\ DOMAIN operations' \ DOMAIN operations = {}
      /\ DOMAIN operations' = DOMAIN operations /\ Settlements' = Settlements
  BY <1>4, NothingBrought
<1>6. Within(Taken(p).proj, clock[p], DOMAIN operations)
  BY <1>2, TakenWithin
<1>7. /\ \A q \in Partition \ {p} :
           /\ projection'[q] = projection[q] /\ working'[q] = working[q] /\ pc'[q] = pc[q]
      /\ \/ /\ recovering[p] /\ pc'[p] = "ready"
            /\ projection'[p] = projection[p] /\ working'[p] = working[p]
         \/ /\ ~recovering[p]
            /\ projection'[p] = Taken(p).proj /\ working'[p] = Taken(p).proj
  <2>1. CASE recovering[p]
    <3>1. Goto(p, "ready") /\ UNCHANGED <<inbox, working>>
      BY <1>1, <2>1 DEF LeaveBarrier
    <3> QED
      BY <1>2, <2>1, <3>1 DEF Goto, inbox
  <2>2. CASE ~recovering[p]
    <3>1. /\ StreamsTaken(p, Taken(p)) /\ WorkOn(p, Taken(p).proj)
          /\ Goto(p, "ready") \/ Goto(p, StuckAt(Taken(p)))
      BY <1>1, <2>2 DEF LeaveBarrier
    <3>2. /\ projection' = [projection EXCEPT ![p] = Taken(p).proj]
          /\ working' = [working EXCEPT ![p] = Taken(p).proj]
      BY <3>1 DEF StreamsTaken, WorkOn
    <3>3. \A q \in Partition \ {p} : pc'[q] = pc[q]
      BY <1>2, <3>1 DEF Goto
    <3> QED
      BY <1>2, <2>2, <3>2, <3>3
  <2> QED
    BY <2>1, <2>2
<1>8. BoundsOf(p)'
  <2>1. CASE recovering[p]
    BY <1>1, <1>2, <1>4, <1>5, <1>7, <2>1 DEF BoundsOf
  <2>2. CASE ~recovering[p]
    BY <1>2, <1>3, <1>4, <1>5, <1>6, <1>7, <2>2 DEF BoundsOf
  <2> QED
    BY <2>1, <2>2
<1>9. \A q \in Partition \ {p} : BoundsOf(q)'
  BY <1>2, <1>4, <1>5, <1>7, BoundsElsewhere
<1> QED
  BY <1>4, <1>5, <1>8, <1>9 DEF Bounds

\* An agent's ageing by one tick.
LEMMA AgedWithin ==
  ASSUME NEW proj \in World, NEW n \in Nat, NEW tokens, Within(proj, n, tokens)
  PROVE  Within(AgedBy(proj, 1), n + 1, tokens)
<1> SUFFICES ASSUME NEW a \in DOMAIN proj
             PROVE  /\ AgedBy(proj, 1)[a].age <= n + 1
                    /\ AgedBy(proj, 1)[a].facts \subseteq tokens
  BY DEF Within, AgedBy
<1>1. proj[a] \in Rec /\ proj[a].age <= n /\ proj[a].facts \subseteq tokens
  BY Worlds DEF Within
<1>2. AgedBy(proj, 1)[a] = [proj[a] EXCEPT !.age = proj[a].age + 1]
  BY DEF AgedBy
<1>3. AgedBy(proj, 1)[a].age = proj[a].age + 1 /\ AgedBy(proj, 1)[a].facts = proj[a].facts
  BY <1>1, <1>2 DEF Rec
<1> QED
  BY <1>1, <1>3 DEF Rec

LEMMA AppendTimeBounds ==
  ASSUME InboxInv, InboxInv', Timing, Bounds, NEW p \in Partition, AppendTime(p)
  PROVE  Bounds'
<1>1. /\ pc[p] = "ready" /\ UNCHANGED <<operations, now, authorityState, lifecycle>>
      /\ \/ /\ recovering[p] /\ tail[p] # <<>> /\ Head(tail[p]) # "time"
            /\ Goto(p, "failed") /\ UNCHANGED <<projection, clock, working>>
         \/ /\ ~(recovering[p] /\ tail[p] # <<>> /\ Head(tail[p]) # "time")
            /\ Goto(p, "body") /\ WorkOn(p, AgedBy(working[p], 1))
            /\ \/ recovering[p] /\ tail[p] # <<>> /\ UNCHANGED <<projection, clock>>
               \/ /\ ~(recovering[p] /\ tail[p] # <<>>)
                  /\ projection' = [projection EXCEPT ![p] = AgedBy(projection[p], 1)]
                  /\ clock' = [clock EXCEPT ![p] = clock[p] + 1]
  BY DEF AppendTime
<1>2. /\ InboxTypesInv /\ TailOfTick(p) /\ BoundsOf(p) /\ \A q \in Partition : BoundsOf(q)
      /\ working \in [Partition -> World] /\ projection \in [Partition -> World]
      /\ pc \in [Partition -> Places] /\ clock \in [Partition -> Nat]
      /\ clock[p] \in Nat /\ ticked[p] \in Nat /\ published[p] \in Nat
      /\ tail[p] \in Seq({"time", "delivery"})
  BY Numbers DEF InboxInv, InboxTypesInv, TickTypes, InboxTypes, Timing, Bounds
<1>3. ~recovering[p] => clock[p] = ticked[p]
  BY <1>1, <1>2, ClockAtStart
<1>4. UNCHANGED <<published, records, operations, now, ticked, boundary>>
  BY <1>1 DEF authorityState, lifecycle
<1>5. /\ OperationsGrow /\ DOMAIN operations \subseteq DOMAIN operations'
      /\ DOMAIN operations' \ DOMAIN operations = {}
      /\ DOMAIN operations' = DOMAIN operations /\ Settlements' = Settlements
  BY <1>4, NothingBrought
<1>6. \A q \in Partition \ {p} :
        /\ projection'[q] = projection[q] /\ working'[q] = working[q] /\ pc'[q] = pc[q]
        /\ clock'[q] = clock[q]
  BY <1>1, <1>2 DEF Goto, WorkOn
<1>7. \A q \in Partition \ {p} : BoundsOf(q)'
  BY <1>2, <1>4, <1>5, <1>6, BoundsElsewhere
<1>8. Within(AgedBy(working[p], 1), ticked[p] + 1, DOMAIN operations)
  BY <1>1, <1>2, AgedWithin DEF BoundsOf
<1>9. BoundsOf(p)'
  <2>1. CASE Goto(p, "failed") /\ UNCHANGED <<projection, clock, working>>
    <3>1. pc'[p] = "failed"
      BY <1>2, <2>1 DEF Goto
    <3> QED
      BY <1>2, <1>4, <1>5, <2>1, <3>1, BoundsElsewhere
  <2>2. CASE /\ recovering[p] /\ tail[p] # <<>> /\ Head(tail[p]) = "time"
             /\ Goto(p, "body") /\ WorkOn(p, AgedBy(working[p], 1))
             /\ UNCHANGED <<projection, clock>>
    <3>1. pc'[p] = "body" /\ working'[p] = AgedBy(working[p], 1)
      BY <1>2, <2>2 DEF Goto, WorkOn
    <3>2. HasTime(tail[p])
      <4>1. 1 \in 1..Len(tail[p]) /\ tail[p][1] = "time"
        BY <1>2, <2>2
      <4> QED
        BY <4>1 DEF HasTime
    <3>3. clock'[p] = ticked[p] + 1 /\ clock'[p] = clock[p]
      BY <1>2, <2>2, <3>2 DEF TailOfTick
    <3> QED
      BY <1>2, <1>4, <1>5, <1>8, <2>2, <3>1, <3>3 DEF BoundsOf
  <2>3. CASE /\ ~recovering[p] /\ Goto(p, "body") /\ WorkOn(p, AgedBy(working[p], 1))
             /\ projection' = [projection EXCEPT ![p] = AgedBy(projection[p], 1)]
             /\ clock' = [clock EXCEPT ![p] = clock[p] + 1]
    <3>1. /\ pc'[p] = "body" /\ working'[p] = AgedBy(working[p], 1)
          /\ projection'[p] = AgedBy(projection[p], 1)
          /\ clock'[p] = clock[p] + 1 /\ clock[p] = ticked[p]
      BY <1>2, <1>3, <2>3 DEF Goto, WorkOn
    <3>2. Within(AgedBy(projection[p], 1), clock[p] + 1, DOMAIN operations)
      BY <1>2, AgedWithin DEF BoundsOf
    <3>3. /\ clock'[p] \in Nat /\ clock[p] <= clock'[p]
          /\ published'[p] <= clock'[p]
      BY <1>2, <1>4, <3>1 DEF BoundsOf
    <3>4. \A t \in DOMAIN operations' :
            EventsWithin(operations'[t].to[p], clock'[p], DOMAIN operations')
      BY <1>2, <1>5, <3>3, BroughtWithin
    <3> QED
      BY <1>2, <1>4, <1>5, <1>8, <3>1, <3>2, <3>3, <3>4 DEF BoundsOf
  <2>4. recovering[p] => tail[p] # <<>>
    BY <1>2 DEF TailOfTick
  <2> QED
    BY <1>1, <2>1, <2>2, <2>3, <2>4
<1> QED
  BY <1>4, <1>5, <1>7, <1>9 DEF Bounds

LEMMA CompleteTickBounds ==
  ASSUME InboxInv, InboxInv', Timing, Bounds, NEW p \in Partition, CompleteTick(p)
  PROVE  Bounds'
<1> DEFINE last == ticked[p] + 1 = MaxTicks
           resumes == recovering[p] /\ Len(tail[p]) > 1 /\ ~last
<1>1. /\ pc[p] = "finished"
      /\ UNCHANGED <<operations, now, authorityState, inbox, clock, working>>
      /\ ticked' = [ticked EXCEPT ![p] = ticked[p] + 1]
      /\ boundary' = [boundary EXCEPT ![p] =
            IF resumes THEN [proj |-> AgedBy(boundary[p].proj, 1),
                             clock |-> boundary[p].clock + 1]
                       ELSE [proj |-> projection[p], clock |-> clock[p]]]
      /\ Goto(p, IF last THEN "done" ELSE "start")
  BY DEF CompleteTick
<1> HIDE DEF resumes
<1>2. /\ InboxTypesInv /\ TailOfTick(p) /\ BoundsOf(p) /\ \A q \in Partition : BoundsOf(q)
      /\ pc \in [Partition -> Places] /\ ticked \in [Partition -> Nat]
      /\ boundary \in [Partition -> [proj : World, clock : Nat]]
      /\ boundary[p].proj \in World /\ ticked[p] \in Nat
  BY ClocksTyped DEF InboxInv, InboxTypesInv, TickTypes, Timing, Bounds
<1>3. UNCHANGED <<published, records, operations, now, projection, working, clock>>
  BY <1>1 DEF authorityState, inbox
<1>4. /\ OperationsGrow /\ DOMAIN operations \subseteq DOMAIN operations'
      /\ DOMAIN operations' \ DOMAIN operations = {}
      /\ DOMAIN operations' = DOMAIN operations /\ Settlements' = Settlements
  BY <1>3, NothingBrought
<1>5. /\ \A q \in Partition \ {p} :
           pc'[q] = pc[q] /\ ticked'[q] = ticked[q] /\ boundary'[q] = boundary[q]
      /\ pc'[p] \in {"done", "start"} /\ ticked'[p] = ticked[p] + 1
      /\ boundary'[p].proj \in {AgedBy(boundary[p].proj, 1), projection[p]}
  BY <1>1, <1>2 DEF Goto
<1>6. clock[p] = ticked[p] + 1
  BY <1>1, <1>2 DEF TailOfTick, InTick
<1>7. Within(AgedBy(boundary[p].proj, 1), ticked[p] + 1, DOMAIN operations)
  BY <1>2, AgedWithin DEF BoundsOf
<1>8. BoundsOf(p)'
  BY <1>2, <1>3, <1>4, <1>5, <1>6, <1>7 DEF BoundsOf
<1>9. \A q \in Partition \ {p} : BoundsOf(q)'
  BY <1>2, <1>3, <1>4, <1>5, BoundsElsewhere
<1> QED
  BY <1>3, <1>4, <1>8, <1>9 DEF Bounds

\* A start that ends here, or is taken up again, changes nothing bounded.
LEMMA RestBounds ==
  ASSUME InboxInv, Bounds, NEW p \in Partition,
         TimesOut(p) \/ AppendRefused(p) \/ Retry(p)
  PROVE  Bounds'
<1>1. /\ UNCHANGED <<operations, now, published, records, projection, working, clock,
                     ticked, boundary>>
      /\ Goto(p, "failed") \/ Goto(p, "start")
  BY DEF TimesOut, AppendRefused, Retry, authorityState, inbox, lifecycle
<1>2. /\ OperationsGrow /\ DOMAIN operations \subseteq DOMAIN operations'
      /\ DOMAIN operations' \ DOMAIN operations = {}
      /\ DOMAIN operations' = DOMAIN operations /\ Settlements' = Settlements
  BY <1>1, NothingBrought
<1>3. \A q \in Partition : pc'[q] = pc[q] \/ pc'[q] \notin {"waiting", "ready"}
  BY <1>1 DEF Goto, InboxInv, InboxTypesInv, TickTypes
<1>4. \A q \in Partition : BoundsOf(q)'
  BY <1>1, <1>2, <1>3, BoundsElsewhere DEF InboxInv, Bounds
<1> QED
  BY <1>1, <1>2, <1>4 DEF Bounds

LEMMA RestartBounds ==
  ASSUME InboxInv, Bounds, KillAndRestart
  PROVE  Bounds'
<1>1. UNCHANGED <<operations, now, published, records, clock, ticked, boundary>>
  BY DEF KillAndRestart, authorityState, lifecycle
<1>2. /\ OperationsGrow /\ DOMAIN operations \subseteq DOMAIN operations'
      /\ DOMAIN operations' = DOMAIN operations /\ Settlements' = Settlements
  BY <1>1, NothingBrought
<1>3. \E p \in Partition : \E n \in Pending(p) \cup {0} :
        /\ projection' = [q \in Partition |-> Restarted(p, n, q).proj]
        /\ working' = projection'
        /\ \A q \in Partition : pc'[q] \notin {"waiting", "ready"}
  <2>1. InboxTypesInv
    BY DEF InboxInv
  <2>2. PICK p \in Partition : \E n \in Pending(p) \cup {0} :
           /\ projection' = [q \in Partition |-> Restarted(p, n, q).proj]
           /\ working' = projection'
           /\ \/ pc' = [q \in Partition |-> "poisoned"]
              \/ pc' = [q \in Partition |->
                      IF pc[q] = "done" \/ ticked[q] = MaxTicks THEN "done"
                      ELSE "start"]
    BY <2>1, RestartSteps
  <2>3. \A q \in Partition : pc'[q] \notin {"waiting", "ready"}
    BY <2>2
  <2> QED
    BY <2>2, <2>3
<1>0. PICK p \in Partition : \E n \in Pending(p) \cup {0} :
        /\ projection' = [q \in Partition |-> Restarted(p, n, q).proj]
        /\ working' = projection'
        /\ \A q \in Partition : pc'[q] \notin {"waiting", "ready"}
  BY <1>3
<1>4. PICK n \in Pending(p) \cup {0} :
        /\ projection' = [q \in Partition |-> Restarted(p, n, q).proj]
        /\ working' = projection'
        /\ \A q \in Partition : pc'[q] \notin {"waiting", "ready"}
  BY <1>0
<1>5. ASSUME NEW q \in Partition PROVE BoundsOf(q)'
  <2>1. BoundsOf(q) /\ InboxTypesInv
    BY DEF Bounds, InboxInv
  <2>2. Within(Restarted(p, n, q).proj, clock[q], DOMAIN operations)
    BY <2>1, RestartedWithin
  <2>3. projection'[q] = Restarted(p, n, q).proj /\ working'[q] = Restarted(p, n, q).proj
    BY <1>4
  <2> QED
    BY <1>1, <1>2, <1>4, <2>1, <2>2, <2>3 DEF BoundsOf
<1> QED
  BY <1>1, <1>2, <1>5 DEF Bounds

\* Only agents' commands count as settlements.
LEMMA SettlementsCount ==
  ASSUME AuthorityTypes, NEW operation \in Operation,
         operations' = Append(operations, operation)
  PROVE  /\ Settlements \in Nat /\ Len(operations) \in Nat
         /\ DOMAIN operations = 1..Len(operations)
         /\ DOMAIN operations' = DOMAIN operations \cup {Len(operations) + 1}
         /\ Len(operations') = Len(operations) + 1
         /\ operations'[Len(operations) + 1] = operation
         /\ OperationsGrow
         /\ operation.kind = "advance" => Settlements' = Settlements
         /\ operation.kind # "advance" => Settlements' = Settlements + 1
<1> DEFINE S == {t \in DOMAIN operations : operations[t].kind # "advance"}
           U == {t \in DOMAIN operations' : operations'[t].kind # "advance"}
           new == Len(operations) + 1
<1>1. /\ Len(operations) \in Nat /\ DOMAIN operations = 1..Len(operations)
      /\ Len(operations') = new /\ DOMAIN operations' = 1..new
      /\ operations'[new] = operation
      /\ \A t \in 1..Len(operations) : operations'[t] = operations[t]
  BY DEF AuthorityTypes
<1>2. DOMAIN operations' = DOMAIN operations \cup {new} /\ new \notin DOMAIN operations
  BY <1>1
<1>3. IsFiniteSet(S) /\ new \notin S
  <2>1. 1 \in Int /\ Len(operations) \in Int
    BY <1>1
  <2>2. IsFiniteSet(1..Len(operations)) /\ S \subseteq 1..Len(operations)
    BY <1>1, <2>1, FS_Interval
  <2> QED
    BY <1>2, <2>2, FS_Subset
<1>4. Settlements = Cardinality(S) /\ Settlements' = Cardinality(U)
      /\ Cardinality(S) \in Nat
  BY <1>3, FS_CardinalityType DEF Settlements
<1>5. operation.kind = "advance" => U = S
  BY <1>1, <1>2
<1>6. operation.kind # "advance" => U = S \cup {new}
  BY <1>1, <1>2
<1> HIDE DEF S, U
<1>7. Cardinality(S \cup {new}) = Cardinality(S) + 1
  BY <1>3, FS_AddElement
<1>8. OperationsGrow
  BY <1>1 DEF OperationsGrow
<1> QED
  BY <1>1, <1>2, <1>4, <1>5, <1>6, <1>7, <1>8

LEMMA FactWithin ==
  ASSUME NEW proj \in World, NEW n \in Nat, NEW m \in Nat, n <= m, NEW tokens,
         Within(proj, n, tokens), NEW token, NEW agents
  PROVE  Within(WithFact(proj, token, agents), m, tokens \cup {token})
<1> SUFFICES ASSUME NEW a \in DOMAIN proj
             PROVE  /\ WithFact(proj, token, agents)[a].age <= m
                    /\ WithFact(proj, token, agents)[a].facts \subseteq tokens \cup {token}
  BY DEF Within, WithFact
<1>1. proj[a] \in Rec /\ proj[a].age <= n /\ proj[a].facts \subseteq tokens
  BY Worlds DEF Within
<1>2. WithFact(proj, token, agents)[a] \in
        {proj[a], [proj[a] EXCEPT !.facts = proj[a].facts \cup {token}]}
  BY DEF WithFact
<1> QED
  BY <1>1, <1>2 DEF Rec

LEMMA AdvanceBounds ==
  ASSUME InboxInv, InboxInv', Timing, Bounds, NEW p \in Partition, Advance(p)
  PROVE  Bounds'
<1> DEFINE new == Len(operations) + 1
           settled == WithFact(records, new, Depositors \cap DOMAIN records)
           tokens == DOMAIN operations \cup {new}
<1>1. /\ pc[p] = "waiting" /\ now < Target(p) /\ BarrierIsOpen /\ now' = Target(p)
      /\ operations' = Append(operations, AdvanceOf(Target(p)))
      /\ records' = settled
      /\ UNCHANGED <<published, projection, clock, ticked, boundary, pc, working>>
  BY DEF Advance, AdvanceTime, AdvanceOf, HandoverAt, inbox, lifecycle
<1>2. /\ InboxTypesInv /\ AuthorityTypes /\ TailOfTick(p) /\ PublishedTicks(p)
      /\ records \in World /\ DOMAIN pendingMoves \subseteq DOMAIN records
      /\ clock \in [Partition -> Nat] /\ published \in [Partition -> Nat]
      /\ ticked[p] \in Nat /\ published[p] \in Nat /\ now \in Nat
      /\ \A q \in Partition : BoundsOf(q)
  BY Numbers DEF InboxInv, InboxTypesInv, AuthorityTypes, TickTypes, Timing, Bounds,
     Known, Authority
<1>3. now' = now + 1 /\ Target(p) \in Nat
  <2>1. Target(p) = ticked[p] + 1
    BY <1>1, <1>2, ClockAtStart
  <2> QED
    BY <1>1, <1>2, <2>1 DEF PublishedTicks
<1>4. AdvanceOf(Target(p)) \in Operation /\ AdvanceOf(Target(p)).kind = "advance"
  BY <1>2, <1>3, AdvanceOfTyped DEF AdvanceOf
<1>5. /\ Len(operations) \in Nat /\ Len(operations') = new
      /\ DOMAIN operations' = tokens /\ operations'[new] = AdvanceOf(Target(p))
      /\ OperationsGrow /\ Settlements' = Settlements /\ Settlements \in Nat
  BY <1>1, <1>2, <1>4, SettlementsCount
<1>6. Within(records, now, DOMAIN operations)
      /\ Len(operations) = Settlements + now /\ Settlements <= MaxSettlements
  BY DEF Bounds
<1>7. Within(settled, now + 1, tokens) /\ Within(settled, now, tokens)
  <2>1. now <= now + 1 /\ now <= now /\ now + 1 \in Nat
    BY <1>2
  <2> QED
    BY <1>2, <1>6, <2>1, FactWithin
<1>8. DOMAIN settled = DOMAIN records /\ settled \in World
  <2>1. /\ new \in Nat /\ Depositors \cap DOMAIN records \in SUBSET Agent
        /\ records \in World
    BY <1>2, <1>5, Constants
  <2> QED
    BY <2>1, WorldChanges
<1> HIDE DEF settled
<1>9. ASSUME NEW q \in Partition PROVE BoundsOf(q)'
  <2> DEFINE S == HandoverAt(Target(p), q)
  <2>1. now <= clock[q] /\ clock[q] \in Nat
    <3>1. published[q] >= now /\ published[q] <= clock[q]
          /\ published[q] \in Nat /\ clock[q] \in Nat
      BY <1>1, <1>2 DEF BarrierIsOpen, BoundsOf
    <3> QED
      BY <1>2, <3>1
  <2>2. \A event \in S : EventWithin(event, clock[q], tokens)
    <3> SUFFICES ASSUME NEW event \in S PROVE EventWithin(event, clock[q], tokens)
      OBVIOUS
    <3>1. PICK a \in Arriving(Target(p)) :
            event \in {Departed(a, settled[a]), Arrived(a, settled[a])}
      BY DEF HandoverAt, settled
    <3>2. a \in DOMAIN settled
      BY <1>2, <1>8, <3>1 DEF Arriving
    <3>3. /\ settled[a].age <= now /\ settled[a].facts \subseteq tokens
          /\ settled[a].age \in Nat
      BY <1>7, <1>8, <3>2, Worlds DEF Within, Rec
    <3>4. settled[a].age <= clock[q]
      BY <1>2, <2>1, <3>3
    <3> HIDE DEF tokens
    <3> QED
      BY <3>1, <3>3, <3>4 DEF EventWithin, Departed, Arrived
  <2>3. IsFiniteSet(S) /\ S \subseteq Event
    BY <1>2, <1>3, HandoverTyped
  <2> HIDE DEF S
  <2>4. SetToSeq(S) \in Seq(S)
    <3>1. Cardinality(S) \in Nat /\ SetToSeq(S) \in [1..Cardinality(S) -> S]
      BY <2>3, Lists
    <3> QED
      BY <3>1
  <2>5. EventsWithin(SetToSeq(S), clock[q], tokens)
    <3>1. \A i \in 1..Len(SetToSeq(S)) : SetToSeq(S)[i] \in S
      BY <2>4
    <3> HIDE DEF tokens
    <3> QED
      BY <2>2, <3>1 DEF EventsWithin
  <2>6. AdvanceOf(Target(p)).to[q] = SetToSeq(S)
    BY DEF AdvanceOf, S
  <2>7. \A t \in DOMAIN operations' \ DOMAIN operations :
          EventsWithin(operations'[t].to[q], clock'[q], DOMAIN operations')
    BY <1>1, <1>5, <2>5, <2>6
  <2>8. BoundsOf(q) /\ DOMAIN operations \subseteq DOMAIN operations'
    BY <1>2, <1>5
  <2> QED
    BY <1>1, <1>2, <1>5, <2>7, <2>8, BoundsElsewhere
<1>10. Within(records', now', DOMAIN operations')
  BY <1>1, <1>3, <1>5, <1>7
<1>11. Len(operations') = Settlements' + now'
  BY <1>2, <1>3, <1>5, <1>6
<1> QED
  BY <1>5, <1>6, <1>9, <1>10, <1>11 DEF Bounds

\* What a command settles stays within the bounds.
MadeWithin(made) ==
  /\ made.operation \in Operation /\ made.operation.kind # "advance"
  /\ Within(made.state.records, now, DOMAIN operations \cup {Len(operations) + 1})
  /\ \A q \in Partition :
       EventsWithin(made.operation.to[q], clock[q],
                    DOMAIN operations \cup {Len(operations) + 1})

LEMMA TransferWithin ==
  ASSUME InboxTypesInv, NEW p \in Partition, NEW a \in Agent, NEW b \in Agent,
         NEW state, AuthorityFields(state), Known(state),
         Within(state.records, now, DOMAIN operations)
  PROVE  MadeWithin(Transfer(p, a, b, state))
<1> DEFINE new == Len(operations) + 1
           made == Transfer(p, a, b, state)
           tokens == DOMAIN operations \cup {new}
<1>1. made.operation \in Operation /\ made.operation.kind # "advance"
  <2>1. made.operation.kind = "transfer"
    BY DEF Transfer
  <2> QED
    BY <2>1, TransferTyped DEF InboxTypesInv
<1>2. made.state.records = WithFact(state.records, new, {a, b})
  BY DEF Transfer, AuthorityFields
<1>3. Within(made.state.records, now, tokens)
  <2>1. state.records \in World /\ now \in Nat /\ now <= now
    BY DEF AuthorityFields, InboxTypesInv, AuthorityTypes
  <2> QED
    BY <1>2, <2>1, FactWithin
<1>4. ASSUME NEW q \in Partition
      PROVE  EventsWithin(made.operation.to[q], clock[q], tokens)
  <2>1. made.operation.to[q] \in {<<>>, <<Settled(new, {a, b})>>}
    BY DEF Transfer
  <2>2. EventWithin(Settled(new, {a, b}), clock[q], tokens)
    BY DEF EventWithin, Settled
  <2> HIDE DEF made, tokens
  <2> QED
    BY <2>1, <2>2 DEF EventsWithin
<1> QED
  BY <1>1, <1>3, <1>4 DEF MadeWithin

LEMMA MoveWithin ==
  ASSUME TravelTicks > 0, InboxTypesInv, NEW p \in Partition, NEW a \in Agent,
         NEW q \in Partition, NEW state, AuthorityFields(state), Known(state),
         Within(state.records, now, DOMAIN operations), Move(p, a, q, state).enabled
  PROVE  MadeWithin(Move(p, a, q, state))
<1> DEFINE new == Len(operations) + 1
           made == Move(p, a, q, state)
           tokens == DOMAIN operations \cup {new}
<1>1. made.operation \in Operation /\ made.operation.kind # "advance"
  <2>1. made.operation.kind = "move"
    BY DEF Move
  <2> QED
    BY <2>1, MoveTyped DEF InboxTypesInv
<1>2. made.state.records = WithFact(state.records, new, {a})
  BY DEF Move, AuthorityFields
<1>3. Within(made.state.records, now, tokens)
  <2>1. state.records \in World /\ now \in Nat /\ now <= now
    BY DEF AuthorityFields, InboxTypesInv, AuthorityTypes
  <2> QED
    BY <1>2, <2>1, FactWithin
<1>4. ASSUME NEW r \in Partition
      PROVE  EventsWithin(made.operation.to[r], clock[r], tokens)
  <2>1. ~(TravelTicks = 0)
    BY Constants
  <2>2. made.operation.to[r] \in {<<>>, <<Settled(new, {a})>> \o <<>>}
    BY <2>1 DEF Move
  <2>3. <<Settled(new, {a})>> \o <<>> = <<Settled(new, {a})>>
    OBVIOUS
  <2>4. EventWithin(Settled(new, {a}), clock[r], tokens)
    BY DEF EventWithin, Settled
  <2> HIDE DEF made, tokens
  <2> QED
    BY <2>2, <2>3, <2>4 DEF EventsWithin
<1> QED
  BY <1>1, <1>3, <1>4 DEF MadeWithin

LEMMA CycleBounds ==
  ASSUME InboxInv, InboxInv', Timing, Bounds, NEW p \in Partition, NEW a, NEW made,
         NEW key, made.enabled => MadeWithin(made),
         made.state.published = AfterReport(p, working[p], {}).published,
         Cycle(p, a, made, key)
  PROVE  Bounds'
<1> DEFINE state == AfterReport(p, working[p], {})
           known == SettlementOf(key)
           t == CHOOSE t \in known : TRUE
<1>1. /\ pc[p] = "body" /\ UNCHANGED <<now, projection, clock, ticked, boundary>>
      /\ \/ /\ Goto(p, "failed")
            /\ UNCHANGED <<operations, published, records, working>>
         \/ /\ Goto(p, "drain") /\ known # {} /\ AuthorityBecomes(state)
            /\ UNCHANGED operations
            /\ WorkOn(p, AppliedAll(working[p], operations[t].to[p]).proj)
         \/ /\ Goto(p, "drain") /\ Settlements < MaxSettlements /\ made.enabled
            /\ AuthorityBecomes(made.state)
            /\ operations' = Append(operations, made.operation)
            /\ WorkOn(p, AppliedAll(working[p], made.operation.to[p]).proj)
  BY DEF Cycle, inbox, lifecycle, authorityState
<1>2. /\ InboxTypesInv /\ AuthorityTypes /\ RouterTypes /\ working[p] \in World
      /\ pc \in [Partition -> Places] /\ working \in [Partition -> World]
      /\ published \in [Partition -> Nat] /\ clock \in [Partition -> Nat]
      /\ clock[p] \in Nat /\ now \in Nat /\ clock[p] <= now
      /\ BoundsOf(p) /\ \A q \in Partition : BoundsOf(q)
  BY Numbers DEF InboxInv, InboxTypesInv, AuthorityTypes, TickTypes, Timing,
     PublishedTicks, Bounds
<1>3. /\ \A q \in Partition \ {p} : pc'[q] = pc[q] /\ working'[q] = working[q]
      /\ pc'[p] \notin {"waiting", "ready"}
  BY <1>1, <1>2 DEF Goto, WorkOn
<1>4. /\ state.published = published
      /\ Within(state.records, now, DOMAIN operations)
  <2>1. state.published \in {published, [published EXCEPT ![p] = published[p]]}
    BY DEF AfterReport
  <2>2. Within(working[p], now, DOMAIN operations)
    BY <1>2, WithinGrows DEF BoundsOf
  <2>3. Within(records, now, DOMAIN operations)
    BY DEF Bounds
  <2> QED
    BY <1>2, <2>1, <2>2, <2>3, ReportWithin
<1> HIDE DEF state
<1>5. UNCHANGED published
  BY <1>1, <1>4 DEF AuthorityBecomes, state
<1>6. Within(working[p], clock[p], DOMAIN operations)
  BY <1>2 DEF BoundsOf
<1>7. /\ Within(records, now, DOMAIN operations)
      /\ Len(operations) = Settlements + now /\ Settlements <= MaxSettlements
  BY DEF Bounds
<1>8. CASE UNCHANGED operations
  <2>1. /\ OperationsGrow /\ DOMAIN operations \subseteq DOMAIN operations'
        /\ DOMAIN operations' \ DOMAIN operations = {}
        /\ DOMAIN operations' = DOMAIN operations /\ Settlements' = Settlements
    BY <1>8, NothingBrought
  <2>2. operations' # Append(operations, made.operation)
    <3>1. \A any : Append(operations, any) # operations
      <4> SUFFICES ASSUME NEW any PROVE Append(operations, any) # operations
        OBVIOUS
      <4>1. Len(operations) \in Nat
        BY <1>2 DEF AuthorityTypes
      <4>2. Len(Append(operations, any)) = Len(operations) + 1
        BY <1>2 DEF AuthorityTypes
      <4> QED
        BY <4>1, <4>2
    <3> QED
      BY <1>8, <3>1
  <2>3. CASE UNCHANGED <<published, records, working>>
    <3>1. \A q \in Partition : BoundsOf(q)'
      BY <1>1, <1>2, <1>3, <1>8, <2>1, <2>3, BoundsElsewhere
    <3> QED
      BY <1>1, <1>7, <1>8, <2>1, <2>3, <3>1 DEF Bounds
  <2>4. CASE /\ known # {} /\ AuthorityBecomes(state)
             /\ WorkOn(p, AppliedAll(working[p], operations[t].to[p]).proj)
    <3>1. t \in DOMAIN operations
      BY <2>4 DEF SettlementOf
    <3> HIDE DEF t, known
    <3>2. operations[t] \in Operation
      BY <1>2, <3>1 DEF AuthorityTypes
    <3>3. /\ operations[t].to[p] \in Seq(Event)
          /\ EventsWithin(operations[t].to[p], clock[p], DOMAIN operations)
      BY <1>2, <3>1, <3>2 DEF Operation, BoundsOf
    <3>4. Within(AppliedAll(working[p], operations[t].to[p]).proj, clock[p],
                 DOMAIN operations)
      BY <1>2, <1>6, <3>3, AppliedAllWithin
    <3>5. working'[p] = AppliedAll(working[p], operations[t].to[p]).proj
      BY <1>2, <2>4 DEF WorkOn
    <3>6. BoundsOf(p)'
      BY <1>1, <1>2, <1>3, <1>5, <2>1, <1>8, <3>4, <3>5 DEF BoundsOf
    <3>7. \A q \in Partition \ {p} : BoundsOf(q)'
      BY <1>1, <1>2, <1>3, <1>5, <2>1, BoundsElsewhere
    <3>8. records' = state.records
      BY <2>4 DEF AuthorityBecomes
    <3> QED
      BY <1>1, <1>4, <1>7, <1>8, <2>1, <3>6, <3>7, <3>8 DEF Bounds
  <2> QED
    BY <1>1, <2>2, <2>3, <2>4
<1>9. CASE /\ Settlements < MaxSettlements /\ made.enabled
           /\ AuthorityBecomes(made.state)
           /\ operations' = Append(operations, made.operation)
           /\ WorkOn(p, AppliedAll(working[p], made.operation.to[p]).proj)
  <2> DEFINE new == Len(operations) + 1
             tokens == DOMAIN operations \cup {new}
  <2>1. /\ made.operation \in Operation /\ made.operation.kind # "advance"
        /\ Within(made.state.records, now, tokens)
        /\ \A q \in Partition : EventsWithin(made.operation.to[q], clock[q], tokens)
    BY <1>9 DEF MadeWithin
  <2>2. /\ DOMAIN operations' = tokens /\ Len(operations') = new
        /\ operations'[new] = made.operation /\ OperationsGrow
        /\ Settlements' = Settlements + 1 /\ Settlements \in Nat
        /\ Len(operations) \in Nat
    BY <1>2, <1>9, <2>1, SettlementsCount
  <2>3. made.operation.to[p] \in Seq(Event)
    BY <2>1 DEF Operation
  <2>4. Within(working[p], clock[p], tokens)
    BY <1>2, <1>6, WithinGrows
  <2>5. Within(AppliedAll(working[p], made.operation.to[p]).proj, clock[p], tokens)
    BY <1>2, <2>1, <2>3, <2>4, AppliedAllWithin
  <2>6. working'[p] = AppliedAll(working[p], made.operation.to[p]).proj
    BY <1>2, <1>9 DEF WorkOn
  <2>7. \A q \in Partition :
          \A u \in DOMAIN operations' \ DOMAIN operations :
            EventsWithin(operations'[u].to[q], clock'[q], DOMAIN operations')
    BY <1>1, <2>1, <2>2
  <2>8. \A q \in Partition \ {p} : BoundsOf(q)'
    BY <1>1, <1>2, <1>3, <1>5, <2>2, <2>7, BoundsElsewhere
  <2>9. BoundsOf(p)'
    <3>1. \A u \in DOMAIN operations' :
            EventsWithin(operations'[u].to[p], clock'[p], DOMAIN operations')
      <4>1. clock'[p] \in Nat /\ clock[p] <= clock'[p]
        BY <1>1, <1>2
      <4> QED
        BY <1>2, <2>2, <2>7, <4>1, BroughtWithin
    <3>2. /\ Within(projection[p], clock[p], tokens)
          /\ Within(boundary[p].proj, ticked[p], tokens)
      <4>1. /\ projection[p] \in World /\ boundary[p].proj \in World /\ ticked[p] \in Nat
        BY <1>2, ClocksTyped DEF InboxTypesInv, InboxTypes, TickTypes
      <4>2. DOMAIN operations \subseteq tokens /\ clock[p] <= clock[p]
            /\ ticked[p] <= ticked[p]
        BY <1>2, <4>1
      <4> QED
        BY <1>2, <4>1, <4>2, WithinGrows DEF BoundsOf
    <3>3. published[p] <= clock[p]
      BY <1>2 DEF BoundsOf
    <3> HIDE DEF tokens
    <3> QED
      BY <1>1, <1>3, <1>5, <2>2, <2>5, <2>6, <3>1, <3>2, <3>3 DEF BoundsOf
  <2>10. Within(records', now', DOMAIN operations')
    BY <1>1, <1>9, <2>1, <2>2 DEF AuthorityBecomes
  <2>11. /\ Len(operations') = Settlements' + now' /\ Settlements' <= MaxSettlements
    <3>1. MaxSettlements \in Nat
      BY Constants
    <3> QED
      BY <1>1, <1>2, <1>7, <1>9, <2>2, <3>1
  <2> QED
    BY <2>8, <2>9, <2>10, <2>11 DEF Bounds
<1> QED
  BY <1>1, <1>8, <1>9

LEMMA AgentStepsBounds ==
  ASSUME TravelTicks > 0, InboxInv, InboxInv', Timing, Bounds, NEW p \in Partition,
         NEW a \in Agent, TransferCycle(p, a) \/ MoveCycle(p, a)
  PROVE  Bounds'
<1> DEFINE state == AfterReport(p, working[p], {})
<1>1. /\ InboxTypesInv /\ AuthorityTypes /\ RouterTypes /\ Known(Authority)
      /\ working[p] \in World /\ Boundary({}) /\ clock[p] \in Nat /\ now \in Nat
      /\ clock[p] <= now /\ BoundsOf(p)
  BY Numbers DEF InboxInv, InboxTypesInv, TickTypes, Boundary, Timing, PublishedTicks,
     Bounds
<1>2. AuthorityFields(state) /\ Known(state)
  BY <1>1, ReportTyped, ReportKnown
<1>3. Within(state.records, now, DOMAIN operations)
  <2>1. Within(working[p], now, DOMAIN operations)
    BY <1>1, WithinGrows DEF BoundsOf
  <2>2. Within(records, now, DOMAIN operations)
    BY DEF Bounds
  <2> QED
    BY <1>1, <2>1, <2>2, ReportWithin
<1>4. CASE TransferCycle(p, a)
  <2>1. PICK b \in Agent : Cycle(p, a, Transfer(p, a, b, state), KeyOf(p, a, "transfer"))
    BY <1>4 DEF TransferCycle
  <2> DEFINE made == Transfer(p, a, b, state)
  <2> HIDE DEF state
  <2>2. MadeWithin(made)
    BY <1>1, <1>2, <1>3, TransferWithin
  <2>3. made.state.published = state.published
    BY <1>2 DEF Transfer, AuthorityFields
  <2> HIDE DEF made
  <2>4. Cycle(p, a, made, KeyOf(p, a, "transfer"))
    BY <2>1 DEF made
  <2> QED
    BY <2>2, <2>3, <2>4, CycleBounds DEF state
<1>5. CASE MoveCycle(p, a)
  <2>1. PICK q \in Partition : Cycle(p, a, Move(p, a, q, state), KeyOf(p, a, "move"))
    BY <1>5 DEF MoveCycle
  <2> DEFINE made == Move(p, a, q, state)
  <2> HIDE DEF state
  <2>2. made.enabled => MadeWithin(made)
    BY <1>1, <1>2, <1>3, MoveWithin
  <2>3. made.state.published = state.published
    BY <1>2 DEF Move, AuthorityFields
  <2> HIDE DEF made
  <2>4. Cycle(p, a, made, KeyOf(p, a, "move"))
    BY <2>1 DEF made
  <2> QED
    BY <2>2, <2>3, <2>4, CycleBounds DEF state
<1> QED
  BY <1>4, <1>5

LEMMA InitBounds ==
  ASSUME Init
  PROVE  Bounds
<1>1. operations = <<>> /\ DOMAIN operations = {} /\ Len(operations) = 0 /\ now = 0
  BY DEF Init
<1>2. Settlements = 0
  <2>1. {t \in DOMAIN operations : operations[t].kind # "advance"} = {}
    BY <1>1
  <2> QED
    BY <2>1, FS_EmptySet DEF Settlements
<1>3. Within(records, now, DOMAIN operations)
  BY <1>1 DEF Init, Within, NewRecord
<1>4. ASSUME NEW p \in Partition PROVE BoundsOf(p)
  <2>1. /\ published[p] = 0 /\ clock[p] = 0 /\ ticked[p] = 0
        /\ projection[p] = [a \in {b \in Agent : Home[b] = p} |-> NewRecord]
        /\ working[p] = projection[p] /\ boundary[p].proj = projection[p]
    BY DEF Init
  <2>2. Within(projection[p], 0, DOMAIN operations)
    BY <2>1 DEF Within, NewRecord
  <2> QED
    BY <1>1, <2>1, <2>2 DEF BoundsOf
<1>5. MaxSettlements \in Nat
  BY Constants
<1> QED
  BY <1>1, <1>2, <1>3, <1>4, <1>5 DEF Bounds

LEMMA StepsBounds ==
  ASSUME TravelTicks > 0, InboxInv, InboxInv', Timing, Bounds, [Next]_vars
  PROVE  Bounds'
<1>1. CASE UNCHANGED vars
  <2>1. UNCHANGED <<operations, now, published, records, projection, working, clock,
                    ticked, boundary, pc>>
    BY <1>1 DEF vars, authorityState, inbox, lifecycle
  <2>2. /\ OperationsGrow /\ DOMAIN operations \subseteq DOMAIN operations'
        /\ DOMAIN operations' \ DOMAIN operations = {}
        /\ DOMAIN operations' = DOMAIN operations /\ Settlements' = Settlements
    BY <2>1, NothingBrought
  <2>3. \A q \in Partition : BoundsOf(q)'
    BY <2>1, <2>2, BoundsElsewhere DEF InboxInv, Bounds
  <2> QED
    BY <2>1, <2>2, <2>3 DEF Bounds
<1>2. CASE KillAndRestart
  BY <1>2, RestartBounds
<1>3. ASSUME NEW p \in Partition, Step(p) \/ TimesOut(p)
      PROVE  Bounds'
  BY <1>3, PreTickBounds, FindAdvancedBounds, AdvanceBounds, AppendTimeBounds,
     AgentStepsBounds, PublishInTickBounds, CompleteTickBounds, RestBounds DEF Step
<1> QED
  BY <1>1, <1>2, <1>3 DEF Next

\* A world within bounds no greater than the run's is a projection.
LEMMA ProjectionWithin ==
  ASSUME NEW proj \in World, NEW n \in Nat, n <= MaxTicks, NEW tokens,
         tokens \subseteq Token, Within(proj, n, tokens)
  PROVE  proj \in Projection /\ \A a \in DOMAIN proj : proj[a] \in Record
<1>1. /\ DOMAIN proj \in SUBSET Agent /\ proj = [a \in DOMAIN proj |-> proj[a]]
      /\ \A a \in DOMAIN proj : proj[a] \in Rec
  BY Worlds
<1>2. ASSUME NEW a \in DOMAIN proj PROVE proj[a] \in Record
  <2>1. /\ proj[a] \in Rec /\ proj[a].age <= MaxTicks
        /\ proj[a].facts \subseteq Token
    <3>1. proj[a].age <= n /\ proj[a].facts \subseteq tokens /\ proj[a].age \in Nat
      BY <1>1 DEF Within, Rec
    <3> QED
      BY <1>1, <3>1, Constants
  <2>2. proj[a].age \in 0..MaxTicks
    BY <2>1, Constants DEF Rec
  <2>3. proj[a] = [age |-> proj[a].age, facts |-> proj[a].facts]
    BY <2>1 DEF Rec
  <2> HIDE DEF Token
  <2> QED
    BY <2>1, <2>2, <2>3 DEF Record
<1>3. proj \in [DOMAIN proj -> Record]
  BY <1>1, <1>2
<1> QED
  BY <1>1, <1>2, <1>3 DEF Projection

(* Kills included, where journeys take time: every variable keeps its type *)
(* with its bounds.  No record, the authority's or a partition's, is older *)
(* than the run has ticks, none names a settlement that was not made, and  *)
(* the settlements are the ticks' and the agents' commands.                *)
THEOREM InboxTypesCorrect ==
  ASSUME TravelTicks > 0
  PROVE  Spec => []TypeOK
<1>1. Init => Bounds
  BY InitBounds
<1>2. InboxInv /\ InboxInv' /\ Timing /\ Bounds /\ [Next]_vars => Bounds'
  BY StepsBounds
<1>3. InboxInv /\ Timing /\ Bounds => TypeOK
  <2> SUFFICES ASSUME InboxInv, Timing, Bounds PROVE TypeOK
    OBVIOUS
  <2>1. /\ AuthorityTypes /\ InboxTypes /\ TickTypes /\ RouterTypes /\ InboxTypesInv
        /\ Known(Authority) /\ now \in Nat /\ now <= MaxTicks
        /\ MaxTicks \in Nat /\ MaxSettlements \in Nat
    BY Constants DEF InboxInv, InboxTypesInv, AuthorityTypes, Timing
  <2>2. /\ Len(operations) \in Nat /\ DOMAIN operations = 1..Len(operations)
        /\ Len(operations) = Settlements + now /\ Settlements <= MaxSettlements
    BY <2>1, PendingTokens DEF Bounds
  <2>3. Settlements \in Nat
    <3> DEFINE S == {t \in DOMAIN operations : operations[t].kind # "advance"}
    <3>1. IsFiniteSet(S)
      <4>1. 1 \in Int /\ Len(operations) \in Int
        BY <2>2
      <4>2. IsFiniteSet(1..Len(operations)) /\ S \subseteq 1..Len(operations)
        BY <2>2, <4>1, FS_Interval
      <4> QED
        BY <4>2, FS_Subset
    <3> QED
      BY <3>1, FS_CardinalityType DEF Settlements
  <2>4. Len(operations) \in {0} \cup Token /\ DOMAIN operations \subseteq Token
    BY <2>1, <2>2, <2>3 DEF Token
  <2>5. ASSUME NEW p \in Partition
        PROVE  /\ projection[p] \in Projection /\ working[p] \in Projection
               /\ boundary[p].proj \in Projection
               /\ published[p] \in 0..MaxTicks /\ clock[p] \in 0..MaxTicks
               /\ ticked[p] \in 0..MaxTicks /\ cursor[p] \in 0..Len(operations)
    <3>1. /\ BoundsOf(p) /\ PublishedTicks(p) /\ clock[p] \in Nat /\ ticked[p] \in Nat
          /\ published[p] \in Nat /\ cursor[p] \in Nat /\ cursor[p] <= Len(operations)
          /\ projection[p] \in World /\ working[p] \in World /\ boundary[p].proj \in World
      BY <2>1, Numbers, ClocksTyped DEF Bounds, Timing, InboxTypes, TickTypes
    <3>2. clock[p] <= MaxTicks /\ ticked[p] <= MaxTicks /\ published[p] <= MaxTicks
      BY <2>1, <3>1 DEF PublishedTicks
    <3>3. projection[p] \in Projection /\ working[p] \in Projection
          /\ boundary[p].proj \in Projection
      BY <2>4, <3>1, <3>2, ProjectionWithin DEF BoundsOf
    <3> QED
      BY <2>1, <2>2, <3>1, <3>2, <3>3
  <2>6. \A a \in DOMAIN records : records[a] \in Record
    BY <2>1, <2>4, ProjectionWithin DEF AuthorityTypes, Bounds
  <2>7. /\ owner \in [Agent -> Partition \cup {NoPartition}]
        /\ DOMAIN records = {a \in Agent : owner[a] # NoPartition}
        /\ DOMAIN pendingMoves \subseteq DOMAIN records
    BY <2>1 DEF AuthorityTypes, Known, Authority
  <2>8. /\ published \in [Partition -> 0..MaxTicks] /\ clock \in [Partition -> 0..MaxTicks]
        /\ cursor \in [Partition -> 0..Len(operations)]
        /\ ticked \in [Partition -> 0..MaxTicks]
    BY <2>1, <2>5 DEF AuthorityTypes, InboxTypes, TickTypes
  <2>9. projection \in [Partition -> Projection] /\ working \in [Partition -> Projection]
    BY <2>1, <2>5 DEF InboxTypes, TickTypes
  <2>10. /\ pc \in [Partition -> Places] /\ agenda \in [Partition -> SUBSET Agent]
         /\ recovering \in [Partition -> BOOLEAN] /\ now \in 0..MaxTicks
    BY <2>1 DEF TickTypes
  <2> QED
    BY <2>4, <2>5, <2>6, <2>7, <2>8, <2>9, <2>10 DEF TypeOK
<1> QED
  BY <1>1, <1>2, <1>3, KnownTypes, ClocksAgree, PTL DEF Spec
=============================================================================
