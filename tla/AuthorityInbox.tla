--------------------------- MODULE AuthorityInbox ---------------------------
(***************************************************************************)
(* Partitions around the simulation-wide authority: the tick of a          *)
(* partition as the runtime host wires it (localSimulationRuntimeHost.ts), *)
(* the router that publishes the partition's state and settles global      *)
(* commands (simulationCommandRouter.ts), the inbox and the clock barrier  *)
(* of the authority (simulationWideAuthority.ts) and the materializer that *)
(* brings deliveries into the partition's stream                           *)
(* (simulationWideAuthorityMaterializer.ts).                               *)
(*                                                                         *)
(* All partitions run in one process.  The file repositories behind the    *)
(* materializer and the router do synchronous I/O, so that a read of the   *)
(* inbox, the appends, the acknowledgement and the publication that        *)
(* follows are one action for the other partitions; a kill may fall        *)
(* between any two of them.  What separates actions is what waits: the     *)
(* barrier's poll, the command drain, the model calls of agents' cycles.   *)
(*                                                                         *)
(* An agent's record is reduced to the settlements it has taken part in    *)
(* (its facts, numbered by fencing token: inventory, balance, memory) and  *)
(* the ticks its owner has lived through (its age: what the partition      *)
(* changes on its own).  Rejected commands change nothing and are left     *)
(* out, as are memory records and cognitive snapshots, which ride along    *)
(* with the events modelled here.                                          *)
(***************************************************************************)
EXTENDS Naturals, Sequences, FiniteSets, SequencesExt

CONSTANTS
  Partition,       \* partition keys
  Agent,           \* agent ids
  NoPartition,     \* the owner of an agent the authority does not know
  Home,            \* the partition each agent starts in
  Movers,          \* the agents that may move across partitions
  Depositors,      \* the agents a credit cadence pays
  TravelTicks,     \* ticks a move takes; 0: it arrives at once
  MaxTicks,        \* ticks of the batch
  MaxSettlements,  \* bound: global commands settled
  MaxCrashes,      \* bound: kills of the process
  MaxTimeouts      \* bound: starts given up at the barrier

ASSUME AuthorityInboxAssumption ==
  /\ IsFiniteSet(Partition) /\ IsFiniteSet(Agent)
  /\ NoPartition \notin Partition
  /\ Home \in [Agent -> Partition]
  /\ Movers \subseteq Agent /\ Depositors \subseteq Agent
  /\ TravelTicks \in Nat
  /\ MaxTicks \in Nat \ {0}
  /\ MaxSettlements \in Nat /\ MaxCrashes \in Nat /\ MaxTimeouts \in Nat

VARIABLES
  \* The authority, durable in its state file.
  operations,   \* the settled operations, in fencing order
  owner,        \* ownerPartitionKeyByAgentId
  pendingMoves, \* the agents in transit to another partition
  records,      \* projection.agents: the records of the agents it knows
  now,          \* projection.clock.now, in ticks
  published,    \* partitionClockNowByKey
  cursor,       \* materializerCursors
  receipts,     \* the publications applied, by their digest
  \* Each partition's storage.
  stream,       \* the deliveries appended to the event stream
  projection,   \* what the whole event stream adds up to
  clock,        \* the ticks of its projection clock
  boundary,     \* the projection and clock lastAppliedSequence stands for
  tail,         \* the appends behind that boundary
  ticked,       \* completedTickCount of the lifecycle state
  \* Each partition's start call and router, lost with the process.
  pc,           \* where the start call stands
  working,      \* the projection the tick works on
  agenda,       \* the agents whose cycle is still to come in this tick
  recovering,   \* recoveringInterruptedPrefix
  lastSynced,   \* lastSyncedPartitionStateFingerprint
  lastReported, \* lastReportedAgentIds
  \* Faults so far.
  crashes, timeouts

authorityState == <<owner, pendingMoves, records, published, receipts>>
inbox == <<stream, projection, cursor>>
lifecycle == <<boundary, ticked>>
router == <<lastSynced, lastReported>>
faults == <<crashes, timeouts>>

vars == <<operations, now, authorityState, inbox, clock, lifecycle, tail, pc,
          working, agenda,
          recovering, router, faults>>

-----------------------------------------------------------------------------
(* Records, events and projections.  A projection maps the agents present  *)
(* to their records.                                                       *)

Token == 1..(MaxSettlements + MaxTicks)

Record == [age : 0..MaxTicks, facts : SUBSET Token]

Projection == UNION {[S -> Record] : S \in SUBSET Agent}

NewRecord == [age |-> 0, facts |-> {}]

Settled(token, agents) == [type |-> "settled", token |-> token, agents |-> agents]
Credited(token, a) == [type |-> "credited", token |-> token, agents |-> {a}]
Departed(a, rec) == [type |-> "departed", agent |-> a, record |-> rec]
Arrived(a, rec) == [type |-> "arrived", agent |-> a, record |-> rec]

WithFact(proj, token, agents) ==
  [a \in DOMAIN proj |->
     IF a \in agents THEN [proj[a] EXCEPT !.facts = @ \cup {token}] ELSE proj[a]]

Without(proj, a) == [b \in DOMAIN proj \ {a} |-> proj[b]]

With(proj, a, rec) ==
  [b \in DOMAIN proj \cup {a} |-> IF b = a THEN rec ELSE proj[b]]

\* What applyWorldEvent insists on: a transfer needs one participant, a credit
\* its agent; a departing agent must be here, with the balance it leaves with,
\* and an arriving one must not.
Applicable(proj, event) ==
  CASE event.type = "settled"  -> event.agents \cap DOMAIN proj # {}
    [] event.type = "credited" -> event.agents \subseteq DOMAIN proj
    [] event.type = "departed" -> /\ event.agent \in DOMAIN proj
                                  /\ proj[event.agent].facts = event.record.facts
    [] event.type = "arrived"  -> event.agent \notin DOMAIN proj

Applied(proj, event) ==
  CASE event.type \in {"settled", "credited"} ->
         WithFact(proj, event.token, event.agents)
    [] event.type = "departed" -> Without(proj, event.agent)
    [] event.type = "arrived"  -> With(proj, event.agent, event.record)

\* A reduction that throws leaves the stream with an event no hydration can
\* get past.
Reduced(state, event) ==
  IF state.sound /\ Applicable(state.proj, event)
  THEN [state EXCEPT !.proj = Applied(@, event)]
  ELSE [state EXCEPT !.sound = FALSE]

AppliedAll(proj, events) ==
  LET state[i \in 0..Len(events)] ==
        IF i = 0 THEN [proj |-> proj, sound |-> TRUE]
                 ELSE Reduced(state[i - 1], events[i])
  IN state[Len(events)]

AgedBy(proj, ticks) == [a \in DOMAIN proj |-> [proj[a] EXCEPT !.age = @ + ticks]]

-----------------------------------------------------------------------------
(* The inbox and the materializer.                                         *)

\* Movements and transfers go to the partitions recorded when they settled,
\* credit to whoever owns the agent when the inbox is read, ahead of the rest.
DeliveryOf(token, p) ==
  LET operation == operations[token]
      paid == {a \in operation.parties : operation.kind = "advance" /\ owner[a] = p}
  IN [i \in 1..Cardinality(paid) |-> Credited(token, SetToSeq(paid)[i])]
       \o operation.to[p]

Pending(p) ==
  {token \in DOMAIN operations : token > cursor[p] /\ DeliveryOf(token, p) # <<>>}

\* Mutant of getIdempotentAppend: every delivery read is appended.
NeverAppended(entries, token) == FALSE

IsAppended(entries, token) == \E i \in DOMAIN entries : entries[i].token = token

\* One delivery: appended under its own key and reduced; a delivery found in
\* the stream must say what it says now.
TakeDelivery(p, state, token) ==
  LET events == DeliveryOf(token, p)
      reduced == AppliedAll(state.proj, events)
      entry == [token |-> token, events |-> events]
  IN IF state.outcome # "taken" THEN state
     ELSE IF IsAppended(state.entries, token)
          THEN IF entry \in ToSet(state.entries)
               THEN state ELSE [state EXCEPT !.outcome = "failed"]
          ELSE [proj |-> reduced.proj,
                entries |-> Append(state.entries, entry),
                outcome |-> IF reduced.sound THEN "taken" ELSE "poisoned"]

\* Where a start ends that could not take its deliveries: a conflicting append
\* throws, an event that cannot be reduced stays in the stream for good.
StuckAt(taken) == IF taken.outcome = "poisoned" THEN "poisoned" ELSE "failed"

\* The partition as it is before its inbox is read.
Unread(p) == [proj |-> projection[p], entries |-> stream[p], outcome |-> "taken"]

\* Deliveries are taken in the order of their tokens, up to the last one read.
ReadFrom(p, start, last) ==
  LET pending == Pending(p)
      state[token \in 0..last] ==
        IF token = 0 THEN start
        ELSE IF token \in pending THEN TakeDelivery(p, state[token - 1], token)
        ELSE state[token - 1]
  IN state[last]

Taken(p) == ReadFrom(p, Unread(p), Len(operations))

Acknowledged(p) ==
  IF Pending(p) = {} THEN cursor[p]
  ELSE CHOOSE token \in Pending(p) : \A other \in Pending(p) : other <= token

\* materializeInbox up to the last append; the acknowledgement comes last.
StreamsTaken(p, taken) ==
  /\ stream' = [stream EXCEPT ![p] = taken.entries]
  /\ projection' = [projection EXCEPT ![p] = taken.proj]
  /\ cursor' = [cursor EXCEPT ![p] =
                  IF taken.outcome = "taken" THEN Acknowledged(p) ELSE @]

AppendsOf(p, taken) ==
  [i \in 1..(Len(taken.entries) - Len(stream[p])) |-> "delivery"]

-----------------------------------------------------------------------------
(* Publishing a partition's state (syncPartitionState and                  *)
(* syncPartitionAgentLocations).  clocks is {c} at a tick boundary and {}  *)
(* within a tick.                                                          *)

Reported(p, proj, clocks) == [clocks |-> clocks, agents |-> proj]

\* Agents this router has reported before, which are gone while the
\* authority still has them here, have left the town.
LeftTown(p, proj) == {a \in lastReported[p] \ DOMAIN proj : owner[a] = p}

\* The first publication of a process carries all memory records, the later
\* ones those that are new: their digests differ.
DigestOf(p, proj, clocks) ==
  [partition |-> p, state |-> Reported(p, proj, clocks),
   departed |-> LeftTown(p, proj), first |-> lastSynced[p] = <<>>]

IsUnchanged(p, proj, clocks) ==
  lastSynced[p] = <<Reported(p, proj, clocks)>> /\ LeftTown(p, proj) = {}

\* The authority throws when the clock runs back or when somebody else owns
\* an agent in the report; a receipt is returned without a second look.
IsRefused(p, proj, clocks) ==
  /\ ~IsUnchanged(p, proj, clocks)
  /\ DigestOf(p, proj, clocks) \notin receipts
  /\ \/ \E c \in clocks : c < published[p]
     \/ \E a \in DOMAIN proj : owner[a] \notin {p, NoPartition}

\* Mutant of the departure branch: the owner of a deleted agent is kept.
AfterReportWithOwner(p, proj, clocks) ==
  LET gone == LeftTown(p, proj)
  IN [owner |-> [a \in Agent |-> IF a \in DOMAIN proj THEN p ELSE owner[a]],
      pendingMoves |-> [a \in DOMAIN pendingMoves \ gone |-> pendingMoves[a]],
      records |-> [a \in (DOMAIN records \ gone) \cup DOMAIN proj |->
                     IF a \in DOMAIN proj THEN proj[a] ELSE records[a]],
      published |-> [published EXCEPT ![p] =
                       IF clocks = {} THEN @ ELSE CHOOSE c \in clocks : TRUE],
      receipts |-> receipts \cup {DigestOf(p, proj, clocks)}]

\* What the authority holds once the report has been applied.
AfterReport(p, proj, clocks) ==
  LET gone == LeftTown(p, proj)
      digest == DigestOf(p, proj, clocks)
      current == [owner |-> owner, pendingMoves |-> pendingMoves,
                  records |-> records, published |-> published,
                  receipts |-> receipts]
  IN IF IsUnchanged(p, proj, clocks) \/ digest \in receipts THEN current
     ELSE [owner |-> [a \in Agent |-> IF a \in gone THEN NoPartition
                                      ELSE IF a \in DOMAIN proj THEN p
                                      ELSE owner[a]],
           pendingMoves |-> [a \in DOMAIN pendingMoves \ gone |-> pendingMoves[a]],
           records |-> [a \in (DOMAIN records \ gone) \cup DOMAIN proj |->
                          IF a \in DOMAIN proj THEN proj[a] ELSE records[a]],
           published |-> [published EXCEPT ![p] =
                            IF clocks = {} THEN @ ELSE CHOOSE c \in clocks : TRUE],
           receipts |-> receipts \cup {digest}]

AuthorityBecomes(state) ==
  /\ owner' = state.owner /\ pendingMoves' = state.pendingMoves
  /\ records' = state.records /\ published' = state.published
  /\ receipts' = state.receipts

RouterHasReported(p, proj, clocks) ==
  /\ lastReported' = [lastReported EXCEPT ![p] = DOMAIN proj]
  /\ lastSynced' = [lastSynced EXCEPT ![p] = <<Reported(p, proj, clocks)>>]

Published(p, proj, clocks) ==
  AuthorityBecomes(AfterReport(p, proj, clocks)) /\ RouterHasReported(p, proj, clocks)

-----------------------------------------------------------------------------
(* The tick of a partition.                                                *)

Init ==
  /\ operations = <<>> /\ owner = Home /\ pendingMoves = <<>>
  /\ records = [a \in Agent |-> NewRecord]
  /\ now = 0 /\ published = [p \in Partition |-> 0]
  /\ cursor = [p \in Partition |-> 0] /\ receipts = {}
  /\ stream = [p \in Partition |-> <<>>]
  /\ projection = [p \in Partition |->
                     [a \in {b \in Agent : Home[b] = p} |-> NewRecord]]
  /\ clock = [p \in Partition |-> 0]
  /\ boundary = [p \in Partition |-> [proj |-> projection[p], clock |-> 0]]
  /\ tail = [p \in Partition |-> <<>>] /\ ticked = [p \in Partition |-> 0]
  /\ pc = [p \in Partition |-> "start"]
  /\ working = projection
  /\ agenda = [p \in Partition |-> {}]
  /\ recovering = [p \in Partition |-> FALSE]
  /\ lastSynced = [p \in Partition |-> <<>>]
  /\ lastReported = [p \in Partition |-> {a \in Agent : Home[a] = p}]
  /\ crashes = 0 /\ timeouts = 0

Goto(p, place) == pc' = [pc EXCEPT ![p] = place]

WorkOn(p, proj) == working' = [working EXCEPT ![p] = proj]

\* The clock a boundary publication of this tick carries, and the one the
\* authority must have reached before the tick's body.
ClockOf(p) == IF recovering[p] THEN boundary[p].clock ELSE clock[p]
Target(p) == ClockOf(p) + 1

\* Materialize, then publish: the order of preTickMaterialize in every phase.
\* A recovered tick takes no deliveries and publishes what it was given.
MaterializeAndPublish(p, given, clocks, place) ==
  LET taken == Taken(p)
      proj == IF recovering[p] THEN given ELSE taken.proj
      refused == IsRefused(p, proj, clocks)
  IN /\ IF recovering[p]
        THEN UNCHANGED <<inbox, tail>>
        ELSE /\ StreamsTaken(p, taken)
             /\ tail' = [tail EXCEPT ![p] = @ \o AppendsOf(p, taken)]
     /\ IF ~recovering[p] /\ taken.outcome # "taken"
        THEN Goto(p, StuckAt(taken)) /\ UNCHANGED <<authorityState, router>>
        ELSE IF refused
        THEN Goto(p, "failed") /\ UNCHANGED <<authorityState, router>>
        ELSE Published(p, proj, clocks) /\ Goto(p, place)
     /\ WorkOn(p, proj)
     /\ UNCHANGED <<operations, now>>

\* phase "pre-tick": publish at the boundary, and wait while the authority is
\* behind the tick's target.
PreTick(p) ==
  /\ pc[p] = "start"
  /\ MaterializeAndPublish(p, boundary[p].proj, {ClockOf(p)},
                           IF now < Target(p) THEN "waiting" ELSE "ready")
  /\ UNCHANGED <<clock, lifecycle, agenda, recovering, faults>>

\* Mutants of assertEveryPartitionPublishedThrough: one partition is enough;
\* everyone must be ahead.
BarrierOpensForOne == \E q \in Partition : published[q] >= now
BarrierOpensAhead == \A q \in Partition : published[q] > now

BarrierIsOpen == \A q \in Partition : published[q] >= now

\* Mutant: what was settled during the wait is left for later.
LeaveBarrierAtOnce(p) == Goto(p, "ready") /\ UNCHANGED <<inbox, tail, working>>

\* After the wait the inbox is materialized again, and nothing is published.
LeaveBarrier(p) ==
  LET taken == Taken(p)
  IN IF recovering[p]
     THEN Goto(p, "ready") /\ UNCHANGED <<inbox, tail, working>>
     ELSE /\ StreamsTaken(p, taken)
          /\ tail' = [tail EXCEPT ![p] = @ \o AppendsOf(p, taken)]
          /\ WorkOn(p, taken.proj)
          /\ Goto(p, IF taken.outcome = "taken" THEN "ready" ELSE StuckAt(taken))

\* A poll of advanceAuthorityAtPartitionBarrier that finds the clock where it
\* wants it.
FindAdvanced(p) ==
  /\ pc[p] = "waiting" /\ now >= Target(p)
  /\ LeaveBarrier(p)
  /\ UNCHANGED <<authorityState, operations, now, clock, lifecycle, agenda,
                 recovering, router, faults>>

\* advanceTime: the credit cadence settles, then the moves that are due hand
\* their agents over with the records the authority has of them.
Arriving(clockNow) ==
  {a \in DOMAIN pendingMoves :
     pendingMoves[a].due <= clockNow /\ pendingMoves[a].token \in records[a].facts}

AdvanceTime(clockNow) ==
  LET token == Len(operations) + 1
      paid == Depositors \cap DOMAIN records
      settled == WithFact(records, token, paid)
      arriving == Arriving(clockNow)
      handover == [q \in Partition |->
        {Departed(a, settled[a]) : a \in {b \in arriving : pendingMoves[b].from = q}}
          \cup {Arrived(a, settled[a]) : a \in {b \in arriving : pendingMoves[b].to = q}}]
  IN /\ now' = clockNow
     /\ operations' = Append(operations,
          [kind |-> "advance", key |-> <<clockNow>>, due |-> clockNow, parties |-> paid,
           to |-> [q \in Partition |-> SetToSeq(handover[q])]])
     /\ records' = settled
     /\ owner' = [a \in Agent |->
                    IF a \in arriving THEN pendingMoves[a].to ELSE owner[a]]
     /\ pendingMoves' = [a \in DOMAIN pendingMoves \ arriving |-> pendingMoves[a]]

\* A poll that finds every partition published through the authority's clock.
\* What follows for this partition is what follows a poll that comes second.
Advance(p) ==
  /\ pc[p] = "waiting" /\ now < Target(p) /\ BarrierIsOpen
  /\ AdvanceTime(Target(p))
  /\ UNCHANGED <<published, receipts, inbox, clock, lifecycle, tail, pc, working,
                 agenda, recovering, router, faults>>

\* Nothing waits between a tick's last publication and its completion.
Interleaves(p) == \A q \in Partition \ {p} : pc[q] # "finished"

\* The wait is given up behind a poll that found the barrier closed: the start
\* throws (waitTimeoutMs).
TimesOut(p) ==
  /\ pc[p] = "waiting" /\ now < Target(p) /\ ~BarrierIsOpen
  /\ timeouts < MaxTimeouts
  /\ Interleaves(p)
  /\ timeouts' = timeouts + 1
  /\ Goto(p, "failed")
  /\ UNCHANGED <<operations, now, authorityState, inbox, clock, lifecycle, tail,
                 working, agenda, recovering, router, crashes>>

\* After the drain of steering commands the tick appends its time event and
\* fixes the agents whose cycles it will run.  A recovered tick replays the
\* event where it stands first behind the boundary; otherwise the append
\* expects a version that is not the stream's, or does not continue the tick.
AppendTime(p) ==
  /\ pc[p] = "ready"
  /\ IF recovering[p] /\ tail[p] # <<>> /\ Head(tail[p]) # "time"
     THEN Goto(p, "failed") /\ UNCHANGED <<projection, clock, tail, working, agenda>>
     ELSE /\ Goto(p, "body")
          /\ WorkOn(p, AgedBy(working[p], 1))
          /\ agenda' = [agenda EXCEPT ![p] = DOMAIN working[p]]
          /\ IF recovering[p] /\ tail[p] # <<>>
             THEN UNCHANGED <<projection, clock, tail>>
             ELSE /\ projection' = [projection EXCEPT ![p] = AgedBy(@, 1)]
                  /\ clock' = [clock EXCEPT ![p] = @ + 1]
                  /\ tail' = [tail EXCEPT ![p] = Append(@, "time")]
  /\ UNCHANGED <<operations, now, authorityState, stream, cursor, lifecycle,
                 recovering, router, faults>>

\* An agent under way is not available until it is there.
IsAvailable(p, a) ==
  /\ a \in DOMAIN working[p]
  /\ \A token \in working[p][a].facts :
       LET operation == operations[token]
       IN operation.kind = "move" /\ operation.key[3] = a => operation.due <= clock[p]

\* The identity of a settlement: the partition's tick, the agent's slot in it
\* and the type of the command, the same when an interrupted tick runs again.
KeyOf(p, a, kind) == <<p, ticked[p] + 1, a, kind>>

SettlementOf(key) ==
  {token \in DOMAIN operations : operations[token].key = key}

Settlements == Cardinality({token \in DOMAIN operations :
                              operations[token].kind # "advance"})

\* Mutant: the receiver's partition is not told.
TransferToActor(p, a, b, state) ==
  LET token == Len(operations) + 1
  IN [enabled |-> /\ {a, b} \subseteq DOMAIN state.records
                  /\ {a, b} \cap DOMAIN state.pendingMoves = {},
      state |-> [state EXCEPT !.records = WithFact(@, token, {a, b})],
      operation |->
        [kind |-> "transfer", key |-> KeyOf(p, a, "transfer"), due |-> now,
         parties |-> {a, b},
         to |-> [q \in Partition |->
                   IF q = p THEN <<Settled(token, {a, b})>> ELSE <<>>]]]

\* settleResourceTransfer (and every settlement between two agents): recorded
\* for the partitions that own them now.
Transfer(p, a, b, state) ==
  LET token == Len(operations) + 1
      both == {a, b}
  IN [enabled |-> /\ both \subseteq DOMAIN state.records
                  /\ both \cap DOMAIN state.pendingMoves = {},
      state |-> [state EXCEPT !.records = WithFact(@, token, both)],
      operation |->
        [kind |-> "transfer", key |-> KeyOf(p, a, "transfer"), due |-> now,
         parties |-> both,
         to |-> [q \in Partition |->
                   IF \E c \in both : state.owner[c] = q
                   THEN <<Settled(token, both)>> ELSE <<>>]]]

\* settleMove to a location of another partition: an arrival at once hands the
\* agent over, a journey leaves it with its owner until it is due.
Move(p, a, q, state) ==
  LET token == Len(operations) + 1
      settled == WithFact(state.records, token, {a})
      atOnce == TravelTicks = 0
      journey == [from |-> p, to |-> q, token |-> token, due |-> now + TravelTicks]
  IN [enabled |-> /\ a \in DOMAIN state.records \ DOMAIN state.pendingMoves
                  /\ state.owner[a] = p,
      state |-> [state EXCEPT
        !.records = settled,
        !.owner = IF atOnce THEN [@ EXCEPT ![a] = q] ELSE @,
        !.pendingMoves =
          IF atOnce THEN @
          ELSE [b \in DOMAIN @ \cup {a} |-> IF b = a THEN journey ELSE @[b]]],
      operation |->
        [kind |-> "move", key |-> KeyOf(p, a, "move"), due |-> journey.due,
         parties |-> {a},
         to |-> [r \in Partition |->
           CASE r = p -> <<Settled(token, {a})>>
                           \o (IF atOnce THEN <<Departed(a, settled[a])>> ELSE <<>>)
             [] r = q /\ atOnce -> <<Arrived(a, settled[a])>>
             [] OTHER -> <<>>]]]

\* A cycle that drafts a global command: the router publishes the working
\* projection, which takes no delivery first, and settles the command ("made",
\* what the settlement makes of the state published); the events it recorded
\* for this partition are folded into the working projection only.  A command
\* that settled before is not settled again.
Cycle(p, a, made, key) ==
  LET state == AfterReport(p, working[p], {})
      known == SettlementOf(key)
  IN /\ pc[p] = "body" /\ a \in agenda[p] /\ IsAvailable(p, a)
     /\ agenda' = [agenda EXCEPT ![p] = @ \ {a}]
     /\ IF IsRefused(p, working[p], {})
        THEN Goto(p, "failed") /\ UNCHANGED <<operations, authorityState, working, router>>
        ELSE /\ RouterHasReported(p, working[p], {})
             /\ \/ /\ known # {}
                   /\ AuthorityBecomes(state)
                   /\ UNCHANGED operations
                   /\ WorkOn(p, AppliedAll(working[p],
                                   operations[CHOOSE t \in known : TRUE].to[p]).proj)
                \/ /\ known = {} /\ Settlements < MaxSettlements /\ made.enabled
                   /\ AuthorityBecomes(made.state)
                   /\ operations' = Append(operations, made.operation)
                   /\ WorkOn(p, AppliedAll(working[p], made.operation.to[p]).proj)
             /\ Goto(p, "drain")
     /\ UNCHANGED <<now, inbox, clock, lifecycle, tail, recovering, faults>>

TransferCycle(p, a) ==
  \E b \in Agent \ {a} :
    Cycle(p, a, Transfer(p, a, b, AfterReport(p, working[p], {})),
          KeyOf(p, a, "transfer"))

MoveCycle(p, a) ==
  \E q \in Partition \ {p} :
    /\ a \in Movers
    /\ Cycle(p, a, Move(p, a, q, AfterReport(p, working[p], {})), KeyOf(p, a, "move"))

\* phase "post-authority": the deliveries, then the publication.
DrainAfterCycle(p) ==
  /\ pc[p] = "drain"
  /\ MaterializeAndPublish(p, working[p], {}, "body")
  /\ UNCHANGED <<clock, lifecycle, agenda, recovering, faults>>

\* phase "post-tick".
FinishTick(p) ==
  /\ pc[p] = "body"
  /\ MaterializeAndPublish(p, working[p], {IF recovering[p] THEN Target(p) ELSE clock[p]}, "finished")
  /\ UNCHANGED <<clock, lifecycle, agenda, recovering, faults>>

\* A recovered tick with deliveries behind its time event can append nothing
\* of its own: the stream is ahead of the version it expects.
AppendRefused(p) ==
  /\ pc[p] = "body" /\ recovering[p] /\ Len(tail[p]) > 1
  /\ Goto(p, "failed")
  /\ UNCHANGED <<operations, now, authorityState, inbox, clock, lifecycle, tail,
                 working, agenda, recovering, router, faults>>

\* onTickCompleted and the end of the batch: the boundary becomes the stream's
\* version.  A recovered tick ends where its own appends do; as long as the
\* stream went further before the restart, the next tick is recovered too.
CompleteTick(p) ==
  LET last == ticked[p] + 1 = MaxTicks
      resumes == recovering[p] /\ Len(tail[p]) > 1 /\ ~last
  IN /\ pc[p] = "finished"
     /\ ticked' = [ticked EXCEPT ![p] = @ + 1]
     /\ recovering' = [recovering EXCEPT ![p] = resumes]
     /\ boundary' = [boundary EXCEPT ![p] =
          IF resumes THEN [proj |-> AgedBy(@.proj, 1), clock |-> @.clock + 1]
                     ELSE [proj |-> projection[p], clock |-> clock[p]]]
     /\ tail' = [tail EXCEPT ![p] = IF resumes THEN Tail(@) ELSE <<>>]
     /\ Goto(p, IF last THEN "done" ELSE "start")
     /\ UNCHANGED <<operations, now, authorityState, inbox, clock, working,
                    agenda, router, faults>>

\* The lifecycle is still "running": the next start recovers what lies behind
\* its boundary.
Retry(p) ==
  /\ pc[p] = "failed"
  /\ recovering' = [recovering EXCEPT ![p] = tail[p] # <<>>]
  /\ Goto(p, "start")
  /\ UNCHANGED <<operations, now, authorityState, inbox, clock, lifecycle, tail,
                 working, agenda, router, faults>>

-----------------------------------------------------------------------------
(* A kill of the process, and the bootstrap that follows: every partition  *)
(* materializes its inbox before any tick, and the routers start anew.     *)

Materializing == {"start", "waiting", "drain", "body"}

\* p may have appended its deliveries up to token n without acknowledging them.
\* A poisoned stream is not hydrated, and takes none.
AppendedSoFar(p, n, q) ==
  IF pc[q] = "poisoned" THEN [Unread(q) EXCEPT !.outcome = "poisoned"]
  ELSE ReadFrom(q, Unread(q), IF q = p THEN n ELSE 0)

KillAndRestart ==
  /\ crashes < MaxCrashes /\ \E p \in Partition : pc[p] # "done"
  /\ crashes' = crashes + 1
  /\ \E p \in Partition :
     \E n \in IF pc[p] \in Materializing /\ ~recovering[p]
              THEN Pending(p) \cup {0} ELSE {0} :
       LET before == [q \in Partition |-> AppendedSoFar(p, n, q)]
           taken == [q \in Partition |->
             ReadFrom(q, before[q], Len(operations))]
       IN /\ stream' = [q \in Partition |-> taken[q].entries]
          /\ projection' = [q \in Partition |-> taken[q].proj]
          /\ cursor' = [q \in Partition |->
               IF taken[q].outcome = "taken" THEN Acknowledged(q) ELSE cursor[q]]
          /\ tail' = [q \in Partition |-> tail[q] \o AppendsOf(q, taken[q])]
          /\ working' = projection'
          /\ recovering' = [q \in Partition |-> tail'[q] # <<>> /\ pc[q] # "done"]
          /\ pc' = [q \in Partition |->
               IF \E r \in Partition : taken[r].outcome # "taken"
               THEN "poisoned"
               ELSE IF pc[q] = "done" \/ ticked[q] = MaxTicks THEN "done" ELSE "start"]
  /\ agenda' = [q \in Partition |-> {}]
  /\ lastSynced' = [q \in Partition |-> <<>>]
  /\ lastReported' = [q \in Partition |-> {a \in Agent : owner[a] = q}]
  /\ UNCHANGED <<operations, now, authorityState, clock, lifecycle, timeouts>>

Step(p) ==
  /\ Interleaves(p)
  /\ \/ PreTick(p) \/ FindAdvanced(p) \/ Advance(p) \/ AppendTime(p)
     \/ \E a \in Agent : TransferCycle(p, a) \/ MoveCycle(p, a)
     \/ DrainAfterCycle(p) \/ FinishTick(p) \/ AppendRefused(p)
     \/ CompleteTick(p) \/ Retry(p)

Next ==
  \/ \E p \in Partition : Step(p) \/ TimesOut(p)
  \/ KillAndRestart

Spec == Init /\ [][Next]_vars

-----------------------------------------------------------------------------
(* Properties.                                                             *)

Places == {"start", "waiting", "ready", "body", "drain", "finished", "done",
           "failed", "poisoned"}

\* Every variable keeps its type; the authority has a record of exactly the
\* agents it has an owner for, and only such an agent is in transit.
TypeOK ==
  /\ owner \in [Agent -> Partition \cup {NoPartition}]
  /\ DOMAIN records = {a \in Agent : owner[a] # NoPartition}
  /\ DOMAIN pendingMoves \subseteq DOMAIN records
  /\ \A a \in DOMAIN records : records[a] \in Record
  /\ now \in 0..MaxTicks /\ Len(operations) \in {0} \cup Token
  /\ published \in [Partition -> 0..MaxTicks] /\ clock \in [Partition -> 0..MaxTicks]
  /\ cursor \in [Partition -> 0..Len(operations)]
  /\ projection \in [Partition -> Projection] /\ working \in [Partition -> Projection]
  /\ \A p \in Partition : boundary[p].proj \in Projection
  /\ ticked \in [Partition -> 0..MaxTicks] /\ pc \in [Partition -> Places]
  /\ agenda \in [Partition -> SUBSET Agent] /\ recovering \in [Partition -> BOOLEAN]

\* Through kills between a delivery's append and its acknowledgement, and
\* through starts given up and repeated, a partition's stream holds every
\* settlement recorded for it up to its cursor once, in fencing order.
DeliveredOnce == \A p \in Partition :
  /\ \A i, j \in DOMAIN stream[p] : i < j => stream[p][i].token < stream[p][j].token
  /\ \A token \in 1..cursor[p] :
       operations[token].to[p] # <<>> =>
         \E i \in DOMAIN stream[p] : stream[p][i].token = token

FactsOf(a) == {token \in DOMAIN operations : a \in operations[token].parties}

\* As long as no process is killed, whatever interleaving of ticks, settlements
\* by other partitions, journeys and barrier timeouts: at any moment a partition
\* that reads its inbox to the end can apply it, and then has exactly the agents
\* the authority says it owns, each with every fact settled for it and every
\* tick it lived through, wherever it lived then.  Publishing never overwrites a
\* fact for good, and no agent is in two places or in none.
InboxBringsEverything ==
  crashes = 0 =>
    \A p \in Partition :
      LET read == Taken(p)
      IN /\ read.outcome = "taken"
         /\ DOMAIN read.proj = {a \in Agent : owner[a] = p}
         /\ \A a \in DOMAIN read.proj :
              read.proj[a] = [age |-> clock[p], facts |-> FactsOf(a)]

\* As long as no process is killed, an agent whose cycle may run in a tick is
\* owned by the partition that runs it, although ownership moves while
\* partitions wait: no agent acts in two partitions.
OnlyOwnersAct ==
  crashes = 0 =>
    \A p \in Partition : pc[p] = "body" =>
      \A a \in agenda[p] : IsAvailable(p, a) => owner[a] = p

\* As long as no process is killed, the authority's clock stands still while
\* any partition is in the body of a tick: agents of one tick are judged at
\* one time, and no cadence or handover falls between their cycles.
ClockMovesBetweenTicks ==
  [][now' # now /\ crashes = 0 => \A p \in Partition : pc[p] \notin {"body", "drain"}]_vars

\* The barrier is no deadlock, killed processes included: when every partition
\* waits or has finished its batch, one of those that wait can go on.
BarrierOpens ==
  /\ \E p \in Partition : pc[p] = "waiting"
  /\ \A p \in Partition : pc[p] \in {"waiting", "done"}
  => \E p \in Partition : pc[p] = "waiting" /\ (now >= Target(p) \/ BarrierIsOpen)

\* What the router's comment on departures promises: no agent of the town is
\* deleted, since none of the model's agents leaves it.
NobodyErased == \A a \in Agent : owner[a] # NoPartition
=============================================================================
