--------------------------- MODULE MarketCollection ---------------------------
(***************************************************************************)
(* The collection of market data by several processes                      *)
(* (apps/worker/src/paperMarketCollection.ts and the child processes of    *)
(* apps/server/src/localRuntimeTownPaperMarketCollectionProcess.ts and     *)
(* ...Shard.ts).  A coordinator leases the epochs of every shard in an     *)
(* append-only ledger, runs each in a child process that works on the      *)
(* shard's runtime root, and records the child's result.  Epochs of a      *)
(* single society are kept apart by a barrier over all shards.             *)
(*                                                                         *)
(* Time is what is left of each lease.  A run of the coordinator that      *)
(* fails leaves its process alive for as long as other children of it run, *)
(* and their results are still recorded; a coordinator that is killed      *)
(* leaves its children running and nobody to hear of them.                 *)
(***************************************************************************)
EXTENDS Integers, FiniteSets, FiniteSetsExt

CONSTANTS
  ShardCount,         \* plan.shards.length
  EpochCount,         \* plan.targetEpochCount
  EpochCycleCount,    \* plan.epochCycleCount
  LeaseDuration,      \* plan.leaseDurationMs, in ticks
  MaxAttempts,        \* plan.maxAttemptsPerEpoch
  MaxParallelShards,  \* maxParallelShards of the run
  SingleSociety,      \* plan.topology = single-persistent-society-partitions
  MaxFaults           \* bound: kills, restarts, children that die, sessions that
                      \* stop, and instants at which attended leases run out

ASSUME MarketCollectionAssumption ==
  /\ {ShardCount, EpochCount, EpochCycleCount, LeaseDuration, MaxAttempts,
      MaxParallelShards} \subseteq Nat \ {0}
  /\ SingleSociety \in BOOLEAN
  /\ MaxFaults \in Nat

Shards == 1..ShardCount
Epochs == 0..EpochCount - 1

VARIABLES
  ledger,       \* [Shards -> [Epochs -> the last ledger event of the epoch]]
  coordinator,  \* "off" | "running": the run of the collection
  children,     \* the child processes, and what their coordinator knows
  session,      \* [Shards -> [Epochs -> the run session of the epoch]]
  cycles,       \* [Shards -> cycles the shard's world has gone through]
  frozen,       \* the source manifest is written
  shared,       \* the shards whose runtime root two live children have used
  abandoned,    \* some coordinator was killed, or some run failed, before all
                \* of its children were done
  faults        \* how many of MaxFaults have happened

vars == <<ledger, coordinator, children, session, cycles, frozen, shared,
          abandoned, faults>>

(***************************************************************************)
(* The ledger: the last event of an epoch tells all that projectCollection *)
(* makes of its events.  "started" is read with the lease it took.         *)
(***************************************************************************)
NoWindow == [from |-> 0, to |-> 0]
Window == [from : Nat, to : Nat]
Entry == [status : {"pending", "started", "completed", "failed"},
          attempt : Nat, lease : 0..LeaseDuration, window : Window]

(* What projectCollection makes of it: a lease that has run out is a failure. *)
StatusOf(s, e) ==
  IF ledger[s][e].status # "started" THEN ledger[s][e].status
  ELSE IF ledger[s][e].lease = 0 THEN "failed" ELSE "leased"

\* Mutant: the barrier asks the shard's own last epoch alone.
PreviousEpochCompleteAlone(s, e) == e = 0 \/ StatusOf(s, e - 1) = "completed"

PreviousEpochComplete(s, e) ==
  e = 0 \/ \A t \in IF SingleSociety THEN Shards ELSE {s} :
              StatusOf(t, e - 1) = "completed"

\* Mutant: the last attempt is never made.
RunnableOneLess ==
  {se \in Shards \X Epochs :
     /\ StatusOf(se[1], se[2]) \in {"pending", "failed"}
     /\ ledger[se[1]][se[2]].attempt + 1 < MaxAttempts
     /\ PreviousEpochComplete(se[1], se[2])}

Runnable ==
  {se \in Shards \X Epochs :
     /\ StatusOf(se[1], se[2]) \in {"pending", "failed"}
     /\ ledger[se[1]][se[2]].attempt < MaxAttempts
     /\ PreviousEpochComplete(se[1], se[2])}

(* The projection lists the epochs in turn and the shards within an epoch. *)
Position(se) == se[2] * ShardCount + se[1]

Batch ==
  {se \in Runnable :
     Cardinality({other \in Runnable : Position(other) < Position(se)})
       < MaxParallelShards}

Complete == \A s \in Shards, e \in Epochs : StatusOf(s, e) = "completed"

(* assertGlobalEpochWindows and assertShardEpochSequence. *)
WindowEnd(s, e) == IF e = 0 THEN 0 ELSE ledger[s][e - 1].window.to

WindowsMerge ==
  \A s \in Shards, e \in Epochs :
    /\ ledger[s][e].window.from = WindowEnd(s, e)
    /\ SingleSociety =>
         \A t \in Shards : ledger[t][e].window = ledger[s][e].window

(***************************************************************************)
(* The children, by what the coordinator of each still does for it: the    *)
(* current run awaits it, its process outlived the run that awaited it, or *)
(* that process is gone.                                                   *)
(***************************************************************************)
Child == [shard : Shards, epoch : Epochs, attempt : Nat,
          phase : {"running", "succeeded", "failed"},
          waiter : {"run", "rejected", "none"}, window : Window]

Awaited == {c \in children : c.waiter = "run"}
Attended(c) == c.waiter # "none"
Live == {c \in children : c.phase = "running"}
LiveIn(s) == {c \in Live : c.shard = s}

HoldsLease(c) ==
  /\ StatusOf(c.shard, c.epoch) = "leased"
  /\ ledger[c.shard][c.epoch].attempt = c.attempt

(* What is left when one closure of Promise.all rejects: the run is over,  *)
(* its other children go on and are still waited for.                      *)
Reject(c) ==
  /\ children' = {IF d \in Awaited /\ c \in Awaited
                    THEN [d EXCEPT !.waiter = "rejected"] ELSE d
                    : d \in children \ {c}}
  /\ coordinator' = IF c \in Awaited THEN "off" ELSE coordinator
  /\ abandoned' = (abandoned \/ (c \in Awaited /\ Awaited # {c}))
  /\ UNCHANGED ledger

Fault == faults < MaxFaults /\ faults' = faults + 1

Init ==
  /\ ledger = [s \in Shards |-> [e \in Epochs |->
                 [status |-> "pending", attempt |-> 0, lease |-> 0,
                  window |-> NoWindow]]]
  /\ coordinator = "off"
  /\ children = {}
  /\ session = [s \in Shards |-> [e \in Epochs |-> [status |-> "open", done |-> 0]]]
  /\ cycles = [s \in Shards |-> 0]
  /\ frozen = FALSE
  /\ shared = {}
  /\ abandoned = FALSE
  /\ faults = 0

(* An operator runs the collection, or runs it again with its id. *)
StartRun ==
  /\ coordinator = "off" /\ ~frozen
  /\ coordinator' = "running"
  /\ UNCHANGED <<ledger, children, session, cycles, frozen, shared, abandoned,
                 faults>>

(***************************************************************************)
(* The loop of runPaperMarketCollection.  Promise.all has settled when the *)
(* run awaits no child; the appends of one batch and the spawns are one    *)
(* turn of the event loop.                                                 *)
(***************************************************************************)
AtLoopTop == coordinator = "running" /\ Awaited = {}

(* What the start of an attempt does to the ledger, and its child. *)
Start(entry) ==
  [status |-> "started", attempt |-> entry.attempt + 1, lease |-> LeaseDuration,
   window |-> NoWindow]

NewChild(s, e) ==
  [shard |-> s, epoch |-> e, attempt |-> ledger[s][e].attempt + 1,
   phase |-> "running", waiter |-> "run", window |-> NoWindow]

\* Mutant: the operation id names the attempt, so each has its own session.
LeaseBatchAnew ==
  /\ AtLoopTop /\ ~Complete /\ Runnable # {}
  /\ ledger' = [s \in Shards |-> [e \in Epochs |->
                 IF <<s, e>> \in Batch THEN Start(ledger[s][e]) ELSE ledger[s][e]]]
  /\ children' = children \cup {NewChild(se[1], se[2]) : se \in Batch}
  /\ session' = [s \in Shards |-> [e \in Epochs |->
                  IF <<s, e>> \in Batch THEN [status |-> "open", done |-> 0]
                                       ELSE session[s][e]]]
  /\ shared' = shared \cup {s \in Shards :
                              LiveIn(s) # {} /\ \E e \in Epochs : <<s, e>> \in Batch}
  /\ UNCHANGED <<coordinator, cycles, frozen, abandoned, faults>>

LeaseBatch ==
  /\ AtLoopTop /\ ~Complete /\ Runnable # {}
  /\ ledger' = [s \in Shards |-> [e \in Epochs |->
                 IF <<s, e>> \in Batch THEN Start(ledger[s][e]) ELSE ledger[s][e]]]
  /\ children' = children \cup {NewChild(se[1], se[2]) : se \in Batch}
  /\ shared' = shared \cup {s \in Shards :
                              LiveIn(s) # {} /\ \E e \in Epochs : <<s, e>> \in Batch}
  /\ UNCHANGED <<coordinator, session, cycles, frozen, abandoned, faults>>

(* "exhausted retries", or "active unexpired leases". *)
GiveUp ==
  /\ AtLoopTop /\ ~Complete /\ Runnable = {}
  /\ coordinator' = "off"
  /\ UNCHANGED <<ledger, children, session, cycles, frozen, shared, abandoned,
                 faults>>

(* The run returns and the CLI freezes the sources, which throws if the    *)
(* windows of the epochs do not fit.                                       *)
Freeze ==
  /\ AtLoopTop /\ Complete
  /\ coordinator' = "off"
  /\ frozen' = (frozen \/ WindowsMerge)
  /\ UNCHANGED <<ledger, children, session, cycles, shared, abandoned, faults>>

(***************************************************************************)
(* A child: supervisor.runCycles with the epoch's operation id, on from    *)
(* the cycle the session has come to.  What two children make of one       *)
(* runtime root is not defined: the model follows a shared shard no        *)
(* further.                                                                *)
(***************************************************************************)
Works(c) == c \in Live /\ c.shard \notin shared
SessionOf(c) == session[c.shard][c.epoch]

RunCycle(c) ==
  /\ Works(c) /\ SessionOf(c).status = "open" /\ SessionOf(c).done < EpochCycleCount
  /\ session' = [session EXCEPT ![c.shard][c.epoch].done = @ + 1]
  /\ cycles' = [cycles EXCEPT ![c.shard] = @ + 1]
  /\ UNCHANGED <<ledger, coordinator, children, frozen, shared, abandoned, faults>>

(* A partition fails, or needs attention: the session is closed for good. *)
StopSession(c) ==
  /\ Works(c) /\ SessionOf(c).status = "open" /\ SessionOf(c).done < EpochCycleCount
  /\ Fault
  /\ session' = [session EXCEPT ![c.shard][c.epoch].status = "stopped"]
  /\ UNCHANGED <<ledger, coordinator, children, cycles, frozen, shared, abandoned>>

(* An exit that nobody waits for leaves no trace. *)
Exit(c, phase, window) ==
  children' = (children \ {c}) \cup
    (IF Attended(c) THEN {[c EXCEPT !.phase = phase, !.window = window]} ELSE {})

(* The session is over: the child reports the world's time, or why not. *)
Report(c) ==
  LET window == [from |-> WindowEnd(c.shard, c.epoch), to |-> cycles[c.shard]] IN
  /\ Works(c)
  /\ SessionOf(c).status = "open" => SessionOf(c).done = EpochCycleCount
  /\ session' = [session EXCEPT ![c.shard][c.epoch].status =
                   IF @ = "open" THEN "completed" ELSE @]
  /\ IF SessionOf(c).status # "stopped" /\ window.to > window.from
       THEN Exit(c, "succeeded", window)
       ELSE Exit(c, "failed", NoWindow)
  /\ UNCHANGED <<ledger, coordinator, cycles, frozen, shared, abandoned, faults>>

(* It dies of itself: no start, no memory, too much output. *)
ChildDies(c) ==
  /\ Works(c) /\ Fault
  /\ Exit(c, "failed", NoWindow)
  /\ UNCHANGED <<ledger, coordinator, session, cycles, frozen, shared, abandoned>>

(***************************************************************************)
(* The closure of an epoch when its child has ended: a result or a failure *)
(* is recorded if the lease is still this attempt's, and fails the run if  *)
(* it is not.                                                              *)
(***************************************************************************)
Record(c) ==
  /\ c \in children \ Live /\ HoldsLease(c)
  /\ ledger' = [ledger EXCEPT ![c.shard][c.epoch] =
                 [@ EXCEPT !.status = IF c.phase = "succeeded" THEN "completed"
                                                               ELSE "failed",
                           !.lease = 0, !.window = c.window]]
  /\ children' = children \ {c}
  /\ UNCHANGED <<coordinator, session, cycles, frozen, shared, abandoned, faults>>

RefuseLate(c) ==
  /\ c \in children \ Live /\ ~HoldsLease(c)
  /\ Reject(c)
  /\ UNCHANGED <<session, cycles, frozen, shared, faults>>

\* Mutant: the end of the lease rejects the promise and kills nobody.
LeaveLateChild(c) ==
  /\ c \in Live /\ Attended(c) /\ ~HoldsLease(c)
  /\ coordinator' = IF c \in Awaited THEN "off" ELSE coordinator
  /\ abandoned' = (abandoned \/ (c \in Awaited /\ Awaited # {c}))
  /\ children' = {IF d \in Awaited /\ c \in Awaited
                    THEN [d EXCEPT !.waiter = IF d = c THEN "none" ELSE "rejected"] ELSE d
                    : d \in children}
  /\ UNCHANGED <<ledger, session, cycles, frozen, shared, faults>>

(* runShardProcess kills the child at the end of its lease. *)
KillLateChild(c) ==
  /\ c \in Live /\ Attended(c) /\ ~HoldsLease(c)
  /\ Reject(c)
  /\ UNCHANGED <<session, cycles, frozen, shared, faults>>

(***************************************************************************)
(* Time, and the ends nobody chose.                                        *)
(***************************************************************************)
Leased(s, e) == StatusOf(s, e) = "leased"

Overdue ==
  {c \in children : Attended(c) /\ HoldsLease(c) /\ ledger[c.shard][c.epoch].lease = 1}

Tick ==
  /\ \E s \in Shards, e \in Epochs : Leased(s, e)
  /\ IF Overdue # {} THEN Fault ELSE UNCHANGED faults
  /\ ledger' = [s \in Shards |-> [e \in Epochs |->
                 IF Leased(s, e) THEN [ledger[s][e] EXCEPT !.lease = @ - 1]
                                 ELSE ledger[s][e]]]
  /\ UNCHANGED <<coordinator, children, session, cycles, frozen, shared, abandoned>>

(* The coordinator of the run, or one that outlived its run, is killed and *)
(* leaves its children behind; children that have ended are forgotten.     *)
Orphaned(waiter) ==
  {IF c.waiter = waiter THEN [c EXCEPT !.waiter = "none"] ELSE c
     : c \in {c \in children : c.waiter = waiter => c \in Live}}

KillCoordinator(waiter) ==
  /\ Fault
  /\ IF waiter = "run" THEN coordinator = "running"
                       ELSE \E c \in children : c.waiter = waiter
  /\ children' = Orphaned(waiter)
  /\ coordinator' = IF waiter = "run" THEN "off" ELSE coordinator
  /\ abandoned' = (abandoned \/ \E c \in Live : c.waiter = waiter)
  /\ UNCHANGED <<ledger, session, cycles, frozen, shared>>

(* The machine restarts. *)
Restart ==
  /\ Fault
  /\ coordinator = "running" \/ children # {}
  /\ children' = {}
  /\ coordinator' = "off"
  /\ UNCHANGED <<ledger, session, cycles, frozen, shared, abandoned>>

Proceed(c) ==
  RunCycle(c) \/ Report(c) \/ Record(c) \/ RefuseLate(c) \/ KillLateChild(c)

Next ==
  \/ StartRun \/ LeaseBatch \/ GiveUp \/ Freeze \/ Tick \/ Restart
  \/ \E c \in children : Proceed(c) \/ StopSession(c) \/ ChildDies(c)
  \/ \E waiter \in {"run", "rejected"} : KillCoordinator(waiter)

Spec == Init /\ [][Next]_vars

(***************************************************************************)
(* What is scheduled goes on, time passes, and an operator runs the        *)
(* collection until its sources are frozen.                                *)
(***************************************************************************)
FairSpec ==
  /\ Spec
  /\ WF_vars(StartRun) /\ WF_vars(LeaseBatch \/ GiveUp \/ Freeze) /\ WF_vars(Tick)
  /\ \A s \in Shards, e \in Epochs :
       WF_vars(\E c \in children : c.shard = s /\ c.epoch = e /\ Proceed(c))

-------------------------------------------------------------------------------
TypeOK ==
  /\ ledger \in [Shards -> [Epochs -> Entry]]
  /\ coordinator \in {"off", "running"}
  /\ children \subseteq Child
  /\ session \in [Shards -> [Epochs ->
                    [status : {"open", "completed", "stopped"}, done : Nat]]]
  /\ cycles \in [Shards -> Nat]
  /\ frozen \in BOOLEAN /\ abandoned \in BOOLEAN
  /\ shared \subseteq Shards
  /\ faults \in Nat

(* No shard's world goes into an epoch before every shard has completed    *)
(* the one before, whichever attempts, retries and restarts brought them   *)
(* there (README.md: "no partition may start epoch N+1 until every         *)
(* partition has completed epoch N"), as long as no two children have      *)
(* worked in one runtime root at a time.                                   *)
SocietyInStep ==
  SingleSociety /\ shared = {} =>
    \A s, t \in Shards, e \in Epochs :
      cycles[s] > e * EpochCycleCount => cycles[t] >= e * EpochCycleCount

(* An epoch that is completed went through its cycles once: what an        *)
(* interrupted or late attempt did is neither lost nor done again by the   *)
(* next, and the windows of all shards fit, so that the sources can be     *)
(* frozen ("retries the same durable run session instead of applying       *)
(* cycles twice").                                                         *)
EpochsRunOnce ==
  \A s \in Shards \ shared, e \in Epochs :
    ledger[s][e].status = "completed" =>
      ledger[s][e].window = [from |-> e * EpochCycleCount,
                             to |-> (e + 1) * EpochCycleCount]

(* Leases keep the children of a shard apart: two are alive at once only   *)
(* after a coordinator was killed without its children, or a run that had  *)
(* failed was run again while its process still waited for another child.  *)
SharedOnlyWhenAbandoned == shared # {} => abandoned

(* While no session was closed by a failure and no two children met, a     *)
(* collection that is run again after every failure comes to its end: the  *)
(* attempts lost to kills, timeouts and failures cost time and no more.    *)
EventuallyFrozen ==
  <>(\/ frozen \/ shared # {}
     \/ \E s \in Shards, e \in Epochs : session[s][e].status = "stopped")
===============================================================================
