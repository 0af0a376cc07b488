---------------------------- MODULE RuntimeLoop ----------------------------
(***************************************************************************)
(* The runtime of one partition: the lifecycle controller runs a batch of  *)
(* ticks for an operation; each tick hydrates the world projection, drains *)
(* the command stream and runs the tick itself, appending to the event     *)
(* stream as it goes.  The process may die anywhere and the operation is   *)
(* started again: a batch found "running" with appends beyond its last     *)
(* boundary is replayed from that boundary, reusing the appends it finds.  *)
(* (apps/worker/src: localSimulationLifecycle.ts, localRuntimeLoop.ts,     *)
(* localRuntimeStep.ts, localCommandDrain.ts, commandStreamConsumer.ts,    *)
(* tickRunner.ts, agentCycleRunner.ts, projectionHydration.ts)             *)
(*                                                                         *)
(* The event store is the idempotent log IdempotentLog specifies, one      *)
(* entry per append, written as the append's idempotency key: the version  *)
(* an append expected is its position minus one.  A projection is the      *)
(* sequence of appends applied to it.  There is no simulation-wide         *)
(* authority (preTickMaterialize is undefined).                            *)
(***************************************************************************)
EXTENDS Naturals, Sequences, FiniteSets

CONSTANTS
  Agents,         \* agents per tick, in tick order
  MarketMetrics,  \* whether ticks record market metrics
  BatchSize,      \* tickBatchSize
  DrainLimit,     \* commandDrainLimit
  CommandKinds,   \* "register", "steer" (with drafts), "note" (without)
  NoSequence,     \* undefined recoveryToSequence
  Reconsiders,    \* whether a cycle that is run again may decide anew
  Operations,     \* bound: operations the caller starts, one after the other
  Commands,       \* bound: commands in the command stream
  MaxCrashes, MaxPauses, MaxResets  \* bounds

ASSUME RuntimeLoopAssumption ==
  /\ Agents \in Nat /\ MarketMetrics \in BOOLEAN
  /\ BatchSize \in Nat \ {0} /\ DrainLimit \in Nat \ {0}
  /\ CommandKinds \subseteq {"register", "steer", "note"}
  /\ NoSequence \notin Nat /\ Reconsiders \in BOOLEAN
  /\ Operations \in Nat /\ Commands \in Nat
  /\ MaxCrashes \in Nat /\ MaxPauses \in Nat /\ MaxResets \in Nat

VARIABLES
  \* Files.
  stream,         \* the event stream
  commandStream,  \* the kinds of the command records
  consumed,       \* lastConsumedSequence of the consumer's checkpoint
  memories,       \* short-term memory batches written per command record
  traced,         \* the command records with a steering trace
  cycleEffects,   \* agent cycles whose memory and plan progress are saved
  snapshot,       \* the latest projection checkpoint with its snapshot
  lifecycle,      \* the lifecycle state
  \* The process.
  phase,            \* what it does next
  operation,        \* the operation it works for
  previousTicks,    \* previouslyCompletedTickCount
  completedTicks,   \* ticks completed by this start
  tick,             \* the tick index
  recoveryTo,       \* recoveryToSequence, or NoSequence
  recoveryThrough,  \* recoveryThroughSequence
  recovering,       \* whether the current tick replays existing appends
  hydratedTo,       \* lastAppliedSequence of the tick's hydration
  drainTo,          \* the last record this drain has read
  projection,       \* the world projection
  slot,             \* the next slot of the tick
  expectedVersion,  \* the version the next append expects
  \* The caller and its environment.
  acknowledged,  \* how many operations have returned "completed"
  outcome,       \* how the last start ended
  intent,        \* the cycles whose agent has something to append
  crashes, pauses, resets

files == <<stream, commandStream, consumed, memories, traced, cycleEffects,
           snapshot, lifecycle>>
batch == <<operation, previousTicks, completedTicks, tick, recoveryTo,
           recoveryThrough>>
step == <<recovering, hydratedTo, drainTo, projection, slot, expectedVersion>>
bounds == <<crashes, pauses, resets>>
environment == <<acknowledged, outcome, intent, bounds>>
vars == <<files, phase, batch, step, environment>>

\* A pause between the end of a batch and the answer to its caller makes the
\* caller's next try run another batch (see OperationAdvancesOnce).
Ticks == BatchSize * (Operations + MaxPauses)

Promise == INSTANCE TickHistory WITH history <- stream
LastSlot == Promise!LastSlot
AgentSlots == [tick : 1..Ticks, slot : 1..Agents]
SlotKey(t, s) == [tick |-> t, slot |-> s]
CommandKey(n) == [command |-> n]

Phase == {"down", "idle", "step", "drain", "remember", "trace", "checkpoint",
          "tick", "cycle", "boundary", "finish", "return", "settled"}

Prefix(s, n) == SubSeq(s, 1, n)
Written(key) == \E n \in 1..Len(stream) : stream[n] = key
Position(key) == CHOOSE n \in 1..Len(stream) : stream[n] = key

Init ==
  /\ stream = << >> /\ commandStream = << >>
  /\ consumed = 0 /\ memories = [n \in 1..Commands |-> 0] /\ traced = {}
  /\ cycleEffects = {}
  /\ snapshot = [sequence |-> 0, projection |-> << >>]
  /\ lifecycle = [status |-> "none", nextTick |-> 1, lastApplied |-> 0,
                  operation |-> 0, completedTicks |-> 0]
  /\ phase = "idle"
  /\ operation = 0 /\ previousTicks = 0 /\ completedTicks = 0 /\ tick = 1
  /\ recoveryTo = NoSequence /\ recoveryThrough = 0
  /\ recovering = FALSE /\ hydratedTo = 0 /\ drainTo = 0
  /\ projection = << >> /\ slot = 0 /\ expectedVersion = 0
  /\ acknowledged = 0 /\ outcome = "none"
  /\ intent \in IF Reconsiders THEN {AgentSlots} ELSE SUBSET AgentSlots
  /\ crashes = 0 /\ pauses = 0 /\ resets = 0

\* The start of the operation throws; the lifecycle state stays as it is.
Throw ==
  /\ phase' = "idle"
  /\ outcome' = "threw"
  /\ UNCHANGED <<files, batch, step, acknowledged, intent, bounds>>

-----------------------------------------------------------------------------
(* start, up to the loop, and after it.  The caller starts operation after *)
(* operation and repeats one until it has returned "completed".            *)

\* The operation has completed before: answer from the lifecycle state.
StartCompleted ==
  /\ phase = "idle" /\ acknowledged < Operations
  /\ lifecycle.status = "completed"
  /\ lifecycle.operation = acknowledged + 1
  /\ acknowledged' = acknowledged + 1
  /\ outcome' = "completed"
  /\ UNCHANGED <<files, phase, batch, step, intent, bounds>>

StartRefused ==
  /\ phase = "idle" /\ acknowledged < Operations
  /\ lifecycle.status = "reset-requested"
  /\ outcome' = "reset-pending"
  /\ UNCHANGED <<files, phase, batch, step, acknowledged, intent, bounds>>

\* Mutant: the interrupted batch is counted from its beginning.
StartBatchAnew ==
  /\ phase = "idle" /\ acknowledged < Operations
  /\ lifecycle.status # "reset-requested"
  /\ ~(lifecycle.status = "completed" /\ lifecycle.operation = acknowledged + 1)
  /\ operation' = acknowledged + 1
  /\ previousTicks' = 0 /\ completedTicks' = 0
  /\ tick' = lifecycle.nextTick
  /\ recoveryTo' = IF /\ lifecycle.status = "running"
                      /\ lifecycle.lastApplied < Len(stream)
                   THEN lifecycle.lastApplied ELSE NoSequence
  /\ recoveryThrough' = Len(stream)
  /\ lifecycle' = [status |-> "running", nextTick |-> lifecycle.nextTick,
                   lastApplied |-> IF lifecycle.status = "running"
                                   THEN lifecycle.lastApplied ELSE Len(stream),
                   operation |-> operation', completedTicks |-> 0]
  /\ phase' = "step"
  /\ UNCHANGED <<stream, commandStream, consumed, memories, traced,
                 cycleEffects, snapshot, step, environment>>

\* The batch goes on behind the ticks the lifecycle state counts; a batch
\* found running is replayed from its boundary if anything lies beyond it.
StartBatch ==
  /\ phase = "idle" /\ acknowledged < Operations
  /\ lifecycle.status # "reset-requested"
  /\ ~(lifecycle.status = "completed" /\ lifecycle.operation = acknowledged + 1)
  /\ operation' = acknowledged + 1
  /\ previousTicks' = IF lifecycle.status \in {"running", "paused"}
                      THEN lifecycle.completedTicks ELSE 0
  /\ completedTicks' = 0
  /\ tick' = lifecycle.nextTick
  /\ recoveryTo' = IF /\ lifecycle.status = "running"
                      /\ lifecycle.lastApplied < Len(stream)
                   THEN lifecycle.lastApplied ELSE NoSequence
  /\ recoveryThrough' = Len(stream)
  /\ lifecycle' = [status |-> "running", nextTick |-> lifecycle.nextTick,
                   lastApplied |-> IF lifecycle.status = "running"
                                   THEN lifecycle.lastApplied ELSE Len(stream),
                   operation |-> operation', completedTicks |-> previousTicks']
  /\ phase' = IF previousTicks' = BatchSize THEN "finish" ELSE "step"
  /\ UNCHANGED <<stream, commandStream, consumed, memories, traced,
                 cycleEffects, snapshot, step, environment>>

\* The loop has returned: its status, the next tick and the ticks completed.
SaveBatch(status) ==
  /\ lifecycle' = [status |-> status, nextTick |-> tick,
                   lastApplied |-> Len(stream), operation |-> operation,
                   completedTicks |-> previousTicks + completedTicks]
  /\ phase' = "return"
  /\ outcome' = status
  /\ UNCHANGED <<stream, commandStream, consumed, memories, traced,
                 cycleEffects, snapshot, batch, step, acknowledged, intent,
                 bounds>>

FinishBatch == phase = "finish" /\ SaveBatch("completed")

\* A completed batch runs its validation and memory-consolidation schedules,
\* and saves the state it had before them with their fields.
SaveSchedules ==
  /\ phase = "return" /\ outcome = "completed"
  /\ lifecycle' = [status |-> "completed", nextTick |-> tick,
                   lastApplied |-> Len(stream), operation |-> operation,
                   completedTicks |-> previousTicks + completedTicks]
  /\ phase' = "settled"
  /\ UNCHANGED <<stream, commandStream, consumed, memories, traced,
                 cycleEffects, snapshot, batch, step, environment>>

\* The promise of start is settled and the caller notes the result; schedules
\* may be absent.
ReturnResult ==
  /\ phase \in {"return", "settled"}
  /\ acknowledged' = IF outcome = "completed" THEN operation ELSE acknowledged
  /\ phase' = "idle"
  /\ UNCHANGED <<files, batch, step, outcome, intent, bounds>>

-----------------------------------------------------------------------------
(* A step of the loop: hydration and the command drain.                    *)

PauseBeforeTick ==
  /\ phase = "step" /\ lifecycle.status = "paused" /\ SaveBatch("paused")

\* Mutant: the snapshot is used whatever the sequence to hydrate to.
HydrateFromAnySnapshot ==
  /\ phase = "step" /\ lifecycle.status # "paused"
  /\ recovering' = (recoveryTo # NoSequence /\ recoveryTo < recoveryThrough)
  /\ hydratedTo' = IF recovering' THEN recoveryTo ELSE Len(stream)
  /\ projection' = snapshot.projection
                     \o SubSeq(stream, snapshot.sequence + 1, hydratedTo')
  /\ drainTo' = IF consumed + DrainLimit < Len(commandStream)
                THEN consumed + DrainLimit ELSE Len(commandStream)
  /\ phase' = "drain"
  /\ UNCHANGED <<files, batch, slot, expectedVersion, environment>>

\* The projection up to the boundary while the prefix found at the start is
\* replayed, and of the whole stream otherwise, from the snapshot if it does
\* not lie beyond; then the records to drain are read, once.
Hydrate ==
  /\ phase = "step" /\ lifecycle.status # "paused"
  /\ recovering' = (recoveryTo # NoSequence /\ recoveryTo < recoveryThrough)
  /\ hydratedTo' = IF recovering' THEN recoveryTo ELSE Len(stream)
  /\ projection' = IF snapshot.sequence <= hydratedTo'
                   THEN snapshot.projection
                          \o SubSeq(stream, snapshot.sequence + 1, hydratedTo')
                   ELSE Prefix(stream, hydratedTo')
  /\ drainTo' = IF consumed + DrainLimit < Len(commandStream)
                THEN consumed + DrainLimit ELSE Len(commandStream)
  /\ phase' = "drain"
  /\ UNCHANGED <<files, batch, slot, expectedVersion, environment>>

Record == consumed + 1
Draining == phase = "drain" /\ consumed < drainTo

\* The handler of a record with drafts or of a registration: it appends at
\* the current version of the stream.  Registrations have no memory or trace.
DispatchCommand ==
  /\ Draining
  /\ commandStream[Record] # "note"
  /\ ~Written(CommandKey(Record))
  /\ stream' = Append(stream, CommandKey(Record))
  /\ projection' = Append(projection, CommandKey(Record))
  /\ phase' = IF commandStream[Record] = "register" THEN "checkpoint"
              ELSE "remember"
  /\ UNCHANGED <<commandStream, consumed, memories, traced, cycleEffects,
                 snapshot, lifecycle, batch, recovering, hydratedTo, drainTo,
                 slot, expectedVersion, environment>>

\* The key is taken by an append that expected an earlier version: the store
\* throws, the drain fails, and the loop with it.
DrainFails ==
  /\ Draining
  /\ commandStream[Record] # "note"
  /\ Written(CommandKey(Record))
  /\ SaveBatch("command-drain-failed")

HandleNote ==
  /\ Draining
  /\ commandStream[Record] = "note"
  /\ phase' = "remember"
  /\ UNCHANGED <<files, batch, step, environment>>

RememberCommand ==
  /\ phase = "remember"
  /\ memories' = [memories EXCEPT ![Record] = @ + 1]
  /\ phase' = "trace"
  /\ UNCHANGED <<stream, commandStream, consumed, traced, cycleEffects,
                 snapshot, lifecycle, batch, step, environment>>

TraceCommand ==
  /\ phase = "trace"
  /\ traced' = traced \cup {Record}
  /\ phase' = "checkpoint"
  /\ UNCHANGED <<stream, commandStream, consumed, memories, cycleEffects,
                 snapshot, lifecycle, batch, step, environment>>

\* Mutant: the checkpoint is saved for the records read, not those handled.
CheckpointRead ==
  /\ phase = "checkpoint"
  /\ consumed' = drainTo
  /\ phase' = "drain"
  /\ UNCHANGED <<stream, commandStream, memories, traced, cycleEffects,
                 snapshot, lifecycle, batch, step, environment>>

CheckpointCommand ==
  /\ phase = "checkpoint"
  /\ consumed' = Record
  /\ phase' = "drain"
  /\ UNCHANGED <<stream, commandStream, memories, traced, cycleEffects,
                 snapshot, lifecycle, batch, step, environment>>

-----------------------------------------------------------------------------
(* The tick: time, the agents' cycles, market metrics.                     *)

\* Mutant: every tick goes on from where it was hydrated to.
BeginTickAtHydration ==
  /\ phase = "drain" /\ consumed = drainTo
  /\ slot' = 0
  /\ expectedVersion' = hydratedTo
  /\ phase' = "tick"
  /\ UNCHANGED <<files, batch, recovering, hydratedTo, drainTo, projection,
                 environment>>

\* A replayed tick goes on from the boundary, another from the stream's end.
BeginTick ==
  /\ phase = "drain" /\ consumed = drainTo
  /\ slot' = 0
  /\ expectedVersion' = IF recovering THEN hydratedTo ELSE Len(stream)
  /\ phase' = "tick"
  /\ UNCHANGED <<files, batch, recovering, hydratedTo, drainTo, projection,
                 environment>>

CurrentKey == SlotKey(tick, slot)
InTick == phase = "tick" /\ slot <= LastSlot
IsAgentSlot == slot \in 1..Agents
\* getIdempotentAppend has found the slot's append.
Recoverable == recovering /\ Written(CurrentKey)

\* Mutant: a replayed tick does not look for its appends.
AppendAgain ==
  /\ InTick /\ Recoverable
  /\ Throw

\* The slot's append continues the tick and is applied to the projection.
RecoverAppend ==
  /\ InTick /\ Recoverable
  /\ Position(CurrentKey) = expectedVersion + 1
  /\ projection' = Append(projection, CurrentKey)
  /\ expectedVersion' = expectedVersion + 1
  /\ slot' = slot + 1
  /\ UNCHANGED <<files, phase, batch, recovering, hydratedTo, drainTo,
                 environment>>

\* Otherwise assertRecoveredAppendContinuesTick throws.
RecoveredAppendDoesNotContinue ==
  /\ InTick /\ Recoverable
  /\ Position(CurrentKey) # expectedVersion + 1
  /\ Throw

\* The agent is busy, or its cycle emits no command.
AgentIdle ==
  /\ InTick /\ ~Recoverable
  /\ IsAgentSlot
  /\ Reconsiders \/ CurrentKey \notin intent
  /\ slot' = slot + 1
  /\ cycleEffects' = cycleEffects \cup {CurrentKey}
  /\ UNCHANGED <<stream, commandStream, consumed, memories, traced, snapshot,
                 lifecycle, phase, batch, recovering, hydratedTo, drainTo,
                 projection, expectedVersion, environment>>

Appends == IsAgentSlot => Reconsiders \/ CurrentKey \in intent

\* Mutant: the append asks for no version.
AppendAnywhere ==
  /\ InTick /\ ~Recoverable /\ Appends
  /\ ~Written(CurrentKey)
  /\ stream' = Append(stream, CurrentKey)
  /\ projection' = Append(projection, CurrentKey)
  /\ expectedVersion' = expectedVersion + 1
  /\ IF IsAgentSlot THEN phase' = "cycle" /\ UNCHANGED slot
     ELSE slot' = slot + 1 /\ UNCHANGED phase
  /\ UNCHANGED <<commandStream, consumed, memories, traced, cycleEffects,
                 snapshot, lifecycle, batch, recovering, hydratedTo, drainTo,
                 environment>>

\* Mutant: a cycle that has appended saves nothing behind it.
AppendWithoutEffects ==
  /\ InTick /\ ~Recoverable /\ Appends
  /\ ~Written(CurrentKey) /\ expectedVersion = Len(stream)
  /\ stream' = Append(stream, CurrentKey)
  /\ projection' = Append(projection, CurrentKey)
  /\ expectedVersion' = expectedVersion + 1
  /\ slot' = slot + 1
  /\ UNCHANGED <<commandStream, consumed, memories, traced, cycleEffects,
                 snapshot, lifecycle, phase, batch, recovering, hydratedTo,
                 drainTo, environment>>

AppendSlot ==
  /\ InTick /\ ~Recoverable /\ Appends
  /\ ~Written(CurrentKey) /\ expectedVersion = Len(stream)
  /\ stream' = Append(stream, CurrentKey)
  /\ projection' = Append(projection, CurrentKey)
  /\ expectedVersion' = expectedVersion + 1
  /\ IF IsAgentSlot THEN phase' = "cycle" /\ UNCHANGED slot
     ELSE slot' = slot + 1 /\ UNCHANGED phase
  /\ UNCHANGED <<commandStream, consumed, memories, traced, cycleEffects,
                 snapshot, lifecycle, batch, recovering, hydratedTo, drainTo,
                 environment>>

\* The store refuses the append: its key is taken or its version is not the
\* stream's.
AppendRefused ==
  /\ InTick /\ ~Recoverable /\ Appends
  /\ Written(CurrentKey) \/ expectedVersion # Len(stream)
  /\ Throw

\* What a cycle saves behind its append: memory and plan progress.
SaveCycleEffects ==
  /\ phase = "cycle"
  /\ cycleEffects' = cycleEffects \cup {CurrentKey}
  /\ slot' = slot + 1
  /\ phase' = "tick"
  /\ UNCHANGED <<stream, commandStream, consumed, memories, traced, snapshot,
                 lifecycle, batch, recovering, hydratedTo, drainTo, projection,
                 expectedVersion, environment>>

\* saveProjectionCheckpointIfConfigured refuses to go back.
SaveSnapshot ==
  /\ phase = "tick" /\ slot > LastSlot
  /\ IF snapshot.sequence > expectedVersion THEN Throw
     ELSE /\ snapshot' = [sequence |-> expectedVersion,
                          projection |-> projection]
          /\ phase' = "boundary"
          /\ UNCHANGED <<stream, commandStream, consumed, memories, traced,
                         cycleEffects, lifecycle, batch, step, environment>>

\* The loop moves its recovery boundary behind a replayed tick, and
\* onTickCompleted saves the boundary; it keeps a pause and nothing else.
CompleteTick ==
  /\ phase = "boundary"
  /\ tick' = tick + 1
  /\ completedTicks' = completedTicks + 1
  /\ recoveryTo' = IF recovering THEN expectedVersion ELSE recoveryTo
  /\ lifecycle' = [status |-> IF lifecycle.status = "paused" THEN "paused"
                              ELSE "running",
                   nextTick |-> tick + 1, lastApplied |-> Len(stream),
                   operation |-> operation,
                   completedTicks |-> previousTicks + completedTicks + 1]
  /\ phase' = IF previousTicks + completedTicks' = BatchSize THEN "finish"
              ELSE "step"
  /\ UNCHANGED <<stream, commandStream, consumed, memories, traced,
                 cycleEffects, snapshot, operation, previousTicks,
                 recoveryThrough, step, environment>>

-----------------------------------------------------------------------------
(* What happens around the process.                                        *)

\* The API appends a command record.
SubmitCommand(kind) ==
  /\ Len(commandStream) < Commands
  /\ commandStream' = Append(commandStream, kind)
  /\ UNCHANGED <<stream, consumed, memories, traced, cycleEffects, snapshot,
                 lifecycle, phase, batch, step, environment>>

\* pause saves the stream's version at once, whatever the tick has appended.
Pause ==
  /\ phase # "down" /\ pauses < MaxPauses
  /\ pauses' = pauses + 1
  /\ lifecycle' =
       [lifecycle EXCEPT
          !.status = "paused",
          !.lastApplied = Len(stream),
          !.completedTicks = IF lifecycle.status \in {"running", "paused"}
                             THEN @ ELSE 0]
  /\ UNCHANGED <<stream, commandStream, consumed, memories, traced,
                 cycleEffects, snapshot, phase, batch, step, acknowledged,
                 outcome, intent, crashes, resets>>

Reset ==
  /\ phase # "down" /\ resets < MaxResets
  /\ resets' = resets + 1
  /\ lifecycle' = [status |-> "reset-requested", nextTick |-> 1,
                   lastApplied |-> Len(stream), operation |-> 0,
                   completedTicks |-> 0]
  /\ UNCHANGED <<stream, commandStream, consumed, memories, traced,
                 cycleEffects, snapshot, phase, batch, step, acknowledged,
                 outcome, intent, crashes, pauses>>

Crash ==
  /\ phase # "down" /\ crashes < MaxCrashes
  /\ crashes' = crashes + 1
  /\ phase' = "down"
  /\ operation' = 0 /\ previousTicks' = 0 /\ completedTicks' = 0 /\ tick' = 1
  /\ recoveryTo' = NoSequence /\ recoveryThrough' = 0
  /\ recovering' = FALSE /\ hydratedTo' = 0 /\ drainTo' = 0
  /\ projection' = << >> /\ slot' = 0 /\ expectedVersion' = 0
  /\ UNCHANGED <<files, acknowledged, outcome, intent, pauses, resets>>

Restart ==
  /\ phase = "down"
  /\ phase' = "idle"
  /\ UNCHANGED <<files, batch, step, environment>>

Start == StartCompleted \/ StartRefused \/ StartBatch

Drain ==
  DispatchCommand \/ DrainFails \/ HandleNote \/ RememberCommand
    \/ TraceCommand \/ CheckpointCommand

Tick ==
  BeginTick \/ RecoverAppend \/ RecoveredAppendDoesNotContinue \/ AgentIdle
    \/ AppendSlot \/ AppendRefused \/ SaveCycleEffects \/ SaveSnapshot
    \/ CompleteTick

Run == Hydrate \/ PauseBeforeTick \/ Drain \/ Tick \/ FinishBatch \/ SaveSchedules
         \/ ReturnResult

Next ==
  \/ Start \/ Run
  \/ \E kind \in CommandKinds : SubmitCommand(kind)
  \/ Pause \/ Reset \/ Crash \/ Restart

\* The event loop runs a started batch to its end, the supervisor restarts a
\* dead process, and the caller repeats an operation that has not completed.
Spec ==
  /\ Init /\ [][Next]_vars
  /\ WF_vars(Run) /\ WF_vars(Restart) /\ WF_vars(Start)

-----------------------------------------------------------------------------
(* Properties.                                                             *)

\* Files and process state keep their types.
TypeOK ==
  /\ \A n \in 1..Len(stream) : stream[n] \in Promise!Key
  /\ \A n \in 1..Len(commandStream) : commandStream[n] \in CommandKinds
  /\ consumed \in 0..Len(commandStream)
  /\ memories \in [1..Commands -> Nat] /\ traced \subseteq 1..Commands
  /\ cycleEffects \subseteq AgentSlots
  /\ snapshot.sequence \in 0..Len(stream)
  /\ lifecycle.nextTick \in 1..Ticks + 1
  /\ lifecycle.lastApplied \in 0..Len(stream)
  /\ lifecycle.completedTicks \in 0..BatchSize
  /\ phase \in Phase
  /\ previousTicks + completedTicks \in 0..BatchSize
  /\ recoveryTo \in 0..Len(stream) \cup {NoSequence}
  /\ drainTo \in 0..Len(commandStream)
  /\ slot \in 0..LastSlot + 1 /\ expectedVersion \in 0..Len(stream)

\* What is derived from the stream is its prefix, whichever process made it
\* and in whichever recovery: while a tick runs every agent decides on exactly
\* what its append will follow, without a hole, and a snapshot holds what its
\* label says, so that hydration from it and from the beginning agree
\* (localRuntimeStep.ts, tickRunner.ts, projectionHydration.ts).
DerivedStateIsPrefix ==
  /\ phase \in {"tick", "cycle", "boundary"} =>
       projection = Prefix(stream, expectedVersion)
  /\ snapshot.projection = Prefix(stream, snapshot.sequence)

\* An operation that completes has advanced the partition by its batch of
\* ticks, neither more nor less, however often it was interrupted, paused and
\* started again (localSimulationLifecycle.ts).
OperationAdvancesOnce ==
  /\ phase = "idle" /\ lifecycle.status = "completed" =>
       lifecycle.nextTick = 1 + BatchSize * lifecycle.operation
  /\ acknowledged > 0 => Written(SlotKey(BatchSize * acknowledged, 0))

\* A command is checkpointed only behind all it does: its append, its memory
\* and its trace (commandStreamConsumer.ts, localCommandDrain.ts).
CheckpointFollowsEffects ==
  \A n \in 1..consumed :
    /\ commandStream[n] # "note" => Written(CommandKey(n))
    /\ commandStream[n] # "register" => memories[n] > 0 /\ n \in traced

\* No drain meets a command it cannot handle and no start throws: what a start
\* finds of an earlier one it can go on from (localRuntimeLoop.ts,
\* localRuntimeStep.ts, localCommandDrain.ts, tickRunner.ts).
RecoveryIsExact == outcome \notin {"command-drain-failed", "threw"}

\* As long as no process dies and no reset is requested, nothing goes wrong:
\* pauses and commands of every kind, at any moment, leave every start
\* something to go on from.
PausesAreHarmless == crashes = 0 /\ resets = 0 => RecoveryIsExact

\* The event stream is one tick after the other, whatever happened.
ImplementsHistory == Promise!Spec

\* Every operation of the caller completes at last.
EventuallyCompletes == <>(acknowledged = Operations)

\* A kill between a cycle's append and its memory, progress and trace loses
\* them, since the replayed tick does not run the cycle again, but no more than
\* one cycle's for each kill (tickRunner.ts, agentCycleRunner.ts).
LostCycles == {n \in 1..Len(stream) : stream[n] \in AgentSlots \ cycleEffects}
CyclesLostToCrashes == phase # "cycle" => Cardinality(LostCycles) <= crashes

\* A command that is delivered again leaves its memory again, but only after a
\* kill behind its first delivery (localCommandDrain.ts, fileRepositories.ts).
RememberedOncePerCrash == \A n \in 1..Commands : memories[n] <= 1 + crashes

\* A kill costs at most the effects of one cycle, or repeats one memory of each
\* command (agentCycleRunner.ts, localCommandDrain.ts).
LossesBoundedByKills == CyclesLostToCrashes /\ RememberedOncePerCrash
=============================================================================
